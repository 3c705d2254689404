--------------------------- MODULE OfflineProofs ---------------------------
(***************************************************************************)
(* Theorems about Offline, for every value of its constants: all traces, of*)
(* any length, whatever the size of a segment.                             *)
(*                                                                         *)
(* A program that reads a trace is a recursive function of it, and what is *)
(* said of every trace is proved by induction over it: a set that contains *)
(* the base and is closed under the step contains everything.              *)
(***************************************************************************)
EXTENDS Offline, SequenceTheorems, FiniteSetTheorems, WellFoundedInduction, TLAPS

-----------------------------------------------------------------------------
(* Induction. *)

LEMMA LeastNat ==
    ASSUME NEW S \in SUBSET Nat, S # {}
    PROVE  \E n \in S : \A m \in S : n <= m
<1>1. IsWellFoundedOn(OpToRel(<, Nat), Nat)
  BY NatLessThanWellFounded
<1>2. PICK n \in S : \A m \in S : ~(<<m, n>> \in OpToRel(<, Nat))
  BY <1>1, WFMin
<1>3. \A m \in S : ~(m < n)
  BY <1>2 DEF OpToRel
<1>4. QED
  BY <1>3

LEMMA NatSetInduction ==
    ASSUME NEW S, 0 \in S, \A n \in Nat : n \in S => n + 1 \in S
    PROVE  Nat \subseteq S
<1> DEFINE out == {n \in Nat : n \notin S}
<1> SUFFICES ASSUME out # {}
             PROVE  FALSE
  OBVIOUS
<1>1. PICK n \in out : \A m \in out : n <= m
  BY LeastNat
<1>2. n - 1 \in Nat /\ n - 1 \notin out
  BY <1>1
<1>3. QED
  BY <1>1, <1>2

LEMMA SeqSetInduction ==
    ASSUME NEW T, NEW P, << >> \in P,
           \A s \in Seq(T) : \A e \in T : s \in P => Append(s, e) \in P
    PROVE  Seq(T) \subseteq P
<1> DEFINE good == {n \in Nat : \A s \in Seq(T) : Len(s) = n => s \in P}
<1>1. 0 \in good
  BY EmptySeq
<1>2. ASSUME NEW n \in Nat, n \in good
      PROVE  n + 1 \in good
  <2>1. ASSUME NEW s \in Seq(T), Len(s) = n + 1
        PROVE  s \in P
    <3>1. s # << >>
      BY <2>1, EmptySeq
    <3>2. PICK r \in Seq(T), e \in T : s = Append(r, e)
      BY <3>1, SequenceEmptyOrAppend
    <3>3. Len(r) \in Nat /\ Len(s) = Len(r) + 1
      BY <3>2, AppendProperties, LenProperties
    <3>4. r \in P
      BY <1>2, <2>1, <3>3
    <3>5. QED
      BY <3>2, <3>4
  <2>2. QED
    BY <2>1
<1> HIDE DEF good
<1>3. Nat \subseteq good
  BY <1>1, <1>2, NatSetInduction
<1>4. QED
  BY <1>3, LenProperties DEF good

LEMMA SetInduction ==
    ASSUME NEW A, IsFiniteSet(A), NEW P, {} \in P,
           \A S \in SUBSET A : \A e \in A \ S : S \in P => S \cup {e} \in P
    PROVE  SUBSET A \subseteq P
<1> DEFINE good == {n \in Nat : \A S \in SUBSET A : Cardinality(S) = n => S \in P}
<1>0. \A S \in SUBSET A : IsFiniteSet(S) /\ Cardinality(S) \in Nat
  BY FS_Subset, FS_CardinalityType
<1>1. 0 \in good
  BY <1>0, FS_EmptySet
<1>2. ASSUME NEW n \in Nat, n \in good
      PROVE  n + 1 \in good
  <2>1. ASSUME NEW S \in SUBSET A, Cardinality(S) = n + 1
        PROVE  S \in P
    <3>0. IsFiniteSet(S) /\ Cardinality(S) = n + 1 /\ n + 1 # 0
      BY <1>0, <1>2, <2>1
    <3>1. S # {}
      BY <3>0, FS_EmptySet
    <3>2. PICK e \in S : TRUE
      BY <3>1
    <3>3. Cardinality(S \ {e}) = n
      <4>1. Cardinality(S \ {e}) = Cardinality(S) - 1
        BY <3>0, <3>2, FS_RemoveElement
      <4>2. QED
        BY <3>0, <4>1
    <3>4. S \ {e} \in SUBSET A /\ e \in A \ (S \ {e}) /\ (S \ {e}) \cup {e} = S
      BY <3>2
    <3>5. S \ {e} \in P
      BY <1>2, <3>3, <3>4
    <3>6. QED
      BY <3>4, <3>5
  <2>2. QED
    BY <2>1
<1> HIDE DEF good
<1>3. Nat \subseteq good
  BY <1>1, <1>2, NatSetInduction
<1>4. QED
  BY <1>0, <1>3 DEF good

(* A function on 1..n is a sequence. *)
LEMMA FunctionIsSeq ==
    ASSUME NEW S, NEW n \in Nat, NEW f, f = [i \in 1..n |-> f[i]], \A i \in 1..n : f[i] \in S
    PROVE  f \in Seq(S) /\ Len(f) = n /\ DOMAIN f = 1..n
<1>1. f \in [1..n -> S]
  OBVIOUS
<1>2. f \in Seq(S)
  BY <1>1, SeqDef
<1>3. Len(f) \in Nat /\ DOMAIN f = 1..Len(f) /\ DOMAIN f = 1..n
  BY <1>1, <1>2, LenProperties
<1>4. Len(f) = n
  BY <1>3
<1>5. QED
  BY <1>2, <1>3, <1>4

-----------------------------------------------------------------------------
(* What the recursive functions of a trace are, block by block. *)

IsBytes(f, s) ==
    f = [n \in 0..Len(s) |-> IF n = 0 THEN 0 ELSE f[n - 1] + Size[s[n]]]

LEMMA BytesOfExists ==
    ASSUME NEW s \in Seq(Block)
    PROVE  \E f : IsBytes(f, s)
<1> DEFINE P == {r \in Seq(Block) : \E f : IsBytes(f, r)}
<1>1. << >> \in P
  <2>1. IsBytes([n \in 0..0 |-> 0], << >>)
    BY EmptySeq DEF IsBytes
  <2>2. QED
    BY <2>1, EmptySeq
<1>2. ASSUME NEW r \in Seq(Block), NEW e \in Block, r \in P
      PROVE  Append(r, e) \in P
  <2>1. PICK f : IsBytes(f, r)
    BY <1>2
  <2>2. PICK t, k : t = Append(r, e) /\ k = Len(r)
    OBVIOUS
  <2>3. /\ k \in Nat /\ t \in Seq(Block) /\ Len(t) = k + 1
        /\ \A i \in 1..k : t[i] = r[i]
        /\ t[k + 1] = e
    BY <2>2, AppendProperties, LenProperties
  <2> DEFINE g == [n \in 0..(k + 1) |-> IF n = k + 1 THEN f[k] + Size[e] ELSE f[n]]
  <2>4. ASSUME NEW n \in 0..(k + 1)
        PROVE  g[n] = IF n = 0 THEN 0 ELSE g[n - 1] + Size[t[n]]
    <3>1. CASE n = k + 1
      <4>1. k \in 0..(k + 1) /\ n # 0 /\ n - 1 = k /\ k # k + 1
        BY <2>3, <3>1
      <4>2. g[k] = f[k] /\ g[n] = f[k] + Size[e]
        BY <3>1, <4>1
      <4>3. QED
        BY <2>3, <3>1, <4>1, <4>2
    <3>2. CASE n # k + 1
      <4>1. n \in 0..k /\ (n # 0 => n - 1 \in 0..(k + 1) /\ n - 1 # k + 1 /\ t[n] = r[n])
        BY <2>3, <3>2
      <4>2. g[n] = f[n] /\ (n # 0 => g[n - 1] = f[n - 1])
        BY <3>2, <4>1
      <4>3. f[n] = IF n = 0 THEN 0 ELSE f[n - 1] + Size[r[n]]
        BY <2>1, <2>2, <4>1 DEF IsBytes
      <4>4. QED
        BY <4>1, <4>2, <4>3
    <3>3. QED
      BY <3>1, <3>2
  <2>5. g = [n \in 0..(k + 1) |-> g[n]]
    OBVIOUS
  <2> HIDE DEF g
  <2>6. IsBytes(g, t)
    BY <2>3, <2>4, <2>5 DEF IsBytes
  <2>7. QED
    BY <2>2, <2>3, <2>6
<1> HIDE DEF P
<1>3. Seq(Block) \subseteq P
  BY <1>1, <1>2, SeqSetInduction
<1>4. QED
  BY <1>3 DEF P

LEMMA BytesOfIs ==
    ASSUME NEW s \in Seq(Block)
    PROVE  \E f : IsBytes(f, s) /\ BytesOf(s) = f[Len(s)]
<1> DEFINE f == CHOOSE f : IsBytes(f, s)
<1>1. IsBytes(f, s)
  BY BytesOfExists
<1>2. BytesOf(s) = f[Len(s)]
  BY DEF BytesOf, IsBytes
<1> HIDE DEF f
<1>3. QED
  BY <1>1, <1>2

LEMMA BytesOfEmpty ==
    BytesOf(<< >>) = 0
<1>1. PICK f : IsBytes(f, << >>) /\ BytesOf(<< >>) = f[Len(<< >>)]
  BY EmptySeq, BytesOfIs
<1>2. Len(<< >>) = 0
  BY EmptySeq
<1>3. QED
  BY <1>1, <1>2 DEF IsBytes

LEMMA BytesOfAppend ==
    ASSUME NEW s \in Seq(Block), NEW e \in Block
    PROVE  BytesOf(Append(s, e)) = BytesOf(s) + Size[e]
<1>1. PICK t, k : t = Append(s, e) /\ k = Len(s)
  OBVIOUS
<1>2. /\ k \in Nat /\ t \in Seq(Block) /\ Len(t) = k + 1
      /\ \A i \in 1..k : t[i] = s[i]
      /\ t[k + 1] = e
  BY <1>1, AppendProperties, LenProperties
<1>3. PICK f : IsBytes(f, s) /\ BytesOf(s) = f[k]
  BY <1>1, BytesOfIs
<1>4. PICK g : IsBytes(g, t) /\ BytesOf(t) = g[k + 1]
  BY <1>2, BytesOfIs
<1>5. g[k + 1] = g[k] + Size[e]
  BY <1>2, <1>4 DEF IsBytes
<1> DEFINE S == {n \in Nat : n <= k => f[n] = g[n]}
<1>6. 0 \in S
  BY <1>1, <1>2, <1>3, <1>4 DEF IsBytes
<1>7. ASSUME NEW n \in Nat, n \in S
      PROVE  n + 1 \in S
  <2>1. CASE n + 1 <= k
    <3>1. n + 1 \in 0..k /\ n + 1 \in 0..(k + 1) /\ n + 1 # 0 /\ n + 1 - 1 = n /\ n <= k
          /\ t[n + 1] = s[n + 1]
      BY <1>2, <2>1
    <3>2. f[n] = g[n]
      BY <1>7, <3>1
    <3>3. f[n + 1] = f[n] + Size[s[n + 1]]
      BY <1>1, <1>3, <3>1 DEF IsBytes
    <3>4. g[n + 1] = g[n] + Size[t[n + 1]]
      BY <1>2, <1>4, <3>1 DEF IsBytes
    <3>5. QED
      BY <3>1, <3>2, <3>3, <3>4
  <2>2. CASE ~(n + 1 <= k)
    BY <2>2
  <2>3. QED
    BY <2>1, <2>2
<1> HIDE DEF S
<1>8. Nat \subseteq S
  BY <1>6, <1>7, NatSetInduction
<1>9. f[k] = g[k]
  BY <1>2, <1>8 DEF S
<1>10. QED
  BY <1>1, <1>3, <1>4, <1>5, <1>9

IsAmong(f, s, S) ==
    f = [n \in 0..Len(s) |-> IF n = 0 THEN << >> ELSE IF s[n] \in S THEN Append(f[n - 1], s[n]) ELSE f[n - 1]]

LEMMA IsAmongAt ==
    ASSUME NEW f, NEW s, NEW S, IsAmong(f, s, S), NEW n \in 0..Len(s)
    PROVE  f[n] = IF n = 0 THEN << >>
                  ELSE IF s[n] \in S THEN Append(f[n - 1], s[n]) ELSE f[n - 1]
BY DEF IsAmong

LEMMA AmongExistsIn ==
    ASSUME NEW T, NEW s \in Seq(T), NEW S
    PROVE  \E f : IsAmong(f, s, S)
<1> DEFINE P == {r \in Seq(T) : \E f : IsAmong(f, r, S)}
<1>1. << >> \in P
  <2>1. IsAmong([n \in 0..0 |-> << >>], << >>, S)
    BY EmptySeq DEF IsAmong
  <2>2. QED
    BY <2>1, EmptySeq
<1>2. ASSUME NEW r \in Seq(T), NEW e \in T, r \in P
      PROVE  Append(r, e) \in P
  <2>1. PICK f : IsAmong(f, r, S)
    BY <1>2
  <2>2. PICK t, k : t = Append(r, e) /\ k = Len(r)
    OBVIOUS
  <2>3. /\ k \in Nat /\ t \in Seq(T) /\ Len(t) = k + 1
        /\ \A i \in 1..k : t[i] = r[i]
        /\ t[k + 1] = e
    BY <2>2, AppendProperties, LenProperties
  <2> DEFINE g == [n \in 0..(k + 1) |-> IF n = k + 1 THEN IF e \in S THEN Append(f[k], e) ELSE f[k] ELSE f[n]]
  <2>4. ASSUME NEW n \in 0..(k + 1)
        PROVE  g[n] = IF n = 0 THEN << >> ELSE IF t[n] \in S THEN Append(g[n - 1], t[n]) ELSE g[n - 1]
    <3>1. CASE n = k + 1
      <4>1. k \in 0..(k + 1) /\ n # 0 /\ n - 1 = k /\ k # k + 1
        BY <2>3, <3>1
      <4>2. g[k] = f[k] /\ g[n] = IF e \in S THEN Append(f[k], e) ELSE f[k]
        BY <3>1, <4>1
      <4>3. QED
        BY <2>3, <3>1, <4>1, <4>2
    <3>2. CASE n # k + 1
      <4>1. n \in 0..k /\ (n # 0 => n - 1 \in 0..(k + 1) /\ n - 1 # k + 1 /\ t[n] = r[n])
        BY <2>3, <3>2
      <4>2. g[n] = f[n] /\ (n # 0 => g[n - 1] = f[n - 1])
        BY <3>2, <4>1
      <4>3. f[n] = IF n = 0 THEN << >> ELSE IF r[n] \in S THEN Append(f[n - 1], r[n]) ELSE f[n - 1]
        BY <2>1, <2>2, <4>1 DEF IsAmong
      <4>4. QED
        BY <4>1, <4>2, <4>3
    <3>3. QED
      BY <3>1, <3>2
  <2>5. g = [n \in 0..(k + 1) |-> g[n]]
    OBVIOUS
  <2> HIDE DEF g
  <2>6. IsAmong(g, t, S)
    BY <2>3, <2>4, <2>5 DEF IsAmong
  <2>7. QED
    BY <2>2, <2>3, <2>6
<1> HIDE DEF P
<1>3. Seq(T) \subseteq P
  BY <1>1, <1>2, SeqSetInduction
<1>4. QED
  BY <1>3 DEF P

LEMMA AmongIsIn ==
    ASSUME NEW T, NEW s \in Seq(T), NEW S
    PROVE  \E f : IsAmong(f, s, S) /\ Among(s, S) = f[Len(s)]
<1> DEFINE f == CHOOSE f : IsAmong(f, s, S)
<1>1. IsAmong(f, s, S)
  BY AmongExistsIn
<1>2. Among(s, S) = f[Len(s)]
  BY DEF Among, IsAmong
<1> HIDE DEF f
<1>3. QED
  BY <1>1, <1>2

LEMMA AmongEmpty ==
    ASSUME NEW S
    PROVE  Among(<< >>, S) = << >>
<1>0. << >> \in Seq(Block)
  BY EmptySeq
<1>1. PICK f : IsAmong(f, << >>, S) /\ Among(<< >>, S) = f[Len(<< >>)]
  BY <1>0, AmongIsIn
<1>2. Len(<< >>) = 0
  BY EmptySeq
<1>3. QED
  BY <1>1, <1>2 DEF IsAmong

LEMMA AmongAppendIn ==
    ASSUME NEW T, NEW s \in Seq(T), NEW e \in T, NEW S
    PROVE  Among(Append(s, e), S) = IF e \in S THEN Append(Among(s, S), e) ELSE Among(s, S)
<1>1. PICK t, k : t = Append(s, e) /\ k = Len(s)
  OBVIOUS
<1>2. /\ k \in Nat /\ t \in Seq(T) /\ Len(t) = k + 1
      /\ \A i \in 1..k : t[i] = s[i]
      /\ t[k + 1] = e
  BY <1>1, AppendProperties, LenProperties
<1>3. PICK f : IsAmong(f, s, S) /\ Among(s, S) = f[k]
  BY <1>1, AmongIsIn
<1>4. PICK g : IsAmong(g, t, S) /\ Among(t, S) = g[k + 1]
  BY <1>2, AmongIsIn
<1>5. g[k + 1] = IF e \in S THEN Append(g[k], e) ELSE g[k]
  <2>1. k + 1 \in 0..Len(t) /\ k + 1 # 0 /\ k + 1 - 1 = k
    BY <1>2
  <2>2. QED
    BY <1>2, <1>4, <2>1, IsAmongAt
<1> DEFINE same == {n \in Nat : n <= k => f[n] = g[n]}
<1>6. 0 \in same
  BY <1>1, <1>2, <1>3, <1>4 DEF IsAmong
<1>7. ASSUME NEW n \in Nat, n \in same
      PROVE  n + 1 \in same
  <2>1. CASE n + 1 <= k
    <3>1. n + 1 \in 0..k /\ n + 1 \in 0..(k + 1) /\ n + 1 # 0 /\ n + 1 - 1 = n /\ n <= k
          /\ t[n + 1] = s[n + 1]
      BY <1>2, <2>1
    <3>2. f[n] = g[n]
      BY <1>7, <3>1
    <3>3. f[n + 1] = IF s[n + 1] \in S THEN Append(f[n], s[n + 1]) ELSE f[n]
      BY <1>1, <1>3, <3>1, IsAmongAt
    <3>4. g[n + 1] = IF t[n + 1] \in S THEN Append(g[n], t[n + 1]) ELSE g[n]
      BY <1>2, <1>4, <3>1, IsAmongAt
    <3>5. QED
      BY <3>1, <3>2, <3>3, <3>4
  <2>2. CASE ~(n + 1 <= k)
    BY <2>2
  <2>3. QED
    BY <2>1, <2>2
<1> HIDE DEF same
<1>8. Nat \subseteq same
  BY <1>6, <1>7, NatSetInduction
<1>9. f[k] = g[k]
  BY <1>2, <1>8 DEF same
<1>10. QED
  BY <1>1, <1>3, <1>4, <1>5, <1>9

LEMMA AmongAppend ==
    ASSUME NEW s \in Seq(Block), NEW e \in Block, NEW S
    PROVE  Among(Append(s, e), S) = IF e \in S THEN Append(Among(s, S), e) ELSE Among(s, S)
BY AmongAppendIn

AreSegments(f, s) ==
    f = [n \in 0..Len(s) |-> IF n = 0 THEN << >> ELSE LoadFixSize(f[n - 1], s[n])]

LEMMA SegmentsExists ==
    ASSUME NEW s \in Seq(Block)
    PROVE  \E f : AreSegments(f, s)
<1> DEFINE P == {r \in Seq(Block) : \E f : AreSegments(f, r)}
<1>1. << >> \in P
  <2>1. AreSegments([n \in 0..0 |-> << >>], << >>)
    BY EmptySeq DEF AreSegments
  <2>2. QED
    BY <2>1, EmptySeq
<1>2. ASSUME NEW r \in Seq(Block), NEW e \in Block, r \in P
      PROVE  Append(r, e) \in P
  <2>1. PICK f : AreSegments(f, r)
    BY <1>2
  <2>2. PICK t, k : t = Append(r, e) /\ k = Len(r)
    OBVIOUS
  <2>3. /\ k \in Nat /\ t \in Seq(Block) /\ Len(t) = k + 1
        /\ \A i \in 1..k : t[i] = r[i]
        /\ t[k + 1] = e
    BY <2>2, AppendProperties, LenProperties
  <2> DEFINE g == [n \in 0..(k + 1) |-> IF n = k + 1 THEN LoadFixSize(f[k], e) ELSE f[n]]
  <2>4. ASSUME NEW n \in 0..(k + 1)
        PROVE  g[n] = IF n = 0 THEN << >> ELSE LoadFixSize(g[n - 1], t[n])
    <3>1. CASE n = k + 1
      <4>1. k \in 0..(k + 1) /\ n # 0 /\ n - 1 = k /\ k # k + 1
        BY <2>3, <3>1
      <4>2. g[k] = f[k] /\ g[n] = LoadFixSize(f[k], e)
        BY <3>1, <4>1
      <4>3. QED
        BY <2>3, <3>1, <4>1, <4>2
    <3>2. CASE n # k + 1
      <4>1. n \in 0..k /\ (n # 0 => n - 1 \in 0..(k + 1) /\ n - 1 # k + 1 /\ t[n] = r[n])
        BY <2>3, <3>2
      <4>2. g[n] = f[n] /\ (n # 0 => g[n - 1] = f[n - 1])
        BY <3>2, <4>1
      <4>3. f[n] = IF n = 0 THEN << >> ELSE LoadFixSize(f[n - 1], r[n])
        BY <2>1, <2>2, <4>1 DEF AreSegments
      <4>4. QED
        BY <4>1, <4>2, <4>3
    <3>3. QED
      BY <3>1, <3>2
  <2>5. g = [n \in 0..(k + 1) |-> g[n]]
    OBVIOUS
  <2> HIDE DEF g
  <2>6. AreSegments(g, t)
    BY <2>3, <2>4, <2>5 DEF AreSegments
  <2>7. QED
    BY <2>2, <2>3, <2>6
<1> HIDE DEF P
<1>3. Seq(Block) \subseteq P
  BY <1>1, <1>2, SeqSetInduction
<1>4. QED
  BY <1>3 DEF P

LEMMA SegmentsIs ==
    ASSUME NEW s \in Seq(Block)
    PROVE  \E f : AreSegments(f, s) /\ Segments(s) = f[Len(s)]
<1> DEFINE f == CHOOSE f : AreSegments(f, s)
<1>1. AreSegments(f, s)
  BY SegmentsExists
<1>2. Segments(s) = f[Len(s)]
  BY DEF Segments, AreSegments
<1> HIDE DEF f
<1>3. QED
  BY <1>1, <1>2

LEMMA SegmentsEmpty ==
    Segments(<< >>) = << >>
<1>1. PICK f : AreSegments(f, << >>) /\ Segments(<< >>) = f[Len(<< >>)]
  BY EmptySeq, SegmentsIs
<1>2. Len(<< >>) = 0
  BY EmptySeq
<1>3. QED
  BY <1>1, <1>2 DEF AreSegments

LEMMA SegmentsAppend ==
    ASSUME NEW s \in Seq(Block), NEW e \in Block
    PROVE  Segments(Append(s, e)) = LoadFixSize(Segments(s), e)
<1>1. PICK t, k : t = Append(s, e) /\ k = Len(s)
  OBVIOUS
<1>2. /\ k \in Nat /\ t \in Seq(Block) /\ Len(t) = k + 1
      /\ \A i \in 1..k : t[i] = s[i]
      /\ t[k + 1] = e
  BY <1>1, AppendProperties, LenProperties
<1>3. PICK f : AreSegments(f, s) /\ Segments(s) = f[k]
  BY <1>1, SegmentsIs
<1>4. PICK g : AreSegments(g, t) /\ Segments(t) = g[k + 1]
  BY <1>2, SegmentsIs
<1>5. g[k + 1] = LoadFixSize(g[k], e)
  BY <1>2, <1>4 DEF AreSegments
<1> DEFINE S == {n \in Nat : n <= k => f[n] = g[n]}
<1>6. 0 \in S
  BY <1>1, <1>2, <1>3, <1>4 DEF AreSegments
<1>7. ASSUME NEW n \in Nat, n \in S
      PROVE  n + 1 \in S
  <2>1. CASE n + 1 <= k
    <3>1. n + 1 \in 0..k /\ n + 1 \in 0..(k + 1) /\ n + 1 # 0 /\ n + 1 - 1 = n /\ n <= k
          /\ t[n + 1] = s[n + 1]
      BY <1>2, <2>1
    <3>2. f[n] = g[n]
      BY <1>7, <3>1
    <3>3. f[n + 1] = LoadFixSize(f[n], s[n + 1])
      BY <1>1, <1>3, <3>1 DEF AreSegments
    <3>4. g[n + 1] = LoadFixSize(g[n], t[n + 1])
      BY <1>2, <1>4, <3>1 DEF AreSegments
    <3>5. QED
      BY <3>1, <3>2, <3>3, <3>4
  <2>2. CASE ~(n + 1 <= k)
    BY <2>2
  <2>3. QED
    BY <2>1, <2>2
<1> HIDE DEF S
<1>8. Nat \subseteq S
  BY <1>6, <1>7, NatSetInduction
<1>9. f[k] = g[k]
  BY <1>2, <1>8 DEF S
<1>10. QED
  BY <1>1, <1>3, <1>4, <1>5, <1>9

-----------------------------------------------------------------------------
(* Sequences of blocks. *)

LEMMA RangeAppend ==
    ASSUME NEW T, NEW s \in Seq(T), NEW e \in T
    PROVE  Range(Append(s, e)) = Range(s) \cup {e}
<1>1. PICK t, k : t = Append(s, e) /\ k = Len(s)
  OBVIOUS
<1>2. /\ k \in Nat /\ DOMAIN s = 1..k /\ DOMAIN t = 1..(k + 1)
      /\ \A i \in 1..k : t[i] = s[i]
      /\ t[k + 1] = e
  BY <1>1, AppendProperties, LenProperties
<1>3. 1..(k + 1) = (1..k) \cup {k + 1}
  BY <1>2
<1>4. QED
  BY <1>1, <1>2, <1>3 DEF Range

LEMMA ConcatAppend ==
    ASSUME NEW T, NEW s \in Seq(T), NEW t \in Seq(T), NEW e \in T
    PROVE  s \o Append(t, e) = Append(s \o t, e)
<1>1. <<e>> \in Seq(T)
  BY EmptySeq, AppendProperties, AppendIsConcat
<1>2. Append(t, e) = t \o <<e>> /\ Append(s \o t, e) = (s \o t) \o <<e>>
  BY AppendIsConcat, ConcatProperties
<1>3. QED
  BY <1>1, <1>2, ConcatAssociative

LEMMA BytesType ==
    ASSUME NEW s \in Seq(Block)
    PROVE  BytesOf(s) \in Nat
<1> DEFINE P == {r \in Seq(Block) : BytesOf(r) \in Nat}
<1>1. << >> \in P
  BY BytesOfEmpty, EmptySeq
<1>2. \A r \in Seq(Block) : \A e \in Block : r \in P => Append(r, e) \in P
  BY BytesOfAppend, AppendProperties, TraceAssumption
<1> HIDE DEF P
<1>3. Seq(Block) \subseteq P
  BY <1>1, <1>2, SeqSetInduction
<1>4. QED
  BY <1>3 DEF P

LEMMA AmongTypeIn ==
    ASSUME NEW T, NEW s \in Seq(T), NEW S
    PROVE  Among(s, S) \in Seq(T) /\ Range(Among(s, S)) = Range(s) \cap S
<1> DEFINE P == {r \in Seq(T) :
                    Among(r, S) \in Seq(T) /\ Range(Among(r, S)) = Range(r) \cap S}
<1>1. << >> \in P
  <2>1. Range(<< >>) = {}
    BY DEF Range
  <2>2. QED
    BY <2>1, AmongEmpty, EmptySeq
<1>2. ASSUME NEW r \in Seq(T), NEW e \in T, r \in P
      PROVE  Append(r, e) \in P
  <2>1. Range(Append(r, e)) = Range(r) \cup {e}
    BY RangeAppend
  <2>2. CASE e \in S
    <3>1. Among(Append(r, e), S) = Append(Among(r, S), e)
      BY <2>2, AmongAppendIn
    <3>2. Range(Append(Among(r, S), e)) = Range(Among(r, S)) \cup {e}
      BY <1>2, RangeAppend
    <3>3. Append(Among(r, S), e) \in Seq(T) /\ Append(r, e) \in Seq(T)
      BY <1>2, AppendProperties
    <3>4. Range(Among(r, S)) = Range(r) \cap S
      BY <1>2
    <3>5. Range(Append(Among(r, S), e)) = Range(Append(r, e)) \cap S
      BY <2>1, <2>2, <3>2, <3>4
    <3>6. QED
      BY <3>1, <3>3, <3>5
  <2>3. CASE e \notin S
    <3>1. Among(Append(r, e), S) = Among(r, S)
      BY <2>3, AmongAppendIn
    <3>2. QED
      BY <1>2, <2>1, <2>3, <3>1, AppendProperties
  <2>4. QED
    BY <2>2, <2>3
<1> HIDE DEF P
<1>3. Seq(T) \subseteq P
  BY <1>1, <1>2, SeqSetInduction
<1>4. QED
  BY <1>3 DEF P

LEMMA AmongType ==
    ASSUME NEW s \in Seq(Block), NEW S
    PROVE  Among(s, S) \in Seq(Block) /\ Range(Among(s, S)) = Range(s) \cap S
BY AmongTypeIn

LEMMA BytesConcat ==
    ASSUME NEW s \in Seq(Block), NEW t \in Seq(Block)
    PROVE  BytesOf(s \o t) = BytesOf(s) + BytesOf(t)
<1> DEFINE P == {r \in Seq(Block) : BytesOf(s \o r) = BytesOf(s) + BytesOf(r)}
<1>1. << >> \in P
  BY BytesOfEmpty, BytesType, EmptySeq, ConcatEmptySeq
<1>2. ASSUME NEW r \in Seq(Block), NEW e \in Block, r \in P
      PROVE  Append(r, e) \in P
  <2>0. s \o Append(r, e) = Append(s \o r, e) /\ s \o r \in Seq(Block)
    BY ConcatAppend, ConcatProperties
  <2>1. /\ BytesOf(s \o Append(r, e)) = BytesOf(s \o r) + Size[e]
        /\ BytesOf(Append(r, e)) = BytesOf(r) + Size[e]
    BY <2>0, BytesOfAppend
  <2>2. Size[e] \in Nat /\ BytesOf(s) \in Nat /\ BytesOf(r) \in Nat
    BY BytesType, TraceAssumption
  <2>3. BytesOf(s \o r) = BytesOf(s) + BytesOf(r) /\ Append(r, e) \in Seq(Block)
    BY <1>2, AppendProperties
  <2>4. QED
    BY <2>1, <2>2, <2>3
<1> HIDE DEF P
<1>3. Seq(Block) \subseteq P
  BY <1>1, <1>2, SeqSetInduction
<1>4. QED
  BY <1>3 DEF P

LEMMA AmongConcat ==
    ASSUME NEW s \in Seq(Block), NEW t \in Seq(Block), NEW S
    PROVE  Among(s \o t, S) = Among(s, S) \o Among(t, S)
<1> DEFINE P == {r \in Seq(Block) : Among(s \o r, S) = Among(s, S) \o Among(r, S)}
<1>1. << >> \in P
  BY AmongEmpty, AmongType, EmptySeq, ConcatEmptySeq
<1>2. ASSUME NEW r \in Seq(Block), NEW e \in Block, r \in P
      PROVE  Append(r, e) \in P
  <2>1. /\ s \o r \in Seq(Block) /\ s \o Append(r, e) = Append(s \o r, e)
        /\ Append(r, e) \in Seq(Block)
        /\ Among(s, S) \in Seq(Block) /\ Among(r, S) \in Seq(Block)
        /\ Among(s \o r, S) = Among(s, S) \o Among(r, S)
    BY <1>2, ConcatAppend, ConcatProperties, AppendProperties, AmongType
  <2>2. CASE e \in S
    <3>1. Among(s \o Append(r, e), S) = Append(Among(s \o r, S), e)
      BY <2>1, <2>2, AmongAppend
    <3>2. Among(Append(r, e), S) = Append(Among(r, S), e)
      BY <2>2, AmongAppend
    <3>3. Among(s, S) \o Append(Among(r, S), e) = Append(Among(s, S) \o Among(r, S), e)
      BY <2>1, ConcatAppend
    <3>4. QED
      BY <2>1, <3>1, <3>2, <3>3
  <2>3. CASE e \notin S
    <3>0. \A u \in Seq(Block) : Among(Append(u, e), S) = Among(u, S)
      BY <2>3, AmongAppend
    <3>1. Among(s \o Append(r, e), S) = Among(s \o r, S)
      BY <2>1, <3>0
    <3>2. Among(Append(r, e), S) = Among(r, S)
      BY <2>3, AmongAppend
    <3>3. QED
      BY <2>1, <3>1, <3>2
  <2>4. QED
    BY <2>2, <2>3
<1> HIDE DEF P
<1>3. Seq(Block) \subseteq P
  BY <1>1, <1>2, SeqSetInduction
<1>4. QED
  BY <1>3 DEF P

LEMMA AmongAmong ==
    ASSUME NEW s \in Seq(Block), NEW A, NEW B
    PROVE  Among(Among(s, A), B) = Among(s, A \cap B)
<1> DEFINE P == {r \in Seq(Block) : Among(Among(r, A), B) = Among(r, A \cap B)}
<1>1. << >> \in P
  BY AmongEmpty, EmptySeq
<1>2. ASSUME NEW r \in Seq(Block), NEW e \in Block, r \in P
      PROVE  Append(r, e) \in P
  <2>1. Among(r, A) \in Seq(Block) /\ Append(r, e) \in Seq(Block)
    BY AmongType, AppendProperties
  <2>2. Among(Append(r, e), A) = IF e \in A THEN Append(Among(r, A), e) ELSE Among(r, A)
    BY AmongAppend
  <2>3. Among(Append(r, e), A \cap B)
        = IF e \in A \cap B THEN Append(Among(r, A \cap B), e) ELSE Among(r, A \cap B)
    BY AmongAppend
  <2>4. Among(Append(Among(r, A), e), B)
        = IF e \in B THEN Append(Among(Among(r, A), B), e) ELSE Among(Among(r, A), B)
    BY <2>1, AmongAppend
  <2>5. Among(Among(r, A), B) = Among(r, A \cap B)
    BY <1>2
  <2>6. Among(Among(Append(r, e), A), B) = Among(Append(r, e), A \cap B)
    <3>1. CASE e \in A /\ e \in B
      BY <2>2, <2>3, <2>4, <2>5, <3>1
    <3>2. CASE e \in A /\ e \notin B
      BY <2>2, <2>3, <2>4, <2>5, <3>2
    <3>3. CASE e \notin A
      BY <2>2, <2>3, <2>5, <3>3
    <3>4. QED
      BY <3>1, <3>2, <3>3
  <2>7. QED
    BY <2>1, <2>6
<1> HIDE DEF P
<1>3. Seq(Block) \subseteq P
  BY <1>1, <1>2, SeqSetInduction
<1>4. QED
  BY <1>3 DEF P

(* Which of the blocks of a sequence are in a set is all that Among sees of it. *)
LEMMA AmongSameIn ==
    ASSUME NEW T, NEW s \in Seq(T), NEW A, NEW B, Range(s) \cap A = Range(s) \cap B
    PROVE  Among(s, A) = Among(s, B)
<1> DEFINE P == {r \in Seq(T) : Range(r) \cap A = Range(r) \cap B => Among(r, A) = Among(r, B)}
<1>1. << >> \in P
  BY AmongEmpty, EmptySeq
<1>2. ASSUME NEW r \in Seq(T), NEW e \in T, r \in P
      PROVE  Append(r, e) \in P
  <2>1. Range(Append(r, e)) = Range(r) \cup {e} /\ Append(r, e) \in Seq(T)
    BY RangeAppend, AppendProperties
  <2>2. Among(Append(r, e), A) = IF e \in A THEN Append(Among(r, A), e) ELSE Among(r, A)
    BY AmongAppendIn
  <2>3. Among(Append(r, e), B) = IF e \in B THEN Append(Among(r, B), e) ELSE Among(r, B)
    BY AmongAppendIn
  <2>4. ASSUME Range(Append(r, e)) \cap A = Range(Append(r, e)) \cap B
        PROVE  Among(Append(r, e), A) = Among(Append(r, e), B)
    <3>1. (e \in A <=> e \in B) /\ Range(r) \cap A = Range(r) \cap B
      BY <2>1, <2>4
    <3>2. QED
      BY <1>2, <2>2, <2>3, <3>1
  <2>5. QED
    BY <2>1, <2>4
<1> HIDE DEF P
<1>3. Seq(T) \subseteq P
  BY <1>1, <1>2, SeqSetInduction
<1>4. QED
  BY <1>3 DEF P

LEMMA AmongSame ==
    ASSUME NEW s \in Seq(Block), NEW A, NEW B, Range(s) \cap A = Range(s) \cap B
    PROVE  Among(s, A) = Among(s, B)
BY AmongSameIn

LEMMA AmongAll ==
    ASSUME NEW s \in Seq(Block)
    PROVE  Among(s, Block) = s
<1> DEFINE P == {r \in Seq(Block) : Among(r, Block) = r}
<1>1. << >> \in P
  BY AmongEmpty, EmptySeq
<1>2. \A r \in Seq(Block) : \A e \in Block : r \in P => Append(r, e) \in P
  BY AmongAppend, AppendProperties
<1> HIDE DEF P
<1>3. Seq(Block) \subseteq P
  BY <1>1, <1>2, SeqSetInduction
<1>4. QED
  BY <1>3 DEF P

LEMMA AmongNone ==
    ASSUME NEW s \in Seq(Block)
    PROVE  Among(s, {}) = << >>
<1> DEFINE P == {r \in Seq(Block) : Among(r, {}) = << >>}
<1>1. << >> \in P
  BY AmongEmpty, EmptySeq
<1>2. \A r \in Seq(Block) : \A e \in Block : r \in P => Append(r, e) \in P
  BY AmongAppend, AppendProperties
<1> HIDE DEF P
<1>3. Seq(Block) \subseteq P
  BY <1>1, <1>2, SeqSetInduction
<1>4. QED
  BY <1>3 DEF P

LEMMA AmongFewer ==
    ASSUME NEW s \in Seq(Block), NEW A, NEW B, A \subseteq B
    PROVE  BytesOf(Among(s, A)) <= BytesOf(Among(s, B))
<1> DEFINE P == {r \in Seq(Block) : BytesOf(Among(r, A)) <= BytesOf(Among(r, B))}
<1>1. << >> \in P
  BY AmongEmpty, BytesOfEmpty, EmptySeq
<1>2. ASSUME NEW r \in Seq(Block), NEW e \in Block, r \in P
      PROVE  Append(r, e) \in P
  <2>1. /\ Append(r, e) \in Seq(Block) /\ Size[e] \in Nat
        /\ Among(r, A) \in Seq(Block) /\ Among(r, B) \in Seq(Block)
        /\ BytesOf(Among(r, A)) \in Nat /\ BytesOf(Among(r, B)) \in Nat
    BY AppendProperties, AmongType, BytesType, TraceAssumption
  <2>2. BytesOf(Append(Among(r, A), e)) = BytesOf(Among(r, A)) + Size[e]
    BY <2>1, BytesOfAppend
  <2>3. BytesOf(Append(Among(r, B), e)) = BytesOf(Among(r, B)) + Size[e]
    BY <2>1, BytesOfAppend
  <2>4. Among(Append(r, e), A) = IF e \in A THEN Append(Among(r, A), e) ELSE Among(r, A)
    BY AmongAppend
  <2>5. Among(Append(r, e), B) = IF e \in B THEN Append(Among(r, B), e) ELSE Among(r, B)
    BY AmongAppend
  <2>6. BytesOf(Among(r, A)) <= BytesOf(Among(r, B))
    BY <1>2
  <2>7. BytesOf(Among(Append(r, e), A)) <= BytesOf(Among(Append(r, e), B))
    <3>1. CASE e \in A
      BY <2>1, <2>2, <2>3, <2>4, <2>5, <2>6, <3>1
    <3>2. CASE e \notin A /\ e \in B
      BY <2>1, <2>3, <2>4, <2>5, <2>6, <3>2
    <3>3. CASE e \notin B
      BY <2>1, <2>4, <2>5, <2>6, <3>3
    <3>4. QED
      BY <3>1, <3>2, <3>3
  <2>8. QED
    BY <2>1, <2>7
<1> HIDE DEF P
<1>3. Seq(Block) \subseteq P
  BY <1>1, <1>2, SeqSetInduction
<1>4. QED
  BY <1>3 DEF P

LEMMA AmongSplit ==
    ASSUME NEW s \in Seq(Block), NEW A, NEW B, A \cap B = {}
    PROVE  Len(Among(s, A \cup B)) = Len(Among(s, A)) + Len(Among(s, B))
<1> DEFINE C == A \cup B
           P == {r \in Seq(Block) : Len(Among(r, C)) = Len(Among(r, A)) + Len(Among(r, B))}
<1>1. << >> \in P
  BY AmongEmpty, EmptySeq
<1>2. ASSUME NEW r \in Seq(Block), NEW e \in Block, r \in P
      PROVE  Append(r, e) \in P
  <2>0. /\ Append(r, e) \in Seq(Block)
        /\ Among(r, A) \in Seq(Block) /\ Among(r, B) \in Seq(Block) /\ Among(r, C) \in Seq(Block)
    BY AppendProperties, AmongType
  <2>1. PICK a, b, c : a = Among(r, A) /\ b = Among(r, B) /\ c = Among(r, C)
    OBVIOUS
  <2>2. /\ Len(a) \in Nat /\ Len(b) \in Nat /\ Len(c) \in Nat
        /\ Len(Append(a, e)) = Len(a) + 1 /\ Len(Append(b, e)) = Len(b) + 1
        /\ Len(Append(c, e)) = Len(c) + 1
    BY <2>0, <2>1, AppendProperties, LenProperties
  <2>3. /\ Among(Append(r, e), A) = IF e \in A THEN Append(a, e) ELSE a
        /\ Among(Append(r, e), B) = IF e \in B THEN Append(b, e) ELSE b
        /\ Among(Append(r, e), C) = IF e \in C THEN Append(c, e) ELSE c
    BY <2>1, AmongAppend
  <2>4. Len(c) = Len(a) + Len(b)
    BY <1>2, <2>1
  <2>5. e \in C <=> e \in A \/ e \in B
    OBVIOUS
  <2>6. ~(e \in A /\ e \in B)
    OBVIOUS
  <2> HIDE DEF C
  <2>7. Len(Among(Append(r, e), C))
        = Len(Among(Append(r, e), A)) + Len(Among(Append(r, e), B))
    <3>1. CASE e \in A
      <4>1. e \in C /\ e \notin B
        BY <2>5, <2>6, <3>1
      <4>2. QED
        BY <2>2, <2>3, <2>4, <3>1, <4>1
    <3>2. CASE e \in B
      <4>1. e \in C /\ e \notin A
        BY <2>5, <2>6, <3>2
      <4>2. QED
        BY <2>2, <2>3, <2>4, <3>2, <4>1
    <3>3. CASE e \notin A /\ e \notin B
      BY <2>2, <2>3, <2>4, <2>5, <3>3
    <3>4. QED
      BY <3>1, <3>2, <3>3
  <2>8. QED
    BY <2>0, <2>7
<1> HIDE DEF P
<1>3. Seq(Block) \subseteq P
  BY <1>1, <1>2, SeqSetInduction
<1>4. QED
  BY <1>3 DEF P


-----------------------------------------------------------------------------
(* FlattenSeq. *)

IsFlat(f, seqs, n) ==
    f = [i \in 1..n |-> IF i = 1 THEN seqs[i] ELSE f[i - 1] \o seqs[i]]

LEMMA FlatAt ==
    ASSUME NEW f, NEW seqs, NEW n, IsFlat(f, seqs, n), NEW i \in 1..n
    PROVE  f[i] = IF i = 1 THEN seqs[i] ELSE f[i - 1] \o seqs[i]
BY DEF IsFlat

LEMMA FlatExists ==
    ASSUME NEW seqs
    PROVE  \A n \in Nat \ {0} : \E f : IsFlat(f, seqs, n)
<1> DEFINE S == {n \in Nat \ {0} : ~\E f : IsFlat(f, seqs, n)}
<1> SUFFICES ASSUME S # {}
             PROVE  FALSE
  OBVIOUS
<1>1. PICK n \in S : \A m \in S : n <= m
  BY LeastNat
<1>2. CASE n = 1
  <2>1. IsFlat([i \in 1..1 |-> seqs[i]], seqs, 1)
    BY DEF IsFlat
  <2>2. QED
    BY <1>2, <2>1
<1>3. CASE n # 1
  <2>1. n \in Nat /\ n - 1 \in Nat \ {0} /\ n - 1 \notin S
    BY <1>1, <1>3
  <2>2. PICK f : IsFlat(f, seqs, n - 1)
    BY <2>1
  <2> DEFINE g == [i \in 1..n |-> IF i = n THEN f[n - 1] \o seqs[n] ELSE f[i]]
  <2>3. \A i \in 1..(n - 1) : g[i] = f[i]
    BY <2>1
  <2>4. ASSUME NEW i \in 1..n
        PROVE  g[i] = IF i = 1 THEN seqs[i] ELSE g[i - 1] \o seqs[i]
    <3>1. CASE i = n
      <4>1. n - 1 \in 1..(n - 1) /\ n \in 1..n
        BY <2>1
      <4>2. g[n] = f[n - 1] \o seqs[n]
        BY <4>1
      <4>3. g[n - 1] = f[n - 1]
        BY <2>3, <4>1
      <4>4. QED
        BY <1>3, <3>1, <4>2, <4>3
    <3>2. CASE i # n
      <4>1. i \in 1..(n - 1)
        BY <2>1, <3>2
      <4>2. f[i] = IF i = 1 THEN seqs[i] ELSE f[i - 1] \o seqs[i]
        BY <2>2, <4>1 DEF IsFlat
      <4>3. i # 1 => i - 1 \in 1..(n - 1)
        BY <4>1
      <4>4. QED
        BY <2>3, <4>1, <4>2, <4>3
    <3>3. QED
      BY <3>1, <3>2
  <2> HIDE DEF g
  <2>5. g = [i \in 1..n |-> g[i]]
    BY DEF g
  <2>6. IsFlat(g, seqs, n)
    BY <2>4, <2>5 DEF IsFlat
  <2>7. QED
    BY <2>6
<1>4. QED
  BY <1>2, <1>3

Agree(f, g, n) == \A i \in 1..n : f[i] = g[i]

(* What a flattening gives up to some length does not depend on what is behind. *)
LEMMA FlatAgrees ==
    ASSUME NEW sa, NEW sb, NEW m \in Nat, NEW k \in Nat, NEW fa, NEW fb,
           IsFlat(fa, sa, m), IsFlat(fb, sb, k), m <= k, Agree(sa, sb, m)
    PROVE  Agree(fa, fb, m)
<1> DEFINE S == {i \in 1..m : fa[i] # fb[i]}
<1> SUFFICES ASSUME S # {}
             PROVE  FALSE
  BY DEF Agree
<1>0. S \in SUBSET Nat
  OBVIOUS
<1>1. PICK i \in S : \A j \in S : i <= j
  BY <1>0, LeastNat
<1>2. i \in 1..m /\ i \in 1..k /\ fa[i] # fb[i]
  BY <1>1
<1>3. /\ fa[i] = IF i = 1 THEN sa[i] ELSE fa[i - 1] \o sa[i]
      /\ fb[i] = IF i = 1 THEN sb[i] ELSE fb[i - 1] \o sb[i]
  BY <1>2, FlatAt
<1>4. i # 1 => i - 1 \in 1..m /\ i - 1 \notin S
  BY <1>1, <1>2
<1>5. i # 1 => fa[i - 1] = fb[i - 1]
  BY <1>4
<1>6. QED
  BY <1>2, <1>3, <1>5 DEF Agree

LEMMA FlatType ==
    ASSUME NEW R, NEW seqs \in Seq(Seq(R)), NEW f, IsFlat(f, seqs, Len(seqs))
    PROVE  \A i \in 1..Len(seqs) : f[i] \in Seq(R)
<1> DEFINE S == {i \in 1..Len(seqs) : f[i] \notin Seq(R)}
<1> SUFFICES ASSUME S # {}
             PROVE  FALSE
  OBVIOUS
<1>0. Len(seqs) \in Nat /\ S \in SUBSET Nat
  BY LenProperties
<1>1. PICK i \in S : \A k \in S : i <= k
  BY <1>0, LeastNat
<1>2. i \in 1..Len(seqs) /\ seqs[i] \in Seq(R)
  BY <1>1, ElementOfSeq
<1>3. f[i] = IF i = 1 THEN seqs[i] ELSE f[i - 1] \o seqs[i]
  BY <1>2, FlatAt
<1>4. i # 1 => i - 1 \in 1..Len(seqs) /\ i - 1 \notin S
  BY <1>0, <1>1, <1>2
<1>5. i # 1 => f[i - 1] \in Seq(R)
  BY <1>4
<1>6. i # 1 => f[i - 1] \o seqs[i] \in Seq(R)
  BY <1>2, <1>5, ConcatProperties
<1>7. QED
  BY <1>1, <1>2, <1>3, <1>6

LEMMA FlattenSeqIs ==
    ASSUME NEW R, NEW seqs \in Seq(R), seqs # << >>
    PROVE  \E f : IsFlat(f, seqs, Len(seqs)) /\ FlattenSeq(seqs) = f[Len(seqs)]
<1> DEFINE f == CHOOSE f : IsFlat(f, seqs, Len(seqs))
<1>1. Len(seqs) \in Nat \ {0}
  BY EmptySeq
<1>2. IsFlat(f, seqs, Len(seqs))
  BY <1>1, FlatExists
<1>3. FlattenSeq(seqs) = f[Len(seqs)]
  BY <1>1 DEF FlattenSeq, IsFlat
<1> HIDE DEF f
<1>4. QED
  BY <1>2, <1>3

LEMMA FlattenEmpty == FlattenSeq(<< >>) = << >>
BY EmptySeq DEF FlattenSeq

LEMMA FlattenType ==
    ASSUME NEW R, NEW seqs \in Seq(Seq(R))
    PROVE  FlattenSeq(seqs) \in Seq(R)
<1>1. CASE seqs = << >>
  BY <1>1, FlattenEmpty, EmptySeq
<1>2. CASE seqs # << >>
  <2>1. PICK f : IsFlat(f, seqs, Len(seqs)) /\ FlattenSeq(seqs) = f[Len(seqs)]
    BY <1>2, FlattenSeqIs
  <2>2. Len(seqs) \in 1..Len(seqs)
    BY <1>2, EmptySeq
  <2>3. QED
    BY <2>1, <2>2, FlatType
<1>3. QED
  BY <1>1, <1>2

LEMMA FlattenAppend ==
    ASSUME NEW R, NEW seqs \in Seq(Seq(R)), NEW s \in Seq(R)
    PROVE  FlattenSeq(Append(seqs, s)) = FlattenSeq(seqs) \o s
<1>0. PICK t, n, k : t = Append(seqs, s) /\ n = Len(seqs) /\ k = Len(seqs) + 1
  OBVIOUS
<1>1. /\ n \in Nat /\ k \in Nat /\ n <= k /\ k = n + 1 /\ k \in 1..k /\ k - 1 = n
      /\ t \in Seq(Seq(R)) /\ t # << >> /\ Len(t) = k
      /\ \A i \in 1..n : seqs[i] = t[i]
      /\ t[k] = s
  <2>1. Len(seqs) \in Nat
    BY LenProperties
  <2>2. /\ t \in Seq(Seq(R)) /\ t # << >> /\ Len(t) = Len(seqs) + 1
        /\ \A i \in 1..Len(seqs) : t[i] = seqs[i]
        /\ t[Len(seqs) + 1] = s
    BY <1>0, AppendProperties
  <2>3. QED
    BY <1>0, <2>1, <2>2
<1>2. PICK g : IsFlat(g, t, k) /\ FlattenSeq(t) = g[k]
  BY <1>1, FlattenSeqIs
<1>3. g[k] = IF k = 1 THEN t[k] ELSE g[k - 1] \o t[k]
  BY <1>1, <1>2, FlatAt
<1>4. CASE seqs = << >>
  <2>1. FlattenSeq(seqs) \o s = s
    BY <1>4, FlattenEmpty, ConcatEmptySeq
  <2>2. k = 1
    BY <1>0, <1>4, EmptySeq
  <2>3. QED
    BY <1>0, <1>1, <1>2, <1>3, <2>1, <2>2
<1>5. CASE seqs # << >>
  <2>1. n \in 1..n /\ k # 1
    BY <1>0, <1>1, <1>5, EmptySeq
  <2>2. PICK f : IsFlat(f, seqs, n) /\ FlattenSeq(seqs) = f[n]
    BY <1>0, <1>5, FlattenSeqIs
  <2>3. Agree(f, g, n)
    <3>1. IsFlat(f, seqs, n) /\ IsFlat(g, t, k)
      BY <1>2, <2>2
    <3>2. Agree(seqs, t, n)
      BY <1>1 DEF Agree
    <3>3. n \in Nat /\ k \in Nat /\ n <= k
      BY <1>1
    <3>4. QED
      BY <3>1, <3>2, <3>3, FlatAgrees
  <2>4. QED
    BY <1>0, <1>1, <1>2, <1>3, <2>1, <2>2, <2>3 DEF Agree
<1>6. QED
  BY <1>4, <1>5

(* Sequences of the same length, taken apart. *)
Apart(t, u, f, r, e) ==
    /\ t = Append(u, f)
    /\ Len(u) = Len(r)
    /\ \A i \in 1..Len(r) : t[i] = u[i] /\ Append(r, e)[i] = r[i]
    /\ t[Len(r) + 1] = f
    /\ Append(r, e)[Len(r) + 1] = e
    /\ 1..Len(Append(r, e)) = (1..Len(r)) \cup {Len(r) + 1}

LEMMA TakenApart ==
    ASSUME NEW T, NEW r \in Seq(T), NEW e \in T, NEW t \in Seq(T), Len(t) = Len(Append(r, e))
    PROVE  \E u \in Seq(T), f \in T : Apart(t, u, f, r, e)
<1>1. PICK k, s : k = Len(r) /\ s = Append(r, e)
  OBVIOUS
<1>2. /\ k \in Nat /\ Len(s) = k + 1 /\ s[k + 1] = e
      /\ \A i \in 1..k : s[i] = r[i]
  BY <1>1, AppendProperties, LenProperties
<1>3. t # << >>
  BY <1>1, <1>2, EmptySeq
<1>4. PICK u \in Seq(T), f \in T : t = Append(u, f)
  BY <1>3, SequenceEmptyOrAppend
<1>5. /\ Len(t) = Len(u) + 1 /\ Len(u) \in Nat /\ t[Len(u) + 1] = f
      /\ \A i \in 1..Len(u) : t[i] = u[i]
  BY <1>4, AppendProperties, LenProperties
<1>6. Len(u) = k
  BY <1>1, <1>2, <1>5
<1>7. 1..(k + 1) = (1..k) \cup {k + 1}
  BY <1>2
<1>8. /\ t = Append(u, f)
      /\ Len(u) = k
      /\ \A i \in 1..k : t[i] = u[i] /\ s[i] = r[i]
      /\ t[k + 1] = f
      /\ s[k + 1] = e
      /\ 1..Len(s) = (1..k) \cup {k + 1}
  BY <1>2, <1>4, <1>5, <1>6, <1>7
<1>9. Apart(t, u, f, r, e)
  BY <1>1, <1>8 DEF Apart
<1>10. QED
  BY <1>9

(* What is in S of a sequence of sequences, from what is in S of each. *)
AmongEach(ss, tt, S) ==
    Len(tt) = Len(ss) /\ \A i \in 1..Len(ss) : tt[i] = Among(ss[i], S)

LEMMA AmongFlatten ==
    ASSUME NEW S, NEW ss \in Seq(Seq(Block)), NEW tt \in Seq(Seq(Block)), AmongEach(ss, tt, S)
    PROVE  FlattenSeq(tt) = Among(FlattenSeq(ss), S)
<1> DEFINE P == {r \in Seq(Seq(Block)) : \A t \in Seq(Seq(Block)) :
                    AmongEach(r, t, S) => FlattenSeq(t) = Among(FlattenSeq(r), S)}
<1>1. << >> \in P
  <2>1. ASSUME NEW t \in Seq(Seq(Block)), AmongEach(<< >>, t, S)
        PROVE  FlattenSeq(t) = Among(FlattenSeq(<< >>), S)
    <3>1. t = << >>
      BY <2>1, EmptySeq DEF AmongEach
    <3>2. QED
      BY <3>1, FlattenEmpty, AmongEmpty
  <2>2. QED
    BY <2>1, EmptySeq
<1>2. ASSUME NEW r \in Seq(Seq(Block)), NEW e \in Seq(Block), r \in P
      PROVE  Append(r, e) \in P
  <2>1. ASSUME NEW t \in Seq(Seq(Block)), AmongEach(Append(r, e), t, S)
        PROVE  FlattenSeq(t) = Among(FlattenSeq(Append(r, e)), S)
    <3>1. Len(t) = Len(Append(r, e))
      BY <2>1 DEF AmongEach
    <3>2. PICK u \in Seq(Seq(Block)), f \in Seq(Block) : Apart(t, u, f, r, e)
      BY <3>1, TakenApart
    <3>3. \A i \in 1..Len(r) : i \in 1..Len(Append(r, e))
      BY <3>2 DEF Apart
    <3>4. \A i \in 1..Len(Append(r, e)) : t[i] = Among(Append(r, e)[i], S)
      BY <2>1 DEF AmongEach
    <3>5. AmongEach(r, u, S)
      BY <3>2, <3>3, <3>4 DEF AmongEach, Apart
    <3>6. f = Among(e, S)
      <4>1. Len(r) + 1 \in 1..Len(Append(r, e))
        BY <3>2 DEF Apart
      <4>2. QED
        BY <3>2, <3>4, <4>1 DEF Apart
    <3>7. FlattenSeq(u) = Among(FlattenSeq(r), S)
      BY <1>2, <3>5
    <3>8. FlattenSeq(t) = FlattenSeq(u) \o f
      BY <3>2, FlattenAppend DEF Apart
    <3>9. FlattenSeq(Append(r, e)) = FlattenSeq(r) \o e /\ FlattenSeq(r) \in Seq(Block)
      BY FlattenAppend, FlattenType
    <3>10. Among(FlattenSeq(r) \o e, S) = Among(FlattenSeq(r), S) \o Among(e, S)
      BY <3>9, AmongConcat
    <3>11. QED
      BY <3>6, <3>7, <3>8, <3>9, <3>10
  <2>2. QED
    BY <2>1, AppendProperties
<1> HIDE DEF P
<1>3. Seq(Seq(Block)) \subseteq P
  BY <1>1, <1>2, SeqSetInduction
<1>4. QED
  BY <1>3 DEF P

(* No more bytes in each of a sequence of sequences, no more bytes in all. *)
FewerEach(ss, tt) ==
    Len(tt) = Len(ss) /\ \A i \in 1..Len(ss) : BytesOf(tt[i]) <= BytesOf(ss[i])

LEMMA FlattenFewer ==
    ASSUME NEW ss \in Seq(Seq(Block)), NEW tt \in Seq(Seq(Block)), FewerEach(ss, tt)
    PROVE  BytesOf(FlattenSeq(tt)) <= BytesOf(FlattenSeq(ss))
<1> DEFINE P == {r \in Seq(Seq(Block)) : \A t \in Seq(Seq(Block)) :
                    FewerEach(r, t) => BytesOf(FlattenSeq(t)) <= BytesOf(FlattenSeq(r))}
<1>1. << >> \in P
  <2>1. ASSUME NEW t \in Seq(Seq(Block)), FewerEach(<< >>, t)
        PROVE  BytesOf(FlattenSeq(t)) <= BytesOf(FlattenSeq(<< >>))
    <3>1. t = << >>
      BY <2>1, EmptySeq DEF FewerEach
    <3>2. QED
      BY <3>1, FlattenEmpty, BytesOfEmpty
  <2>2. QED
    BY <2>1, EmptySeq
<1>2. ASSUME NEW r \in Seq(Seq(Block)), NEW e \in Seq(Block), r \in P
      PROVE  Append(r, e) \in P
  <2>1. ASSUME NEW t \in Seq(Seq(Block)), FewerEach(Append(r, e), t)
        PROVE  BytesOf(FlattenSeq(t)) <= BytesOf(FlattenSeq(Append(r, e)))
    <3>1. Len(t) = Len(Append(r, e))
      BY <2>1 DEF FewerEach
    <3>2. PICK u \in Seq(Seq(Block)), f \in Seq(Block) : Apart(t, u, f, r, e)
      BY <3>1, TakenApart
    <3>3. \A i \in 1..Len(r) : i \in 1..Len(Append(r, e))
      BY <3>2 DEF Apart
    <3>4. \A i \in 1..Len(Append(r, e)) : BytesOf(t[i]) <= BytesOf(Append(r, e)[i])
      BY <2>1 DEF FewerEach
    <3>5. FewerEach(r, u)
      BY <3>2, <3>3, <3>4 DEF FewerEach, Apart
    <3>6. BytesOf(f) <= BytesOf(e)
      <4>1. Len(r) + 1 \in 1..Len(Append(r, e))
        BY <3>2 DEF Apart
      <4>2. QED
        BY <3>2, <3>4, <4>1 DEF Apart
    <3>7. BytesOf(FlattenSeq(u)) <= BytesOf(FlattenSeq(r))
      BY <1>2, <3>5
    <3>8. FlattenSeq(t) = FlattenSeq(u) \o f /\ FlattenSeq(u) \in Seq(Block)
      BY <3>2, FlattenAppend, FlattenType DEF Apart
    <3>9. FlattenSeq(Append(r, e)) = FlattenSeq(r) \o e /\ FlattenSeq(r) \in Seq(Block)
      BY FlattenAppend, FlattenType
    <3>10. /\ BytesOf(FlattenSeq(u) \o f) = BytesOf(FlattenSeq(u)) + BytesOf(f)
           /\ BytesOf(FlattenSeq(r) \o e) = BytesOf(FlattenSeq(r)) + BytesOf(e)
           /\ BytesOf(FlattenSeq(u)) \in Nat /\ BytesOf(f) \in Nat
           /\ BytesOf(FlattenSeq(r)) \in Nat /\ BytesOf(e) \in Nat
      BY <3>8, <3>9, BytesConcat, BytesType
    <3>11. QED
      BY <3>6, <3>7, <3>8, <3>9, <3>10
  <2>2. QED
    BY <2>1, AppendProperties
<1> HIDE DEF P
<1>3. Seq(Seq(Block)) \subseteq P
  BY <1>1, <1>2, SeqSetInduction
<1>4. QED
  BY <1>3 DEF P

-----------------------------------------------------------------------------
(* The segments of a trace. *)

LEMMA SingleIsAppend ==
    ASSUME NEW T, NEW e \in T
    PROVE  <<e>> = Append(<< >>, e) /\ <<e>> \in Seq(T)
<1>1. << >> \in Seq(T)
  BY EmptySeq
<1>2. <<e>> \in Seq(T)
  OBVIOUS
<1>3. Append(<< >>, e) = << >> \o <<e>>
  BY <1>1, AppendIsConcat
<1>4. QED
  BY <1>2, <1>3, ConcatEmptySeq

LEMMA FrontAppend ==
    ASSUME NEW T, NEW s \in Seq(T), NEW e \in T
    PROVE  Front(Append(s, e)) = s
<1>1. PICK t, k : t = Append(s, e) /\ k = Len(s)
  OBVIOUS
<1>2. /\ k \in Nat /\ t \in Seq(T) /\ Len(t) = k + 1 /\ \A i \in 1..k : t[i] = s[i]
  BY <1>1, AppendProperties, LenProperties
<1>3. Front(t) = SubSeq(t, 1, k)
  BY <1>2 DEF Front
<1>4. \A i \in 1..k : t[i] \in T
  BY <1>1, <1>2, ElementOfSeq
<1>5. /\ SubSeq(t, 1, k) \in Seq(T)
      /\ Len(SubSeq(t, 1, k)) = IF 1 <= k THEN k - 1 + 1 ELSE 0
      /\ \A i \in 1..(k - 1 + 1) : SubSeq(t, 1, k)[i] = t[1 + i - 1]
  BY <1>2, <1>4, SubSeqProperties
<1>6. /\ Len(SubSeq(t, 1, k)) = k
      /\ \A i \in 1..k : SubSeq(t, 1, k)[i] = t[i]
  BY <1>2, <1>5
<1>7. SubSeq(t, 1, k) = s
  BY <1>1, <1>2, <1>5, <1>6, SeqEqual
<1>8. QED
  BY <1>1, <1>3, <1>7

Data == {b \in Block : Size[b] > 0}

WholeSegments(segs) ==
    \A n \in 1..Len(segs) :
        /\ segs[n] # << >>
        /\ BytesOf(Front(segs[n])) < FIX_SEGMENT_SIZE
        /\ n < Len(segs) => BytesOf(segs[n]) >= FIX_SEGMENT_SIZE

(* All segments but the last have their size, and the last one has what it has. *)
Filled(segs, bytes) ==
    segs # << >> =>
        bytes >= (Len(segs) - 1) * FIX_SEGMENT_SIZE + BytesOf(segs[Len(segs)])

Segmented(trace, segs) ==
    /\ segs \in Seq(Seq(Block))
    /\ WholeSegments(segs)
    /\ FlattenSeq(segs) = Among(trace, Data)
    /\ Filled(segs, BytesOf(trace))

LEMMA SegmentedEmpty == Segmented(<< >>, << >>)
<1>1. << >> \in Seq(Seq(Block)) /\ Len(<< >>) = 0
  BY EmptySeq
<1>2. QED
  BY <1>1, FlattenEmpty, AmongEmpty DEF Segmented, WholeSegments, Filled

(* A block starts a segment. *)
LEMMA SegmentedNew ==
    ASSUME NEW trace \in Seq(Block), NEW segs, Segmented(trace, segs), NEW b \in Block,
           Size[b] # 0, segs # << >> => BytesOf(segs[Len(segs)]) >= FIX_SEGMENT_SIZE
    PROVE  Segmented(Append(trace, b), Append(segs, <<b>>))
<1>1. /\ segs \in Seq(Seq(Block)) /\ WholeSegments(segs)
      /\ FlattenSeq(segs) = Among(trace, Data) /\ Filled(segs, BytesOf(trace))
  BY DEF Segmented
<1>2. PICK t, k : t = Append(segs, <<b>>) /\ k = Len(segs)
  OBVIOUS
<1>3. <<b>> = Append(<< >>, b) /\ <<b>> \in Seq(Block) /\ << >> \in Seq(Block)
  BY SingleIsAppend, EmptySeq
<1>4. /\ k \in Nat /\ t \in Seq(Seq(Block)) /\ t # << >> /\ Len(t) = k + 1
      /\ \A i \in 1..k : t[i] = segs[i]
      /\ t[k + 1] = <<b>>
  BY <1>1, <1>2, <1>3, AppendProperties, LenProperties
<1>5. /\ BytesOf(<<b>>) = Size[b] /\ Front(<<b>>) = << >> /\ <<b>> # << >>
      /\ BytesOf(<< >>) = 0
      /\ Size[b] \in Nat
  <2>1. BytesOf(Append(<< >>, b)) = BytesOf(<< >>) + Size[b]
    BY <1>3, BytesOfAppend
  <2>2. Front(Append(<< >>, b)) = << >>
    BY <1>3, FrontAppend
  <2>3. Append(<< >>, b) # << >> /\ Size[b] \in Nat
    BY <1>3, AppendProperties, TraceAssumption
  <2>4. QED
    BY <1>3, <2>1, <2>2, <2>3, BytesOfEmpty
<1>6. FIX_SEGMENT_SIZE \in Nat /\ FIX_SEGMENT_SIZE > 0
  BY TraceAssumption
<1>7. WholeSegments(t)
  <2>1. ASSUME NEW n \in 1..(k + 1)
        PROVE  /\ t[n] # << >>
               /\ BytesOf(Front(t[n])) < FIX_SEGMENT_SIZE
               /\ n < k + 1 => BytesOf(t[n]) >= FIX_SEGMENT_SIZE
    <3>1. CASE n = k + 1
      BY <1>4, <1>5, <1>6, <3>1
    <3>2. CASE n # k + 1
      <4>1. n \in 1..k /\ t[n] = segs[n] /\ (n = k \/ n < k)
        BY <1>4, <3>2
      <4>2. /\ segs[n] # << >> /\ BytesOf(Front(segs[n])) < FIX_SEGMENT_SIZE
            /\ n < k => BytesOf(segs[n]) >= FIX_SEGMENT_SIZE
        BY <1>1, <1>2, <4>1 DEF WholeSegments
      <4>3. segs # << >>
        BY <1>2, <4>1, EmptySeq
      <4>4. BytesOf(segs[n]) >= FIX_SEGMENT_SIZE
        BY <1>2, <4>1, <4>2, <4>3
      <4>5. QED
        BY <4>1, <4>2, <4>4
    <3>3. QED
      BY <3>1, <3>2
  <2>2. QED
    BY <1>4, <2>1 DEF WholeSegments
<1>8. FlattenSeq(t) = Among(Append(trace, b), Data)
  <2>1. FlattenSeq(t) = FlattenSeq(segs) \o <<b>>
    BY <1>1, <1>2, <1>3, FlattenAppend
  <2>2. Append(Among(trace, Data), b) = Among(trace, Data) \o <<b>>
    BY AmongType, AppendIsConcat
  <2>3. b \in Data
    BY <1>5 DEF Data
  <2>4. Among(Append(trace, b), Data) = Append(Among(trace, Data), b)
    BY <2>3, AmongAppend
  <2>5. QED
    BY <1>1, <2>1, <2>2, <2>4
<1>9. Filled(t, BytesOf(Append(trace, b)))
  <2>1. /\ BytesOf(Append(trace, b)) = BytesOf(trace) + Size[b]
        /\ BytesOf(trace) \in Nat
    BY BytesOfAppend, BytesType
  <2>2. BytesOf(trace) >= k * FIX_SEGMENT_SIZE
    <3>1. CASE segs = << >>
      <4>1. k = 0
        BY <1>2, <3>1, EmptySeq
      <4>2. k * FIX_SEGMENT_SIZE = 0
        BY <1>6, <4>1
      <4>3. QED
        BY <2>1, <4>2
    <3>2. CASE segs # << >>
      <4>1. k \in 1..k
        BY <1>1, <1>2, <3>2, EmptySeq
      <4>2. segs[k] \in Seq(Block)
        BY <1>1, <1>2, <4>1, ElementOfSeq
      <4>3. BytesOf(segs[k]) \in Nat /\ BytesOf(segs[k]) >= FIX_SEGMENT_SIZE
        BY <1>2, <3>2, <4>2, BytesType
      <4>4. BytesOf(trace) >= (k - 1) * FIX_SEGMENT_SIZE + BytesOf(segs[k])
        BY <1>1, <1>2, <3>2 DEF Filled
      <4>5. (k - 1) * FIX_SEGMENT_SIZE + FIX_SEGMENT_SIZE = k * FIX_SEGMENT_SIZE
            /\ (k - 1) * FIX_SEGMENT_SIZE \in Int /\ k * FIX_SEGMENT_SIZE \in Int
        BY <1>4, <1>6
      <4>6. QED
        BY <1>6, <2>1, <4>3, <4>4, <4>5
    <3>3. QED
      BY <3>1, <3>2
  <2>3. k * FIX_SEGMENT_SIZE \in Int /\ Len(t) - 1 = k
    BY <1>4, <1>6
  <2>4. BytesOf(trace) + Size[b] >= k * FIX_SEGMENT_SIZE + Size[b]
    BY <1>5, <2>1, <2>2, <2>3
  <2>5. BytesOf(t[Len(t)]) = Size[b]
    BY <1>4, <1>5
  <2>6. QED
    BY <2>1, <2>3, <2>4, <2>5 DEF Filled
<1>10. QED
  BY <1>2, <1>4, <1>7, <1>8, <1>9 DEF Segmented

(* A block goes to the last segment. *)
LEMMA SegmentedMore ==
    ASSUME NEW trace \in Seq(Block), NEW segs, Segmented(trace, segs), NEW b \in Block,
           Size[b] # 0, segs # << >>, BytesOf(segs[Len(segs)]) < FIX_SEGMENT_SIZE
    PROVE  Segmented(Append(trace, b), [segs EXCEPT ![Len(segs)] = Append(@, b)])
<1>1. /\ segs \in Seq(Seq(Block)) /\ WholeSegments(segs)
      /\ FlattenSeq(segs) = Among(trace, Data) /\ Filled(segs, BytesOf(trace))
  BY DEF Segmented
<1>2. PICK u \in Seq(Seq(Block)), l \in Seq(Block) : segs = Append(u, l)
  BY <1>1, SequenceEmptyOrAppend
<1>3. PICK k, t : k = Len(u) + 1 /\ t = [segs EXCEPT ![Len(segs)] = Append(@, b)]
  OBVIOUS
<1>4. /\ k \in Nat \ {0} /\ Len(segs) = k /\ segs[k] = l /\ k - 1 = Len(u) /\ k \in 1..k
      /\ \A i \in 1..(k - 1) : segs[i] = u[i]
  BY <1>2, <1>3, AppendProperties, LenProperties
<1>5. Append(l, b) \in Seq(Block) /\ Append(l, b) # << >>
  BY AppendProperties
<1>6. /\ t \in Seq(Seq(Block)) /\ Len(t) = k /\ t[k] = Append(l, b)
      /\ \A i \in 1..k : i # k => t[i] = segs[i]
  BY <1>1, <1>3, <1>4, <1>5, ExceptSeq
<1>7. t = Append(u, Append(l, b))
  <2>1. PICK v : v = Append(u, Append(l, b))
    OBVIOUS
  <2>2. /\ v \in Seq(Seq(Block)) /\ Len(v) = k /\ v[k] = Append(l, b)
        /\ \A i \in 1..(k - 1) : v[i] = u[i]
    BY <1>3, <1>4, <1>5, <2>1, AppendProperties
  <2>3. \A i \in 1..k : i = k \/ i \in 1..(k - 1)
    BY <1>4
  <2>4. \A i \in 1..k : t[i] = v[i]
    BY <1>4, <1>6, <2>2, <2>3
  <2>5. QED
    BY <1>6, <2>1, <2>2, <2>4, SeqEqual
<1>8. Size[b] \in Nat /\ BytesOf(l) \in Nat /\ BytesOf(Append(l, b)) = BytesOf(l) + Size[b]
      /\ Front(Append(l, b)) = l /\ BytesOf(l) < FIX_SEGMENT_SIZE
  BY <1>4, BytesType, BytesOfAppend, FrontAppend, TraceAssumption
<1>9. WholeSegments(t)
  <2>1. ASSUME NEW n \in 1..k
        PROVE  /\ t[n] # << >>
               /\ BytesOf(Front(t[n])) < FIX_SEGMENT_SIZE
               /\ n < k => BytesOf(t[n]) >= FIX_SEGMENT_SIZE
    <3>1. CASE n = k
      <4>1. t[n] = Append(l, b) /\ ~(n < k)
        BY <1>4, <1>6, <3>1
      <4>2. QED
        BY <1>5, <1>8, <4>1
    <3>2. CASE n # k
      BY <1>1, <1>4, <1>6, <3>2 DEF WholeSegments
    <3>3. QED
      BY <3>1, <3>2
  <2>2. QED
    BY <1>6, <2>1 DEF WholeSegments
<1>10. FlattenSeq(t) = Among(Append(trace, b), Data)
  <2>1. FlattenSeq(t) = FlattenSeq(u) \o Append(l, b) /\ FlattenSeq(segs) = FlattenSeq(u) \o l
        /\ FlattenSeq(u) \in Seq(Block)
    BY <1>2, <1>5, <1>7, FlattenAppend, FlattenType
  <2>2. FlattenSeq(u) \o Append(l, b) = Append(FlattenSeq(u) \o l, b)
    BY <2>1, ConcatAppend
  <2>3. b \in Data
    BY <1>8 DEF Data
  <2>4. Among(Append(trace, b), Data) = Append(Among(trace, Data), b)
    BY <2>3, AmongAppend
  <2>5. QED
    BY <1>1, <2>1, <2>2, <2>4
<1>11. Filled(t, BytesOf(Append(trace, b)))
  <2>1. BytesOf(Append(trace, b)) = BytesOf(trace) + Size[b] /\ BytesOf(trace) \in Nat
    BY BytesOfAppend, BytesType
  <2>2. BytesOf(trace) >= (k - 1) * FIX_SEGMENT_SIZE + BytesOf(l)
    BY <1>1, <1>4 DEF Filled
  <2>3. (k - 1) * FIX_SEGMENT_SIZE \in Int
    BY <1>4, TraceAssumption
  <2>4. BytesOf(trace) + Size[b] >= (k - 1) * FIX_SEGMENT_SIZE + (BytesOf(l) + Size[b])
    BY <1>8, <2>1, <2>2, <2>3
  <2>5. BytesOf(t[Len(t)]) = BytesOf(l) + Size[b] /\ Len(t) - 1 = k - 1
    BY <1>6, <1>8
  <2>6. QED
    BY <2>1, <2>4, <2>5 DEF Filled
<1>12. QED
  BY <1>3, <1>6, <1>9, <1>10, <1>11 DEF Segmented

LEMMA SegmentsSegmented ==
    ASSUME NEW trace \in Seq(Block)
    PROVE  Segmented(trace, Segments(trace))
<1> DEFINE P == {t \in Seq(Block) : Segmented(t, Segments(t))}
<1>1. << >> \in P
  BY SegmentsEmpty, SegmentedEmpty, EmptySeq
<1>2. ASSUME NEW t \in Seq(Block), NEW b \in Block, t \in P
      PROVE  Append(t, b) \in P
  <2>1. PICK segs : segs = Segments(t)
    OBVIOUS
  <2>2. Segmented(t, segs) /\ Append(t, b) \in Seq(Block)
    BY <1>2, <2>1, AppendProperties
  <2>3. Segments(Append(t, b)) = LoadFixSize(segs, b)
    BY <2>1, SegmentsAppend
  <2>4. CASE Size[b] = 0
    <3>1. LoadFixSize(segs, b) = segs
      BY <2>4 DEF LoadFixSize
    <3>2. b \notin Data
      BY <2>4 DEF Data
    <3>3. Among(Append(t, b), Data) = Among(t, Data)
      BY <3>2, AmongAppend
    <3>4. BytesOf(Append(t, b)) = BytesOf(t)
      BY <2>4, BytesOfAppend, BytesType
    <3>5. QED
      BY <2>2, <2>3, <3>1, <3>3, <3>4 DEF Segmented
  <2>5. CASE Size[b] # 0 /\ (segs = << >> \/ BytesOf(segs[Len(segs)]) >= FIX_SEGMENT_SIZE)
    <3>1. LoadFixSize(segs, b) = Append(segs, <<b>>)
      BY <2>5 DEF LoadFixSize
    <3>2. Segmented(Append(t, b), Append(segs, <<b>>))
      BY <2>2, <2>5, SegmentedNew
    <3>3. QED
      BY <2>2, <2>3, <3>1, <3>2
  <2>6. CASE Size[b] # 0 /\ ~(segs = << >> \/ BytesOf(segs[Len(segs)]) >= FIX_SEGMENT_SIZE)
    <3>1. LoadFixSize(segs, b) = [segs EXCEPT ![Len(segs)] = Append(@, b)]
      BY <2>6 DEF LoadFixSize
    <3>2. segs \in Seq(Seq(Block)) /\ Len(segs) \in 1..Len(segs)
      BY <2>2, <2>6, EmptySeq DEF Segmented
    <3>3. BytesOf(segs[Len(segs)]) \in Nat
      BY <3>2, ElementOfSeq, BytesType
    <3>4. BytesOf(segs[Len(segs)]) < FIX_SEGMENT_SIZE
      BY <2>6, <3>3, TraceAssumption
    <3>5. Segmented(Append(t, b), [segs EXCEPT ![Len(segs)] = Append(@, b)])
      BY <2>2, <2>6, <3>4, SegmentedMore
    <3>6. QED
      BY <2>2, <2>3, <3>1, <3>5
  <2>7. QED
    BY <2>4, <2>5, <2>6
<1> HIDE DEF P
<1>3. Seq(Block) \subseteq P
  BY <1>1, <1>2, SeqSetInduction
<1>4. QED
  BY <1>3 DEF P

LEMMA DivAtLeast ==
    ASSUME NEW a \in Nat, NEW m \in Int, NEW F \in Nat \ {0}, a >= m * F
    PROVE  a \div F >= m
<1>1. PICK q \in Int : q = a \div F
  OBVIOUS
<1>2. a < q * F + F
  BY <1>1
<1>3. ASSUME q < m PROVE FALSE
  <2>1. q + 1 <= m
    BY <1>3
  <2>2. (q + 1) * F <= m * F
    BY <2>1
  <2>3. (q + 1) * F = q * F + F
    OBVIOUS
  <2>4. QED
    BY <1>2, <2>2, <2>3
<1>4. QED
  BY <1>1, <1>3

(* Whatever the trace: the segments hold its blocks with data in order, each but the last
   is full, none was full before its last block, and the cells reserved for the dirty bits
   are enough. *)
LEMMA SegmentsAreRight ==
    ASSUME NEW trace \in Seq(Block)
    PROVE  SegmentsRight(trace)
<1>1. PICK segs : segs = Segments(trace)
  OBVIOUS
<1>2. Segmented(trace, segs)
  BY <1>1, SegmentsSegmented
<1>3. segs \in Seq(Seq(Block)) /\ Len(segs) \in Nat /\ DOMAIN segs = 1..Len(segs)
  BY <1>2, LenProperties DEF Segmented
<1>4. FlattenSeq(segs) = Among(trace, {b \in Block : Size[b] > 0})
  BY <1>2 DEF Segmented, Data
<1>5. \A n \in DOMAIN segs :
          /\ BytesOf(Front(segs[n])) < FIX_SEGMENT_SIZE
          /\ n < Len(segs) => BytesOf(segs[n]) >= FIX_SEGMENT_SIZE
  BY <1>2, <1>3 DEF Segmented, WholeSegments
<1>6. Generate(trace).reserved >= Len(segs)
  <2>1. PICK a : a = BytesOf(trace)
    OBVIOUS
  <2>2. a \in Nat /\ FIX_SEGMENT_SIZE \in Nat \ {0}
    BY <2>1, BytesType, TraceAssumption
  <2>3. Generate(trace).reserved = (a \div FIX_SEGMENT_SIZE) + 1
    BY <2>1 DEF Generate
  <2>4. CASE segs = << >>
    <3>1. Len(segs) = 0
      BY <2>4, EmptySeq
    <3>2. a \div FIX_SEGMENT_SIZE >= 0
      BY <2>2
    <3>3. a \div FIX_SEGMENT_SIZE \in Int
      BY <2>2
    <3>4. QED
      BY <2>3, <3>1, <3>2, <3>3
  <2>5. CASE segs # << >>
    <3>1. a >= (Len(segs) - 1) * FIX_SEGMENT_SIZE + BytesOf(segs[Len(segs)])
      BY <1>2, <2>1, <2>5 DEF Segmented, Filled
    <3>2. Len(segs) \in 1..Len(segs)
      BY <1>3, <2>5, EmptySeq
    <3>3. BytesOf(segs[Len(segs)]) \in Nat
      BY <1>3, <3>2, ElementOfSeq, BytesType
    <3>4. (Len(segs) - 1) * FIX_SEGMENT_SIZE \in Int
      BY <1>3, <2>2
    <3>5. a >= (Len(segs) - 1) * FIX_SEGMENT_SIZE
      BY <2>2, <3>1, <3>3, <3>4
    <3>6. Len(segs) - 1 \in Int
      BY <1>3
    <3>7. a \div FIX_SEGMENT_SIZE >= Len(segs) - 1
      BY <2>2, <3>5, <3>6, DivAtLeast
    <3>8. a \div FIX_SEGMENT_SIZE \in Int
      BY <2>2
    <3>9. QED
      BY <1>3, <2>3, <3>7, <3>8
  <2>6. QED
    BY <2>4, <2>5
<1>7. QED
  BY <1>1, <1>4, <1>5, <1>6 DEF SegmentsRight

-----------------------------------------------------------------------------
(* The state: virtual machines, of snapshots, of blocks. *)

Blocks == Seq(Block)

Vm == Seq(Blocks) \ {<< >>}

VmsOK == vms \in Seq(Vm) /\ vms # << >>

LEMMA FrontLast ==
    ASSUME NEW T, NEW s \in Seq(T), s # << >>
    PROVE  /\ Front(s) \in Seq(T) /\ Last(s) \in T
           /\ s = Append(Front(s), Last(s))
<1>1. PICK u \in Seq(T), e \in T : s = Append(u, e)
  BY SequenceEmptyOrAppend
<1>2. Front(s) = u
  BY <1>1, FrontAppend
<1>3. Last(s) = e
  BY <1>1, AppendProperties, LenProperties DEF Last
<1>4. QED
  BY <1>1, <1>2, <1>3

LEMMA ConcatOne ==
    ASSUME NEW T, NEW s \in Seq(T), NEW e \in T
    PROVE  s \o <<e>> \in Seq(T) /\ s \o <<e>> # << >>
BY AppendIsConcat, AppendProperties

LEMMA VmsInit == Init => VmsOK
<1> SUFFICES ASSUME Init
             PROVE  VmsOK
  OBVIOUS
<1>1. << >> \in Blocks
  BY EmptySeq DEF Blocks
<1>2. << << >> >> \in Seq(Blocks) /\ << << >> >> # << >>
  BY <1>1, SingleIsAppend, EmptySeq, AppendProperties
<1>3. << << >> >> \in Vm
  BY <1>2 DEF Vm
<1>4. << << << >> >> >> \in Seq(Vm) /\ << << << >> >> >> # << >>
  BY <1>3, SingleIsAppend, EmptySeq, AppendProperties
<1>5. QED
  BY <1>4 DEF Init, VmsOK

LEMMA VmsNext == VmsOK /\ [Next]_vms => VmsOK'
<1> SUFFICES ASSUME VmsOK, [Next]_vms
             PROVE  VmsOK'
  OBVIOUS
<1>0. << >> \in Blocks
  BY EmptySeq DEF Blocks
<1>1. /\ vms \in Seq(Vm) /\ vms # << >>
      /\ Front(vms) \in Seq(Vm) /\ Last(vms) \in Vm
  BY FrontLast DEF VmsOK
<1>2. PICK vm \in Seq(Blocks) : vm = Last(vms) /\ vm # << >>
  BY <1>1 DEF Vm
<1>3. Front(vm) \in Seq(Blocks) /\ Last(vm) \in Blocks
  BY <1>2, FrontLast
<1>4. ASSUME NEW b \in Block, NextBlock(b)
      PROVE  VmsOK'
  <2>1. Append(Last(vm), b) \in Blocks
    BY <1>3, AppendProperties DEF Blocks
  <2>2. Front(vm) \o <<Append(Last(vm), b)>> \in Vm
    BY <1>3, <2>1, ConcatOne DEF Vm
  <2>3. vms' = Front(vms) \o <<Front(vm) \o <<Append(Last(vm), b)>> >>
    BY <1>2, <1>4 DEF NextBlock
  <2>4. QED
    BY <1>1, <2>2, <2>3, ConcatOne DEF VmsOK
<1>5. CASE NextSnapshot
  <2>1. Append(vm, << >>) \in Vm
    BY <1>0, <1>2, AppendProperties DEF Vm
  <2>2. vms' = Front(vms) \o <<Append(vm, << >>)>>
    BY <1>2, <1>5 DEF NextSnapshot
  <2>3. QED
    BY <1>1, <2>1, <2>2, ConcatOne DEF VmsOK
<1>6. CASE NextVm
  <2>1. << << >> >> \in Seq(Blocks) /\ << << >> >> # << >>
    BY <1>0, SingleIsAppend, EmptySeq, AppendProperties
  <2>2. << << >> >> \in Vm
    BY <2>1 DEF Vm
  <2>3. vms' = Append(vms, << << >> >>)
    BY <1>6 DEF NextVm
  <2>4. QED
    BY <1>1, <2>2, <2>3, AppendProperties DEF VmsOK
<1>7. CASE UNCHANGED vms
  BY <1>7 DEF VmsOK
<1>8. QED
  BY <1>4, <1>5, <1>6, <1>7 DEF Next

-----------------------------------------------------------------------------
(* Rounds, and the segments of a snapshot in each. *)

LEMMA BoundedNat ==
    ASSUME NEW f
    PROVE  \A n \in Nat : (\A i \in 1..n : f[i] \in Nat) => \E m \in Nat : \A i \in 1..n : f[i] <= m
<1> DEFINE good == {n \in Nat :
                (\A i \in 1..n : f[i] \in Nat) => \E m \in Nat : \A i \in 1..n : f[i] <= m}
<1>1. 0 \in good
  OBVIOUS
<1>2. ASSUME NEW n \in Nat, n \in good
      PROVE  n + 1 \in good
  <2>1. ASSUME \A i \in 1..(n + 1) : f[i] \in Nat
        PROVE  \E m \in Nat : \A i \in 1..(n + 1) : f[i] <= m
    <3>1. \A i \in 1..(n + 1) : i \in 1..n \/ i = n + 1
      OBVIOUS
    <3>2. f[n + 1] \in Nat /\ \A i \in 1..n : f[i] \in Nat
      BY <2>1
    <3>3. PICK m \in Nat : \A i \in 1..n : f[i] <= m
      BY <1>2, <3>2
    <3>4. CASE f[n + 1] <= m
      BY <3>1, <3>3, <3>4
    <3>5. CASE ~(f[n + 1] <= m)
      <4>1. \A i \in 1..(n + 1) : f[i] <= f[n + 1]
        BY <3>1, <3>2, <3>3, <3>5
      <4>2. QED
        BY <3>2, <4>1
    <3>6. QED
      BY <3>4, <3>5
  <2>2. QED
    BY <2>1
<1> HIDE DEF good
<1>3. Nat \subseteq good
  BY <1>1, <1>2, NatSetInduction
<1>4. QED
  BY <1>3 DEF good

LEMMA MaxIs ==
    ASSUME NEW S \in SUBSET Nat, S # {}, NEW m \in Nat, \A x \in S : x <= m
    PROVE  Max(S) \in S /\ \A x \in S : x <= Max(S)
<1> DEFINE U == {u \in Nat : \A x \in S : x <= u}
<1>1. PICK u \in U : \A v \in U : u <= v
  <2>1. m \in U /\ U \in SUBSET Nat
    OBVIOUS
  <2> HIDE DEF U
  <2>2. U # {}
    BY <2>1
  <2>3. QED
    BY <2>1, <2>2, LeastNat
<1>2. u \in S
  <2>1. CASE u = 0
    <3>1. PICK x \in S : TRUE
      OBVIOUS
    <3>2. x \in Nat /\ x <= 0
      BY <1>1, <2>1, <3>1
    <3>3. x = 0
      BY <3>2
    <3>4. QED
      BY <2>1, <3>3
  <2>2. CASE u # 0
    <3>1. u - 1 \in Nat /\ u - 1 \notin U
      BY <1>1, <2>2
    <3>2. PICK x \in S : ~(x <= u - 1)
      BY <3>1
    <3>3. x \in Nat /\ x <= u
      BY <1>1
    <3>4. x = u
      BY <1>1, <3>2, <3>3
    <3>5. QED
      BY <3>4
  <2>3. QED
    BY <2>1, <2>2
<1>3. \E x \in S : \A y \in S : x >= y
  BY <1>1, <1>2
<1>4. Max(S) \in S /\ \A y \in S : Max(S) >= y
  BY <1>3 DEF Max
<1>5. QED
  BY <1>4

LEMMA SegmentsType ==
    ASSUME NEW trace \in Blocks
    PROVE  /\ Segments(trace) \in Seq(Blocks)
           /\ Len(Segments(trace)) \in Nat
           /\ DOMAIN Segments(trace) = 1..Len(Segments(trace))
           /\ \A n \in 1..Len(Segments(trace)) :
                 Segments(trace)[n] \in Blocks /\ Segments(trace)[n] # << >>
           /\ FlattenSeq(Segments(trace)) = Among(trace, Data)
<1>1. Segmented(trace, Segments(trace))
  BY SegmentsSegmented DEF Blocks
<1>2. Segments(trace) \in Seq(Blocks)
  BY <1>1 DEF Segmented, Blocks
<1>3. QED
  BY <1>1, <1>2, LenProperties, ElementOfSeq DEF Segmented, WholeSegments

LEMMA FlattenRange ==
    ASSUME NEW ss \in Seq(Blocks)
    PROVE  \A n \in 1..Len(ss) : Range(ss[n]) \subseteq Range(FlattenSeq(ss))
<1> DEFINE P == {r \in Seq(Blocks) : \A n \in 1..Len(r) : Range(r[n]) \subseteq Range(FlattenSeq(r))}
<1>1. << >> \in P
  BY EmptySeq
<1>2. ASSUME NEW r \in Seq(Blocks), NEW e \in Blocks, r \in P
      PROVE  Append(r, e) \in P
  <2>1. PICK t, k : t = Append(r, e) /\ k = Len(r)
    OBVIOUS
  <2>2. /\ k \in Nat /\ t \in Seq(Blocks) /\ Len(t) = k + 1 /\ t[k + 1] = e
        /\ \A i \in 1..k : t[i] = r[i]
    BY <2>1, AppendProperties, LenProperties
  <2>3. FlattenSeq(t) = FlattenSeq(r) \o e /\ FlattenSeq(r) \in Seq(Block)
    BY <2>1, FlattenAppend, FlattenType DEF Blocks
  <2>4. Range(FlattenSeq(r) \o e) = Range(FlattenSeq(r)) \cup Range(e)
    <3>1. PICK a \in Seq(Block), b \in Seq(Block) : a = FlattenSeq(r) /\ b = e
      BY <2>3 DEF Blocks
    <3>2. /\ Len(a) \in Nat /\ Len(b) \in Nat /\ DOMAIN a = 1..Len(a) /\ DOMAIN b = 1..Len(b)
          /\ a \o b \in Seq(Block) /\ Len(a \o b) = Len(a) + Len(b)
          /\ \A i \in 1..(Len(a) + Len(b)) :
                 (a \o b)[i] = IF i <= Len(a) THEN a[i] ELSE b[i - Len(a)]
      BY ConcatProperties, LenProperties
    <3>3. DOMAIN (a \o b) = 1..(Len(a) + Len(b))
      BY <3>2, LenProperties
    <3>4. \A i \in 1..Len(a) : i \in 1..(Len(a) + Len(b)) /\ (a \o b)[i] = a[i]
      BY <3>2
    <3>5. \A i \in 1..Len(b) :
              Len(a) + i \in 1..(Len(a) + Len(b)) /\ (a \o b)[Len(a) + i] = b[i]
      BY <3>2
    <3>6. \A i \in 1..(Len(a) + Len(b)) : i \in 1..Len(a) \/ i - Len(a) \in 1..Len(b)
      BY <3>2
    <3>7. Range(a \o b) \subseteq Range(a) \cup Range(b)
      BY <3>2, <3>3, <3>6 DEF Range
    <3>8. Range(a) \subseteq Range(a \o b)
      BY <3>2, <3>3, <3>4 DEF Range
    <3>9. Range(b) \subseteq Range(a \o b)
      <4>1. ASSUME NEW i \in 1..Len(b)
            PROVE  b[i] \in Range(a \o b)
        <5>1. Len(a) + i \in DOMAIN (a \o b) /\ (a \o b)[Len(a) + i] = b[i]
          BY <3>3, <3>5
        <5>2. QED
          BY <5>1 DEF Range
      <4>2. QED
        BY <3>2, <4>1 DEF Range
    <3>10. QED
      BY <3>1, <3>7, <3>8, <3>9
  <2>5. ASSUME NEW n \in 1..(k + 1)
        PROVE  Range(t[n]) \subseteq Range(FlattenSeq(t))
    <3>1. CASE n = k + 1
      BY <2>2, <2>3, <2>4, <3>1
    <3>2. CASE n # k + 1
      <4>1. n \in 1..k /\ t[n] = r[n]
        BY <2>2, <3>2
      <4>2. Range(r[n]) \subseteq Range(FlattenSeq(r))
        BY <1>2, <2>1, <4>1
      <4>3. QED
        BY <2>3, <2>4, <4>1, <4>2
    <3>3. QED
      BY <3>1, <3>2
  <2>6. QED
    BY <2>1, <2>2, <2>5
<1> HIDE DEF P
<1>3. Seq(Blocks) \subseteq P
  BY <1>1, <1>2, SeqSetInduction
<1>4. QED
  BY <1>3 DEF P

(* Behind the last segment there are empty ones, which add nothing. *)
Padded(ss, R) == [n \in 1..R |-> IF n \in DOMAIN ss THEN ss[n] ELSE << >>]

LEMMA PaddedType ==
    ASSUME NEW ss \in Seq(Blocks), NEW R \in Nat
    PROVE  Padded(ss, R) \in Seq(Blocks) /\ Len(Padded(ss, R)) = R
<1>1. PICK f : f = Padded(ss, R)
  OBVIOUS
<1>2. f = [n \in 1..R |-> f[n]]
  BY <1>1 DEF Padded
<1>3. \A n \in 1..R : f[n] \in Blocks
  BY <1>1, LenProperties, ElementOfSeq, EmptySeq DEF Padded, Blocks
<1>4. QED
  BY <1>1, <1>2, <1>3, FunctionIsSeq

LEMMA PaddedFlatten ==
    ASSUME NEW ss \in Seq(Blocks), NEW R \in Nat, R >= Len(ss)
    PROVE  FlattenSeq(Padded(ss, R)) = FlattenSeq(ss)
<1> DEFINE P == {r \in Nat : r >= Len(ss) => FlattenSeq(Padded(ss, r)) = FlattenSeq(ss)}
<1>0. Len(ss) \in Nat /\ DOMAIN ss = 1..Len(ss)
  BY LenProperties
<1>1. ASSUME NEW r \in Nat, r = Len(ss)
      PROVE  Padded(ss, r) = ss
  <2>1. \A n \in 1..r : Padded(ss, r)[n] = ss[n]
    BY <1>0, <1>1 DEF Padded
  <2>2. Padded(ss, r) \in Seq(Blocks) /\ Len(Padded(ss, r)) = r
    BY PaddedType
  <2>3. QED
    BY <1>1, <2>1, <2>2, SeqEqual
<1>2. 0 \in P
  <2>1. 0 >= Len(ss) => 0 = Len(ss)
    BY <1>0
  <2>2. QED
    BY <1>1, <2>1
<1>3. ASSUME NEW r \in Nat, r \in P
      PROVE  r + 1 \in P
  <2>1. CASE r + 1 <= Len(ss)
    <3>1. PICK k \in Nat : k = Len(ss)
      BY <1>0
    <3>2. r \in Nat /\ r + 1 <= k
      BY <1>3, <2>1, <3>1
    <3>3. r + 1 \in Nat /\ (r + 1 >= k => r + 1 = k)
      BY <3>2
    <3>4. r + 1 \in Nat /\ (r + 1 >= Len(ss) => r + 1 = Len(ss))
      BY <3>1, <3>3
    <3>5. QED
      BY <1>1, <3>4
  <2>2. CASE r + 1 > Len(ss)
    <3>1. r >= Len(ss) /\ r + 1 \notin DOMAIN ss
      BY <1>0, <2>2
    <3>2. PICK a, b : a = Padded(ss, r) /\ b = Padded(ss, r + 1)
      OBVIOUS
    <3>3. /\ a \in Seq(Blocks) /\ Len(a) = r /\ b \in Seq(Blocks) /\ Len(b) = r + 1
      BY <3>2, PaddedType
    <3>4. << >> \in Blocks
      BY EmptySeq DEF Blocks
    <3>5. /\ Append(a, << >>) \in Seq(Blocks) /\ Len(Append(a, << >>)) = r + 1
          /\ \A i \in 1..r : Append(a, << >>)[i] = a[i]
          /\ Append(a, << >>)[r + 1] = << >>
      BY <3>3, <3>4, AppendProperties
    <3>6. \A i \in 1..(r + 1) : i \in 1..r \/ i = r + 1
      OBVIOUS
    <3>7. (\A i \in 1..r : b[i] = a[i]) /\ b[r + 1] = << >>
      BY <3>1, <3>2 DEF Padded
    <3>8. \A i \in 1..(r + 1) : b[i] = Append(a, << >>)[i]
      BY <3>5, <3>6, <3>7
    <3>9. b = Append(a, << >>)
      BY <3>3, <3>5, <3>8, SeqEqual
    <3>10. FlattenSeq(b) = FlattenSeq(a) \o << >> /\ FlattenSeq(a) \in Seq(Block)
      BY <3>3, <3>4, <3>9, FlattenAppend, FlattenType DEF Blocks
    <3>11. FlattenSeq(b) = FlattenSeq(a)
      BY <3>10, ConcatEmptySeq
    <3>12. FlattenSeq(a) = FlattenSeq(ss)
      BY <1>3, <3>1, <3>2
    <3>13. QED
      BY <3>2, <3>11, <3>12
  <2>3. QED
    BY <1>0, <2>1, <2>2
<1> HIDE DEF P
<1>4. Nat \subseteq P
  BY <1>2, <1>3, NatSetInduction
<1>5. QED
  BY <1>4 DEF P

LEMMA RoundsEnough ==
    ASSUME NEW vm \in Seq(Blocks)
    PROVE  /\ Rounds(vm) \in Nat
           /\ \A j \in 1..Len(vm) : Len(Segments(vm[j])) <= Rounds(vm)
<1> DEFINE lens == [j \in 1..Len(vm) |-> Len(Segments(vm[j]))]
           S == {0} \cup {Len(Segments(vm[j])) : j \in DOMAIN vm}
<1>1. Len(vm) \in Nat /\ DOMAIN vm = 1..Len(vm) /\ \A j \in 1..Len(vm) : vm[j] \in Blocks
  BY LenProperties, ElementOfSeq
<1>2. \A j \in 1..Len(vm) : lens[j] \in Nat /\ lens[j] = Len(Segments(vm[j]))
  BY <1>1, SegmentsType
<1>3. S \in SUBSET Nat /\ S # {}
  BY <1>1, <1>2
<1>4. PICK m \in Nat : \A j \in 1..Len(vm) : lens[j] <= m
  <2> HIDE DEF lens
  <2>1. QED
    BY <1>1, <1>2, BoundedNat
<1>5. \A x \in S : x <= m
  BY <1>1, <1>2, <1>4
<1>6. Rounds(vm) = Max(S)
  BY DEF Rounds
<1>7. \A j \in 1..Len(vm) : Len(Segments(vm[j])) \in S
  BY <1>1
<1> HIDE DEF S
<1>8. Max(S) \in S /\ \A x \in S : x <= Max(S)
  BY <1>3, <1>5, MaxIs
<1>9. QED
  BY <1>3, <1>6, <1>7, <1>8

LEMMA SegmentAtType ==
    ASSUME NEW trace \in Blocks, NEW n
    PROVE  /\ SegmentAt(trace, n) \in Blocks
           /\ Range(SegmentAt(trace, n)) \subseteq Range(trace)
<1>1. CASE n \in DOMAIN Segments(trace)
  <2>1. n \in 1..Len(Segments(trace)) /\ SegmentAt(trace, n) = Segments(trace)[n]
    BY <1>1, SegmentsType DEF SegmentAt
  <2>2. Range(Segments(trace)[n]) \subseteq Range(FlattenSeq(Segments(trace)))
    BY <2>1, SegmentsType, FlattenRange
  <2>3. Range(FlattenSeq(Segments(trace))) \subseteq Range(trace)
    BY SegmentsType, AmongType DEF Blocks
  <2>4. QED
    BY <2>1, <2>2, <2>3, SegmentsType
<1>2. CASE n \notin DOMAIN Segments(trace)
  <2>1. SegmentAt(trace, n) = << >>
    BY <1>2 DEF SegmentAt
  <2>2. QED
    BY <2>1, EmptySeq DEF Blocks, Range
<1>3. QED
  BY <1>1, <1>2

(* The segments of a snapshot, round by round, are its blocks with data. *)
LEMMA InRounds ==
    ASSUME NEW vm \in Seq(Blocks), NEW j \in 1..Len(vm), NEW ss,
           ss = [n \in 1..Rounds(vm) |-> SegmentAt(vm[j], n)]
    PROVE  /\ ss \in Seq(Blocks) /\ Len(ss) = Rounds(vm)
           /\ FlattenSeq(ss) = Among(vm[j], Data)
<1>1. vm[j] \in Blocks
  BY ElementOfSeq
<1>2. ss = Padded(Segments(vm[j]), Rounds(vm))
  BY DEF Padded, SegmentAt
<1>3. /\ Segments(vm[j]) \in Seq(Blocks) /\ FlattenSeq(Segments(vm[j])) = Among(vm[j], Data)
      /\ Rounds(vm) \in Nat /\ Rounds(vm) >= Len(Segments(vm[j]))
  BY <1>1, SegmentsType, RoundsEnough
<1>4. QED
  BY <1>2, <1>3, PaddedType, PaddedFlatten

-----------------------------------------------------------------------------
(***************************************************************************)
(* Deletions.                                                              *)
(***************************************************************************)

(* Blocks without data have no bytes. *)
LEMMA BytesOfData ==
    ASSUME NEW s \in Blocks, NEW A
    PROVE  BytesOf(Among(s, A)) = BytesOf(Among(s, A \cap Data))
<1> DEFINE P == {r \in Seq(Block) : BytesOf(Among(r, A)) = BytesOf(Among(r, A \cap Data))}
<1>1. << >> \in P
  BY AmongEmpty, EmptySeq
<1>2. ASSUME NEW r \in Seq(Block), NEW e \in Block, r \in P
      PROVE  Append(r, e) \in P
  <2>1. /\ Append(r, e) \in Seq(Block) /\ Size[e] \in Nat
        /\ Among(r, A) \in Seq(Block) /\ Among(r, A \cap Data) \in Seq(Block)
        /\ BytesOf(Among(r, A)) \in Nat /\ BytesOf(Among(r, A \cap Data)) \in Nat
    BY AppendProperties, AmongType, BytesType, TraceAssumption
  <2>2. BytesOf(Append(Among(r, A), e)) = BytesOf(Among(r, A)) + Size[e]
    BY <2>1, BytesOfAppend
  <2>3. BytesOf(Append(Among(r, A \cap Data), e)) = BytesOf(Among(r, A \cap Data)) + Size[e]
    BY <2>1, BytesOfAppend
  <2>4. Among(Append(r, e), A) = IF e \in A THEN Append(Among(r, A), e) ELSE Among(r, A)
    BY AmongAppend
  <2>5. Among(Append(r, e), A \cap Data)
        = IF e \in A \cap Data THEN Append(Among(r, A \cap Data), e) ELSE Among(r, A \cap Data)
    BY AmongAppend
  <2>6. BytesOf(Among(r, A)) = BytesOf(Among(r, A \cap Data))
    BY <1>2
  <2>7. BytesOf(Among(Append(r, e), A)) = BytesOf(Among(Append(r, e), A \cap Data))
    <3>1. CASE e \in A /\ e \in Data
      BY <2>2, <2>3, <2>4, <2>5, <2>6, <3>1
    <3>2. CASE e \in A /\ e \notin Data
      <4>1. Size[e] = 0
        BY <2>1, <3>2 DEF Data
      <4>2. QED
        BY <2>1, <2>2, <2>4, <2>5, <2>6, <3>2, <4>1
    <3>3. CASE e \notin A
      BY <2>4, <2>5, <2>6, <3>3
    <3>4. QED
      BY <3>1, <3>2, <3>3
  <2>8. QED
    BY <2>1, <2>7
<1> HIDE DEF P
<1>3. Seq(Block) \subseteq P
  BY <1>1, <1>2, SeqSetInduction
<1>4. QED
  BY <1>3 DEF P, Blocks

(* The blocks whose positions no snapshot up to j has set. *)
Freed(vm, j, cds) == {b \in Block \ cds : ~InFilter(vm, j, b)}

LEMMA FreedAreNotOld ==
    ASSUME NEW vm, NEW j, NEW cds, NEW k \in 1..j
    PROVE  Freed(vm, j, cds) \cap Range(vm[k]) = {}
BY DEF Freed, InFilter

(* A block of a segment that the filter does not have is new there: the parent's segment at
   the same place is part of the snapshot whose blocks the filter has. *)
LEMMA FreedIsNew ==
    ASSUME NEW vm \in Seq(Blocks), NEW j \in Nat \ {0}, j + 1 <= Len(vm), NEW cds, NEW n,
           NEW seg, seg = SegmentAt(vm[j + 1], n)
    PROVE  /\ new_data(vm, j + 1, n, cds) \in Blocks
           /\ BytesOf(Among(seg, Freed(vm, j, cds))) <= BytesOf(new_data(vm, j + 1, n, cds))
<1> DEFINE F == Freed(vm, j, cds)
<1>1. PICK p : p = SegmentAt(vm[j], n)
  OBVIOUS
<1>2. /\ j \in 1..Len(vm) /\ j + 1 \in 1..Len(vm) /\ j + 1 > 1 /\ (j + 1) - 1 = j /\ j \in 1..j
  BY LenProperties
<1>3. /\ vm[j] \in Blocks /\ vm[j + 1] \in Blocks
  BY <1>2, ElementOfSeq
<1>4. /\ seg \in Blocks /\ p \in Blocks /\ Range(p) \subseteq Range(vm[j])
  BY <1>1, <1>3, SegmentAtType
<1>5. F \cap Range(p) = {} /\ F \subseteq Block \ cds
  <2>1. F \cap Range(vm[j]) = {}
    BY <1>2, FreedAreNotOld
  <2>2. QED
    BY <1>4, <2>1 DEF Freed
<1> HIDE DEF F
<1>6. CASE seg = p
  <2>1. Among(seg, F) = << >>
    <3>1. Range(seg) \cap F = Range(seg) \cap {}
      BY <1>5, <1>6
    <3>2. Among(seg, F) = Among(seg, {})
      BY <1>4, <3>1, AmongSame DEF Blocks
    <3>3. QED
      BY <1>4, <3>2, AmongNone DEF Blocks
  <2>2. AfterL1(vm, j + 1, n) = << >>
    BY <1>1, <1>2, <1>6 DEF AfterL1, L1Hit
  <2>3. new_data(vm, j + 1, n, cds) = << >>
    BY <2>2, AmongEmpty DEF new_data, AfterL2
  <2>4. << >> \in Blocks
    BY EmptySeq DEF Blocks
  <2>5. 0 <= 0
    OBVIOUS
  <2>6. Among(seg, Freed(vm, j, cds)) = << >>
    BY <2>1 DEF F
  <2>7. QED
    BY <2>3, <2>4, <2>5, <2>6, BytesOfEmpty
<1>7. CASE seg # p
  <2>1. AfterL1(vm, j + 1, n) = seg /\ InParent(vm, j + 1, n) = Range(p)
    BY <1>1, <1>2, <1>7 DEF AfterL1, L1Hit, InParent
  <2>2. new_data(vm, j + 1, n, cds) = Among(Among(seg, Block \ Range(p)), Block \ cds)
    BY <2>1 DEF new_data, AfterL2
  <2>3. PICK N : N = (Block \ Range(p)) \cap (Block \ cds)
    OBVIOUS
  <2>4. new_data(vm, j + 1, n, cds) = Among(seg, N)
    BY <1>4, <2>2, <2>3, AmongAmong DEF Blocks
  <2>5. F \subseteq N
    BY <1>5, <2>3
  <2>6. QED
    BY <1>4, <2>4, <2>5, AmongFewer, AmongType DEF Blocks, F
<1>8. QED
  BY <1>6, <1>7

(* What a deletion frees is no more than what the snapshot brought. *)
LEMMA FreedIsBrought ==
    ASSUME NEW vm \in Seq(Blocks), NEW j \in Nat \ {0}, j + 1 <= Len(vm), NEW cds
    PROVE  BytesOf(DelData(vm, j, cds)) <= BytesOf(NewData(vm, j + 1, cds))
<1> DEFINE F == Freed(vm, j, cds)
           R == Rounds(vm)
           ss == [n \in 1..R |-> SegmentAt(vm[j + 1], n)]
           ff == [n \in 1..R |-> Among(SegmentAt(vm[j + 1], n), F)]
           nn == [n \in 1..R |-> new_data(vm, j + 1, n, cds)]
<1>1. j + 1 \in 1..Len(vm) /\ vm[j + 1] \in Blocks
  BY LenProperties, ElementOfSeq
<1>2. /\ DelData(vm, j, cds) = Among(vm[j + 1], F)
      /\ NewData(vm, j + 1, cds) = FlattenSeq(nn)
  BY DEF DelData, NewData, OfSnapshot, Freed
<1>3. ss \in Seq(Blocks) /\ Len(ss) = R /\ FlattenSeq(ss) = Among(vm[j + 1], Data)
  BY <1>1, InRounds
<1>4. R \in Nat
  BY RoundsEnough
<1>5. ff \in Seq(Blocks) /\ Len(ff) = R
  <2>1. PICK f : f = ff
    OBVIOUS
  <2>2. \A n \in 1..R : f[n] \in Blocks
    BY <1>1, <2>1, SegmentAtType, AmongType DEF Blocks
  <2>3. f = [n \in 1..R |-> f[n]]
    BY <2>1
  <2> HIDE DEF ff
  <2>4. QED
    BY <1>4, <2>1, <2>2, <2>3, FunctionIsSeq
<1>6. nn \in Seq(Blocks) /\ Len(nn) = R
  <2>1. PICK f : f = nn
    OBVIOUS
  <2>2. \A n \in 1..R : f[n] \in Blocks
    BY <2>1, FreedIsNew
  <2>3. f = [n \in 1..R |-> f[n]]
    BY <2>1
  <2> HIDE DEF nn
  <2>4. QED
    BY <1>4, <2>1, <2>2, <2>3, FunctionIsSeq
<1>7. AmongEach(ss, ff, F)
  <2>1. \A i \in 1..R : ff[i] = Among(ss[i], F)
    OBVIOUS
  <2> HIDE DEF ff, ss
  <2>2. QED
    BY <1>3, <1>5, <2>1 DEF AmongEach
<1>8. FewerEach(nn, ff)
  <2>1. \A i \in 1..R : BytesOf(ff[i]) <= BytesOf(nn[i])
    BY FreedIsNew
  <2> HIDE DEF ff, nn
  <2>2. QED
    BY <1>5, <1>6, <2>1 DEF FewerEach
<1> HIDE DEF ss, ff, nn, F, R
<1>9. FlattenSeq(ff) = Among(Among(vm[j + 1], Data), F)
  BY <1>3, <1>5, <1>7, AmongFlatten DEF Blocks
<1>10. BytesOf(FlattenSeq(ff)) <= BytesOf(FlattenSeq(nn))
  BY <1>5, <1>6, <1>8, FlattenFewer DEF Blocks
<1>11. BytesOf(FlattenSeq(ff)) = BytesOf(Among(vm[j + 1], F))
  <2>1. Data \cap F = F \cap Data
    OBVIOUS
  <2>2. FlattenSeq(ff) = Among(vm[j + 1], F \cap Data)
    BY <1>1, <1>9, <2>1, AmongAmong DEF Blocks
  <2>3. QED
    BY <1>1, <2>2, BytesOfData
<1>12. QED
  BY <1>2, <1>10, <1>11

(* The traces of the VMs are never empty lists: the scanner adds to the last one only. *)
THEOREM TracesAreTraces == Spec => []VmsOK
<1>1. Init => VmsOK
  BY VmsInit
<1>2. VmsOK /\ [Next]_vms => VmsOK'
  BY VmsNext
<1>3. QED
  BY <1>1, <1>2, PTL DEF Spec

LEMMA VmsType ==
    ASSUME VmsOK
    PROVE  \A vm \in Range(vms) : vm \in Seq(Blocks) /\ vm # << >>
BY ElementOfSeq, LenProperties DEF VmsOK, Vm, Range

LEMMA VmsDeletionSafe == VmsOK => DeletionSafe
<1> SUFFICES ASSUME VmsOK, NEW vm \in Range(vms), NEW cds \in CdsSets,
                    NEW j \in 1..(Len(vm) - 1)
             PROVE  /\ \A k \in 1..j : Range(DelData(vm, j, cds)) \cap Range(vm[k]) = {}
                    /\ BytesOf(DelData(vm, j, cds)) <= BytesOf(NewData(vm, j + 1, cds))
                    /\ BytesOf(IdDelData(vm, j, cds)) <= BytesOf(IdNewData(vm, j + 1, cds))
  BY DEF DeletionSafe
<1>1. vm \in Seq(Blocks)
  BY VmsType
<1>2. j \in Nat \ {0} /\ j + 1 <= Len(vm) /\ vm[j + 1] \in Blocks
  BY <1>1, LenProperties, ElementOfSeq
<1>3. BytesOf(DelData(vm, j, cds)) <= BytesOf(NewData(vm, j + 1, cds))
  BY <1>1, <1>2, FreedIsBrought
<1>4. Range(DelData(vm, j, cds)) \subseteq Freed(vm, j, cds)
  BY <1>2, AmongType DEF DelData, Freed, Blocks
<1>5. \A k \in 1..j : Range(DelData(vm, j, cds)) \cap Range(vm[k]) = {}
  BY <1>4, FreedAreNotOld
<1>6. QED
  BY <1>3, <1>5 DEF IdDelData, IdNewData

(* Deleting a snapshot frees no block that an older snapshot has, and never more bytes than
   the snapshot brought: fp_del_sim and id_del_sim, whatever the traces and the CDS. *)
THEOREM DeletionsAreSafe == Spec => []DeletionSafe
<1>1. VmsOK => DeletionSafe
  BY VmsDeletionSafe
<1>2. QED
  BY <1>1, TracesAreTraces, PTL

-----------------------------------------------------------------------------
(***************************************************************************)
(* Sums.  SumFunctionOnSet adds in the order that CHOOSE gives: whatever   *)
(* that is, an element more adds what it counts.                           *)
(***************************************************************************)
Chosen(s) == CHOOSE x \in s : TRUE

IsSum(g, fun, sets) ==
    g = [s \in sets |-> IF s = {} THEN 0 ELSE fun[Chosen(s)] + g[s \ {Chosen(s)}]]

LEMMA ChosenIs ==
    ASSUME NEW s, s # {}
    PROVE  Chosen(s) \in s
BY DEF Chosen

(* The sets of S that have n elements or less. *)
UpToSize(S, n) == {s \in SUBSET S : Cardinality(s) <= n}

LEMMA SmallerSet ==
    ASSUME NEW S, IsFiniteSet(S), NEW n \in Nat, NEW s \in UpToSize(S, n + 1), NEW x \in s
    PROVE  s \ {x} \in UpToSize(S, n)
<1>1. s \in SUBSET S /\ IsFiniteSet(s) /\ Cardinality(s) <= n + 1
  BY FS_Subset DEF UpToSize
<1>2. Cardinality(s) \in Nat /\ Cardinality(s \ {x}) = Cardinality(s) - 1
  BY <1>1, FS_CardinalityType, FS_RemoveElement
<1>3. Cardinality(s \ {x}) <= n
  BY <1>1, <1>2
<1>4. QED
  BY <1>1, <1>3 DEF UpToSize

LEMMA NotEmpty ==
    ASSUME NEW T, NEW n \in Nat, Cardinality(T) = n + 1
    PROVE  T # {}
<1>1. Cardinality({}) = 0
  BY FS_EmptySet
<1>2. n + 1 # 0
  OBVIOUS
<1>3. QED
  BY <1>1, <1>2

LEMMA SumExists ==
    ASSUME NEW S, IsFiniteSet(S), NEW fun
    PROVE  \E g : IsSum(g, fun, SUBSET S)
<1> DEFINE P == {n \in Nat : \E g : IsSum(g, fun, UpToSize(S, n))}
           Card(s) == Cardinality(s)
<1>0. \A s \in SUBSET S : IsFiniteSet(s) /\ Cardinality(s) \in Nat
  BY FS_Subset, FS_CardinalityType
<1>1. 0 \in P
  <2>1. \A s \in UpToSize(S, 0) : s = {}
    BY <1>0, FS_EmptySet DEF UpToSize
  <2>2. IsSum([s \in UpToSize(S, 0) |-> 0], fun, UpToSize(S, 0))
    BY <2>1 DEF IsSum
  <2>3. QED
    BY <2>2
<1>2. ASSUME NEW n \in Nat, n \in P
      PROVE  n + 1 \in P
  <2>1. PICK g : IsSum(g, fun, UpToSize(S, n))
    BY <1>2
  <2>2. UpToSize(S, n) \subseteq UpToSize(S, n + 1)
    BY <1>0 DEF UpToSize
  <2>3. PICK h : h = [s \in UpToSize(S, n + 1) |->
                         IF s = {} THEN 0 ELSE fun[Chosen(s)] + g[s \ {Chosen(s)}]]
    OBVIOUS
  <2>4. \A s \in UpToSize(S, n) :
            g[s] = IF s = {} THEN 0 ELSE fun[Chosen(s)] + g[s \ {Chosen(s)}]
    BY <2>1 DEF IsSum
  <2>5. \A s \in UpToSize(S, n) : h[s] = g[s]
    BY <2>2, <2>3, <2>4
  <2>6. \A s \in UpToSize(S, n + 1) : s # {} => s \ {Chosen(s)} \in UpToSize(S, n)
    BY ChosenIs, SmallerSet
  <2>7. \A s \in UpToSize(S, n + 1) :
            h[s] = IF s = {} THEN 0 ELSE fun[Chosen(s)] + h[s \ {Chosen(s)}]
    BY <2>3, <2>5, <2>6
  <2>8. h = [s \in UpToSize(S, n + 1) |-> h[s]]
    BY <2>3
  <2>9. IsSum(h, fun, UpToSize(S, n + 1))
    BY <2>7, <2>8 DEF IsSum
  <2>10. QED
    BY <2>9
<1> HIDE DEF P
<1>3. Nat \subseteq P
  BY <1>1, <1>2, NatSetInduction
<1>4. Cardinality(S) \in Nat /\ SUBSET S = UpToSize(S, Cardinality(S))
  BY FS_Subset, FS_CardinalityType DEF UpToSize
<1>5. \E g : IsSum(g, fun, UpToSize(S, Cardinality(S)))
  BY <1>3, <1>4 DEF P
<1>6. QED
  BY <1>4, <1>5

LEMMA SumIs ==
    ASSUME NEW S, IsFiniteSet(S), NEW fun
    PROVE  \E g : IsSum(g, fun, SUBSET S) /\ SumFunctionOnSet(fun, S) = g[S]
<1>1. SumFunctionOnSet(fun, S) = (CHOOSE g : IsSum(g, fun, SUBSET S))[S]
  BY DEF SumFunctionOnSet, FoldFunctionOnSet, MapThenFoldSet, IsSum, Chosen
<1>2. QED
  BY <1>1, SumExists

LEMMA SumAt ==
    ASSUME NEW g, NEW fun, NEW S, IsSum(g, fun, SUBSET S), NEW s \in SUBSET S
    PROVE  g[s] = IF s = {} THEN 0 ELSE fun[Chosen(s)] + g[s \ {Chosen(s)}]
BY DEF IsSum

LEMMA SumIsNat ==
    ASSUME NEW S, IsFiniteSet(S), NEW fun, \A x \in S : fun[x] \in Nat,
           NEW g, IsSum(g, fun, SUBSET S)
    PROVE  \A T \in SUBSET S : g[T] \in Nat
<1> DEFINE P == {n \in Nat : \A T \in SUBSET S : Cardinality(T) = n => g[T] \in Nat}
<1>0. \A T \in SUBSET S : IsFiniteSet(T) /\ Cardinality(T) \in Nat
  BY FS_Subset, FS_CardinalityType
<1>1. 0 \in P
  <2>1. \A T \in SUBSET S : Cardinality(T) = 0 => T = {}
    BY <1>0, FS_EmptySet
  <2>2. g[{}] = 0
    BY SumAt
  <2>3. \A T \in SUBSET S : Cardinality(T) = 0 => g[T] \in Nat
    <3>1. 0 \in Nat
      OBVIOUS
    <3>2. QED
      BY <2>1, <2>2, <3>1, Zenon
  <2>4. QED
    BY <2>3
<1>2. ASSUME NEW n \in Nat, n \in P
      PROVE  n + 1 \in P
  <2>1. ASSUME NEW T \in SUBSET S, Cardinality(T) = n + 1
        PROVE  g[T] \in Nat
    <3>1. T # {}
      BY <2>1, NotEmpty
    <3>2. PICK c \in T : c = Chosen(T)
      BY <3>1, ChosenIs
    <3>3. g[T] = fun[c] + g[T \ {c}]
      BY <3>1, <3>2, SumAt
    <3>4. Cardinality(T \ {c}) = Cardinality(T) - 1
      BY <1>0, FS_RemoveElement
    <3>5. Cardinality(T \ {c}) = n
      BY <2>1, <3>4
    <3>6. g[T \ {c}] \in Nat
      BY <1>2, <3>5
    <3>7. QED
      BY <3>3, <3>6
  <2>2. QED
    BY <2>1
<1> HIDE DEF P
<1>3. Nat \subseteq P
  BY <1>1, <1>2, NatSetInduction
<1>4. QED
  BY <1>0, <1>3 DEF P

LEMMA SumAny ==
    ASSUME NEW S, IsFiniteSet(S), NEW fun, \A x \in S : fun[x] \in Nat,
           NEW g, IsSum(g, fun, SUBSET S)
    PROVE  \A T \in SUBSET S : \A e \in T : g[T] = fun[e] + g[T \ {e}]
<1> DEFINE P == {n \in Nat : \A T \in SUBSET S : Cardinality(T) = n =>
                                \A e \in T : g[T] = fun[e] + g[T \ {e}]}
<1>0. \A T \in SUBSET S : IsFiniteSet(T) /\ Cardinality(T) \in Nat
  BY FS_Subset, FS_CardinalityType
<1>1. 0 \in P
  <2>1. \A T \in SUBSET S : Cardinality(T) = 0 => T = {}
    BY <1>0, FS_EmptySet
  <2>2. QED
    BY <2>1
<1>2. ASSUME NEW n \in Nat, n \in P
      PROVE  n + 1 \in P
  <2>1. ASSUME NEW T \in SUBSET S, Cardinality(T) = n + 1, NEW e \in T
        PROVE  g[T] = fun[e] + g[T \ {e}]
    <3>1. PICK c \in T : c = Chosen(T)
      BY ChosenIs
    <3>2. g[T] = fun[c] + g[T \ {c}]
      BY <3>1, SumAt
    <3>3. CASE c = e
      BY <3>2, <3>3
    <3>4. CASE c # e
      <4>1. Cardinality(T \ {c}) = n /\ Cardinality(T \ {e}) = n
        <5>1. /\ Cardinality(T \ {c}) = Cardinality(T) - 1
              /\ Cardinality(T \ {e}) = Cardinality(T) - 1
          BY <1>0, FS_RemoveElement
        <5>2. QED
          BY <2>1, <5>1
      <4>2. PICK U \in SUBSET S : U = T \ {c, e}
        OBVIOUS
      <4>3. (T \ {c}) \ {e} = U /\ (T \ {e}) \ {c} = U
        BY <4>2
      <4>4. g[T \ {c}] = fun[e] + g[U]
        BY <1>2, <3>4, <4>1, <4>3
      <4>5. g[T \ {e}] = fun[c] + g[U]
        BY <1>2, <3>4, <4>1, <4>3
      <4>6. fun[c] \in Nat /\ fun[e] \in Nat /\ g[U] \in Nat
        BY SumIsNat
      <4>7. QED
        BY <3>2, <4>4, <4>5, <4>6
    <3>5. QED
      BY <3>3, <3>4
  <2>2. QED
    BY <2>1
<1> HIDE DEF P
<1>3. Nat \subseteq P
  BY <1>1, <1>2, NatSetInduction
<1>4. QED
  BY <1>0, <1>3 DEF P

LEMMA SumAgrees ==
    ASSUME NEW T, IsFiniteSet(T), NEW f, NEW h, \A x \in T : f[x] = h[x],
           NEW A, T \subseteq A,
           NEW g, IsSum(g, f, SUBSET A), NEW k, IsSum(k, h, SUBSET T)
    PROVE  g[T] = k[T]
<1> DEFINE P == {n \in Nat : \A U \in SUBSET T : Cardinality(U) = n => g[U] = k[U]}
<1>0. \A U \in SUBSET T : IsFiniteSet(U) /\ Cardinality(U) \in Nat /\ U \in SUBSET A
  BY FS_Subset, FS_CardinalityType
<1>1. 0 \in P
  <2>1. \A U \in SUBSET T : Cardinality(U) = 0 => U = {}
    BY <1>0, FS_EmptySet
  <2>2. g[{}] = 0 /\ k[{}] = 0
    BY SumAt
  <2>3. QED
    BY <2>1, <2>2
<1>2. ASSUME NEW n \in Nat, n \in P
      PROVE  n + 1 \in P
  <2>1. ASSUME NEW U \in SUBSET T, Cardinality(U) = n + 1
        PROVE  g[U] = k[U]
    <3>1. U # {}
      BY <2>1, NotEmpty
    <3>2. PICK c \in U : c = Chosen(U)
      BY <3>1, ChosenIs
    <3>3. g[U] = f[c] + g[U \ {c}]
      <4>1. g[U] = IF U = {} THEN 0 ELSE f[Chosen(U)] + g[U \ {Chosen(U)}]
        BY SumAt, SMTT(60)
      <4>2. QED
        BY <3>1, <3>2, <4>1
    <3>4. k[U] = h[c] + k[U \ {c}]
      <4>1. k[U] = IF U = {} THEN 0 ELSE h[Chosen(U)] + k[U \ {Chosen(U)}]
        BY SumAt, SMTT(60)
      <4>2. QED
        BY <3>1, <3>2, <4>1
    <3>5. Cardinality(U \ {c}) = Cardinality(U) - 1
      BY <1>0, FS_RemoveElement
    <3>6. Cardinality(U \ {c}) = n
      BY <2>1, <3>5
    <3>7. g[U \ {c}] = k[U \ {c}]
      BY <1>2, <3>6
    <3>8. QED
      BY <3>3, <3>4, <3>7
  <2>2. QED
    BY <2>1
<1> HIDE DEF P
<1>3. Nat \subseteq P
  BY <1>1, <1>2, NatSetInduction
<1>4. QED
  BY <1>0, <1>3 DEF P

LEMMA SumEmpty ==
    ASSUME NEW fun
    PROVE  SumFunctionOnSet(fun, {}) = 0
BY SumIs, SumAt, FS_EmptySet

LEMMA SumType ==
    ASSUME NEW S, IsFiniteSet(S), NEW fun, \A x \in S : fun[x] \in Nat
    PROVE  SumFunctionOnSet(fun, S) \in Nat
BY SumIs, SumIsNat

LEMMA SumAdd ==
    ASSUME NEW S, IsFiniteSet(S), NEW e, e \notin S,
           NEW f, \A x \in S \cup {e} : f[x] \in Nat, NEW h, \A x \in S : h[x] = f[x]
    PROVE  SumFunctionOnSet(f, S \cup {e}) = f[e] + SumFunctionOnSet(h, S)
<1>1. PICK U : U = S \cup {e}
  OBVIOUS
<1>2. IsFiniteSet(U)
  BY <1>1, FS_AddElement
<1>3. PICK g : IsSum(g, f, SUBSET U) /\ SumFunctionOnSet(f, U) = g[U]
  BY <1>2, SumIs
<1>4. PICK k : IsSum(k, h, SUBSET S) /\ SumFunctionOnSet(h, S) = k[S]
  BY SumIs
<1>5. U \ {e} = S /\ S \subseteq U /\ e \in U
  BY <1>1
<1>6. g[U] = f[e] + g[S]
  BY <1>1, <1>2, <1>3, <1>5, SumAny
<1>7. g[S] = k[S]
  <2>1. \A x \in S : f[x] = h[x]
    OBVIOUS
  <2>2. IsSum(g, f, SUBSET U) /\ IsSum(k, h, SUBSET S) /\ S \subseteq U
    BY <1>3, <1>4, <1>5
  <2> HIDE <1>3, <1>4
  <2>3. QED
    BY <2>1, <2>2, SumAgrees, SMTT(60)
<1>8. QED
  BY <1>1, <1>3, <1>4, <1>6, <1>7

-----------------------------------------------------------------------------
(***************************************************************************)
(* What the distiller counts, and what it weighs.                          *)
(***************************************************************************)
CountOf(s, e) == Cardinality({n \in DOMAIN s : s[n] = e})

LEMMA CountAppend ==
    ASSUME NEW s \in Seq(Block), NEW x, NEW e, x \in Block
    PROVE  /\ CountOf(s, e) \in Nat
           /\ CountOf(Append(s, x), e) = CountOf(s, e) + (IF x = e THEN 1 ELSE 0)
<1> DEFINE N == {n \in DOMAIN s : s[n] = e}
           t == Append(s, x)
           M == {n \in DOMAIN t : t[n] = e}
<1>1. PICK k \in Nat : k = Len(s)
  BY LenProperties
<1>2. /\ DOMAIN s = 1..k /\ t \in Seq(Block) /\ Len(t) = k + 1 /\ t[k + 1] = x
      /\ \A i \in 1..k : t[i] = s[i]
  BY <1>1, LenProperties, AppendProperties
<1>3. DOMAIN t = 1..(k + 1)
  BY <1>2, LenProperties
<1> HIDE DEF t
<1>4. k + 1 \notin 1..k /\ \A i : i \in 1..(k + 1) <=> i \in 1..k \/ i = k + 1
  OBVIOUS
<1>5. M = IF x = e THEN N \cup {k + 1} ELSE N
  BY <1>2, <1>3, <1>4
<1>6. IsFiniteSet(N) /\ k + 1 \notin N
  <2>1. IsFiniteSet(1..k)
    BY FS_Interval
  <2>2. N \in SUBSET (1..k)
    BY <1>2
  <2>3. QED
    BY <1>4, <2>1, <2>2, FS_Subset
<1> HIDE DEF N, M
<1>7. Cardinality(N) \in Nat /\ Cardinality(N \cup {k + 1}) = Cardinality(N) + 1
  BY <1>6, FS_CardinalityType, FS_AddElement
<1>8. Cardinality(M) = Cardinality(N) + (IF x = e THEN 1 ELSE 0)
  <2>1. CASE x = e
    BY <1>5, <1>7, <2>1
  <2>2. CASE x # e
    BY <1>5, <1>7, <2>2
  <2>3. QED
    BY <2>1, <2>2
<1>9. QED
  BY <1>7, <1>8 DEF CountOf, N, M, t

LEMMA CountEmpty ==
    ASSUME NEW e
    PROVE  CountOf(<< >>, e) = 0
<1>1. {n \in DOMAIN << >> : << >>[n] = e} = {}
  BY EmptySeq
<1>2. QED
  BY <1>1, FS_EmptySet DEF CountOf

LEMMA OneMore ==
    ASSUME NEW a \in Nat, NEW b \in Nat
    PROVE  /\ (a + 1) * b = a * b + b /\ (a + 0) * b = a * b
           /\ a * b \in Nat /\ 0 * b = 0
OBVIOUS

(* The bytes of the copies of one block. *)
LEMMA BytesOfOne ==
    ASSUME NEW s \in Seq(Block), NEW e \in Block
    PROVE  BytesOf(Among(s, {e})) = CountOf(s, e) * Size[e]
<1> DEFINE P == {r \in Seq(Block) : BytesOf(Among(r, {e})) = CountOf(r, e) * Size[e]}
<1>0. Size[e] \in Nat
  BY TraceAssumption
<1>1. << >> \in P
  BY <1>0, AmongEmpty, BytesOfEmpty, CountEmpty, EmptySeq, OneMore
<1>2. ASSUME NEW r \in Seq(Block), NEW x \in Block, r \in P
      PROVE  Append(r, x) \in P
  <2>1. Append(r, x) \in Seq(Block) /\ Among(r, {e}) \in Seq(Block)
    BY AppendProperties, AmongType
  <2>2. PICK a \in Nat : a = CountOf(r, e)
    BY CountAppend
  <2>3. BytesOf(Among(r, {e})) = a * Size[e]
    BY <1>2, <2>2
  <2>4. CASE x = e
    <3>1. Among(Append(r, x), {e}) = Append(Among(r, {e}), e)
      BY <2>4, AmongAppend
    <3>2. BytesOf(Append(Among(r, {e}), e)) = a * Size[e] + Size[e]
      BY <2>1, <2>3, BytesOfAppend
    <3>3. CountOf(Append(r, x), e) = a + 1
      BY <2>2, <2>4, CountAppend
    <3>4. QED
      BY <1>0, <2>1, <3>1, <3>2, <3>3, OneMore
  <2>5. CASE x # e
    <3>1. Among(Append(r, x), {e}) = Among(r, {e})
      BY <2>5, AmongAppend
    <3>2. CountOf(Append(r, x), e) = a + 0
      BY <2>2, <2>5, CountAppend
    <3>3. QED
      BY <1>0, <2>1, <2>3, <3>1, <3>2, OneMore
  <2>6. QED
    BY <2>4, <2>5
<1> HIDE DEF P
<1>3. Seq(Block) \subseteq P
  BY <1>1, <1>2, SeqSetInduction
<1>4. QED
  BY <1>3 DEF P

LEMMA BytesSplit ==
    ASSUME NEW s \in Seq(Block), NEW A, NEW B, A \cap B = {}
    PROVE  BytesOf(Among(s, A \cup B)) = BytesOf(Among(s, A)) + BytesOf(Among(s, B))
<1> DEFINE C == A \cup B
           P == {r \in Seq(Block) :
                    BytesOf(Among(r, C)) = BytesOf(Among(r, A)) + BytesOf(Among(r, B))}
<1>1. << >> \in P
  BY AmongEmpty, BytesOfEmpty, EmptySeq
<1>2. ASSUME NEW r \in Seq(Block), NEW e \in Block, r \in P
      PROVE  Append(r, e) \in P
  <2>0. /\ Append(r, e) \in Seq(Block)
        /\ Among(r, A) \in Seq(Block) /\ Among(r, B) \in Seq(Block) /\ Among(r, C) \in Seq(Block)
    BY AppendProperties, AmongType
  <2>1. PICK a, b, c : a = Among(r, A) /\ b = Among(r, B) /\ c = Among(r, C)
    OBVIOUS
  <2>2. /\ BytesOf(a) \in Nat /\ BytesOf(b) \in Nat /\ BytesOf(c) \in Nat /\ Size[e] \in Nat
        /\ BytesOf(Append(a, e)) = BytesOf(a) + Size[e]
        /\ BytesOf(Append(b, e)) = BytesOf(b) + Size[e]
        /\ BytesOf(Append(c, e)) = BytesOf(c) + Size[e]
    BY <2>0, <2>1, BytesOfAppend, BytesType, TraceAssumption
  <2>3. /\ Among(Append(r, e), A) = IF e \in A THEN Append(a, e) ELSE a
        /\ Among(Append(r, e), B) = IF e \in B THEN Append(b, e) ELSE b
        /\ Among(Append(r, e), C) = IF e \in C THEN Append(c, e) ELSE c
    BY <2>1, AmongAppend
  <2>4. BytesOf(c) = BytesOf(a) + BytesOf(b)
    BY <1>2, <2>1
  <2>5. e \in C <=> e \in A \/ e \in B
    OBVIOUS
  <2> HIDE DEF C
  <2>6. BytesOf(Among(Append(r, e), C))
        = BytesOf(Among(Append(r, e), A)) + BytesOf(Among(Append(r, e), B))
    <3>1. CASE e \in A
      <4>1. e \notin B /\ e \in C
        BY <2>5, <3>1
      <4>2. QED
        BY <2>2, <2>3, <2>4, <3>1, <4>1
    <3>2. CASE e \in B
      <4>1. e \notin A /\ e \in C
        BY <2>5, <3>2
      <4>2. QED
        BY <2>2, <2>3, <2>4, <3>2, <4>1
    <3>3. CASE e \notin A /\ e \notin B
      BY <2>2, <2>3, <2>4, <2>5, <3>3
    <3>4. QED
      BY <3>1, <3>2, <3>3
  <2>7. QED
    BY <2>0, <2>6
<1> HIDE DEF P
<1>3. Seq(Block) \subseteq P
  BY <1>1, <1>2, SeqSetInduction
<1>4. QED
  BY <1>3 DEF P

LEMMA RangeFinite ==
    ASSUME NEW s \in Seq(Block)
    PROVE  IsFiniteSet(Range(s))
<1> DEFINE P == {r \in Seq(Block) : IsFiniteSet(Range(r))}
<1>1. << >> \in P
  <2>1. Range(<< >>) = {}
    BY EmptySeq DEF Range
  <2>2. QED
    BY <2>1, EmptySeq, FS_EmptySet
<1>2. \A r \in Seq(Block) : \A e \in Block : r \in P => Append(r, e) \in P
  BY RangeAppend, AppendProperties, FS_AddElement
<1> HIDE DEF P
<1>3. Seq(Block) \subseteq P
  BY <1>1, <1>2, SeqSetInduction
<1>4. QED
  BY <1>3 DEF P

LEMMA WeightAdd ==
    ASSUME NEW global, NEW S, IsFiniteSet(S), NEW e, e \notin S, S \cup {e} \subseteq Block,
           \A b \in S \cup {e} : global[b] \in Nat
    PROVE  Weight(global, S \cup {e}) = global[e] * Size[e] + Weight(global, S)
<1> DEFINE U == S \cup {e}
           f == [b \in U |-> global[b] * Size[b]]
           h == [b \in S |-> global[b] * Size[b]]
<1>1. \A b \in U : Size[b] \in Nat /\ global[b] \in Nat
  BY TraceAssumption
<1>2. \A b \in U : f[b] \in Nat
  BY <1>1, OneMore
<1>3. (\A b \in S : h[b] = f[b]) /\ f[e] = global[e] * Size[e]
  OBVIOUS
<1> HIDE DEF f, h
<1>4. SumFunctionOnSet(f, U) = f[e] + SumFunctionOnSet(h, S)
  BY <1>2, <1>3, SumAdd
<1>5. QED
  BY <1>3, <1>4 DEF Weight, f, h

LEMMA WeightEmpty ==
    ASSUME NEW global
    PROVE  Weight(global, {}) = 0
BY SumEmpty DEF Weight

(* GlobalIndex counts the copies: some of its blocks weigh what their copies have in bytes. *)
LEMMA WeightCounted ==
    ASSUME NEW s \in Seq(Block)
    PROVE  \A S \in SUBSET Range(s) : Weight(GlobalIndex(s), S) = BytesOf(Among(s, S))
<1> DEFINE R == Range(s)
           g == GlobalIndex(s)
           P == {S \in SUBSET R : Weight(g, S) = BytesOf(Among(s, S))}
<1>0. /\ R \subseteq Block /\ IsFiniteSet(R)
      /\ \A b \in R : g[b] = CountOf(s, b) /\ g[b] \in Nat
  <2>1. R \subseteq Block
    BY ElementOfSeq, LenProperties DEF Range
  <2>2. \A b \in R : g[b] = CountOf(s, b)
    BY DEF GlobalIndex, CountOf
  <2>3. QED
    BY <2>1, <2>2, CountAppend, RangeFinite
<1>1. {} \in P
  BY WeightEmpty, AmongNone, BytesOfEmpty
<1> HIDE DEF g, R
<1>2. ASSUME NEW S \in SUBSET R, NEW e \in R \ S, S \in P
      PROVE  S \cup {e} \in P
  <2>1. IsFiniteSet(S) /\ e \notin S /\ S \cup {e} \subseteq Block /\ e \in Block
        /\ \A b \in S \cup {e} : g[b] \in Nat
    BY <1>0, FS_Subset
  <2>2. Weight(g, S \cup {e}) = g[e] * Size[e] + Weight(g, S)
    BY <2>1, WeightAdd
  <2>3. S \cap {e} = {}
    BY <2>1
  <2>4. BytesOf(Among(s, S \cup {e})) = BytesOf(Among(s, S)) + BytesOf(Among(s, {e}))
    BY <2>3, BytesSplit
  <2>5. BytesOf(Among(s, {e})) = g[e] * Size[e]
    BY <1>0, <2>1, BytesOfOne
  <2>6. Weight(g, S) = BytesOf(Among(s, S))
    BY <1>2
  <2>7. BytesOf(Among(s, S)) \in Nat /\ BytesOf(Among(s, {e})) \in Nat
    BY AmongType, BytesType
  <2>8. Weight(g, S \cup {e}) = BytesOf(Among(s, S \cup {e}))
    BY <2>2, <2>4, <2>5, <2>6, <2>7
  <2>9. QED
    BY <2>8
<1> HIDE DEF P
<1>3. SUBSET R \subseteq P
  BY <1>0, <1>1, <1>2, SetInduction
<1>4. QED
  BY <1>3 DEF P, R, g

-----------------------------------------------------------------------------
(***************************************************************************)
(* Two programs that read the same traces: what they say of every segment  *)
(* they say of all of them, round by round and VM by VM.                   *)
(***************************************************************************)
AlikeEach(ss, uu, A, B) ==
    Len(ss) = Len(uu) /\ \A i \in 1..Len(ss) : Among(ss[i], A) = Among(uu[i], B)

LEMMA AlikeFlatten ==
    ASSUME NEW ss \in Seq(Blocks), NEW uu \in Seq(Blocks), NEW A, NEW B, AlikeEach(ss, uu, A, B)
    PROVE  Among(FlattenSeq(ss), A) = Among(FlattenSeq(uu), B)
<1>1. PICK k \in Nat : k = Len(ss) /\ k = Len(uu)
  BY LenProperties DEF AlikeEach
<1>2. PICK tt : tt = [i \in 1..k |-> Among(ss[i], A)]
  OBVIOUS
<1>3. \A i \in 1..k : tt[i] = Among(ss[i], A) /\ tt[i] = Among(uu[i], B)
  BY <1>1, <1>2 DEF AlikeEach
<1>4. \A i \in 1..k : ss[i] \in Seq(Block)
  BY <1>1, ElementOfSeq DEF Blocks
<1>5. \A i \in 1..k : tt[i] \in Seq(Block)
  BY <1>3, <1>4, AmongType
<1>6. tt \in Seq(Seq(Block)) /\ Len(tt) = k
  <2>1. tt = [i \in 1..k |-> tt[i]]
    BY <1>2
  <2>2. QED
    BY <1>5, <2>1, FunctionIsSeq
<1>7. AmongEach(ss, tt, A) /\ AmongEach(uu, tt, B)
  BY <1>1, <1>3, <1>6 DEF AmongEach
<1>8. FlattenSeq(tt) = Among(FlattenSeq(ss), A)
  BY <1>6, <1>7, AmongFlatten DEF Blocks
<1>9. FlattenSeq(tt) = Among(FlattenSeq(uu), B)
  BY <1>6, <1>7, AmongFlatten DEF Blocks
<1>10. QED
  BY <1>8, <1>9

(* A function whose values are segments is a sequence of segments. *)
LEMMA BlocksFunction ==
    ASSUME NEW k \in Nat, NEW f, f = [i \in 1..k |-> f[i]], \A i \in 1..k : f[i] \in Blocks
    PROVE  f \in Seq(Blocks) /\ Len(f) = k /\ FlattenSeq(f) \in Blocks
BY FunctionIsSeq, FlattenType DEF Blocks

(* A table of segments, a row for each round. *)
IsTable(f, R, L) ==
    /\ f = [n \in 1..R |-> f[n]]
    /\ \A n \in 1..R : f[n] = [j \in 1..L |-> f[n][j]]
    /\ \A n \in 1..R, j \in 1..L : f[n][j] \in Blocks

LEMMA TableType ==
    ASSUME NEW R \in Nat, NEW L \in Nat, NEW f, IsTable(f, R, L),
           NEW u, u = [n \in 1..R |-> FlattenSeq(f[n])]
    PROVE  /\ \A n \in 1..R : f[n] \in Seq(Blocks) /\ Len(f[n]) = L /\ u[n] \in Blocks
           /\ u \in Seq(Blocks) /\ Len(u) = R /\ FlattenSeq(u) \in Blocks
<1>1. ASSUME NEW n \in 1..R
      PROVE  f[n] \in Seq(Blocks) /\ Len(f[n]) = L /\ u[n] \in Blocks
  <2>1. PICK r : r = f[n]
    OBVIOUS
  <2>2. r = [j \in 1..L |-> r[j]] /\ \A j \in 1..L : r[j] \in Blocks
    BY <2>1 DEF IsTable
  <2>3. r \in Seq(Blocks) /\ Len(r) = L /\ FlattenSeq(r) \in Blocks
    BY <2>2, BlocksFunction
  <2>4. QED
    BY <2>1, <2>3
<1>2. u = [n \in 1..R |-> u[n]]
  OBVIOUS
<1>3. u \in Seq(Blocks) /\ Len(u) = R /\ FlattenSeq(u) \in Blocks
  BY <1>1, <1>2, BlocksFunction
<1>4. QED
  BY <1>1, <1>3

LEMMA TableAlike ==
    ASSUME NEW R \in Nat, NEW L \in Nat, NEW f, IsTable(f, R, L), NEW g, IsTable(g, R, L),
           NEW A, NEW B,
           \A n \in 1..R, j \in 1..L : Among(f[n][j], A) = Among(g[n][j], B),
           NEW u, u = [n \in 1..R |-> FlattenSeq(f[n])],
           NEW w, w = [n \in 1..R |-> FlattenSeq(g[n])]
    PROVE  Among(FlattenSeq(u), A) = Among(FlattenSeq(w), B)
<1>1. /\ \A n \in 1..R : f[n] \in Seq(Blocks) /\ Len(f[n]) = L
      /\ u \in Seq(Blocks) /\ Len(u) = R
  BY TableType
<1>2. /\ \A n \in 1..R : g[n] \in Seq(Blocks) /\ Len(g[n]) = L
      /\ w \in Seq(Blocks) /\ Len(w) = R
  BY TableType
<1>3. ASSUME NEW n \in 1..R
      PROVE  Among(u[n], A) = Among(w[n], B)
  <2>1. PICK a \in Seq(Blocks), b \in Seq(Blocks) : a = f[n] /\ b = g[n]
    BY <1>1, <1>2
  <2>2. AlikeEach(a, b, A, B)
    BY <1>1, <1>2, <2>1 DEF AlikeEach
  <2>3. Among(FlattenSeq(a), A) = Among(FlattenSeq(b), B)
    BY <2>2, AlikeFlatten
  <2>4. QED
    BY <2>1, <2>3
<1>4. AlikeEach(u, w, A, B)
  BY <1>1, <1>2, <1>3 DEF AlikeEach
<1>5. u \in Seq(Blocks) /\ w \in Seq(Blocks)
  BY <1>1, <1>2
<1>6. QED
  BY <1>4, <1>5, AlikeFlatten

-----------------------------------------------------------------------------
(* What the programs take of a segment. *)
LEMMA SegmentParts ==
    ASSUME NEW vm \in Seq(Blocks), NEW j \in 1..Len(vm), NEW n
    PROVE  /\ SegmentAt(vm[j], n) \in Blocks /\ AfterL1(vm, j, n) \in Blocks
           /\ AfterL2(vm, j, n) \in Blocks
           /\ \A cds : l3_data(vm, j, n, cds) \in Blocks
           /\ \A p : NewBlocks(vm, j, n, p) \in Blocks /\ RawBlocks(vm, j, n, p) \in Blocks
<1>1. SegmentAt(vm[j], n) \in Blocks
  BY ElementOfSeq, SegmentAtType
<1>2. << >> \in Blocks
  BY EmptySeq DEF Blocks
<1>3. AfterL1(vm, j, n) \in Blocks
  BY <1>1, <1>2 DEF AfterL1
<1>4. AfterL2(vm, j, n) \in Blocks
  BY <1>3, AmongType DEF AfterL2, Blocks
<1>5. \A cds : l3_data(vm, j, n, cds) \in Blocks
  BY <1>4, AmongType DEF l3_data, Blocks
<1>6. \A p : RawBlocks(vm, j, n, p) \in Blocks
  BY <1>3, AmongType DEF RawBlocks, Blocks
<1>7. ASSUME NEW p
      PROVE  NewBlocks(vm, j, n, p) \in Blocks
  <2>1. CASE L1Hit(vm, j, n)
    BY <1>2, <2>1 DEF NewBlocks
  <2>2. CASE ~L1Hit(vm, j, n)
    BY <1>1, <2>2, AmongType DEF NewBlocks, Blocks
  <2>3. QED
    BY <2>1, <2>2
<1>8. QED
  BY <1>1, <1>3, <1>4, <1>5, <1>6, <1>7

(* What cds_sim finds in the CDS of a segment and what cds_distiller counts of it. *)
LEMMA FoundAsCounted ==
    ASSUME NEW vm \in Seq(Blocks), NEW j \in 1..Len(vm), NEW n, NEW cds, NEW p,
           NEW K, cds \cap InPartition(p) = K
    PROVE  Among(l3_data(vm, j, n, cds), InPartition(p)) = Among(NewBlocks(vm, j, n, p), K)
<1>1. PICK seg \in Blocks : seg = SegmentAt(vm[j], n)
  BY SegmentParts
<1>2. CASE L1Hit(vm, j, n)
  <2>1. l3_data(vm, j, n, cds) = << >>
    BY <1>2, AmongEmpty DEF l3_data, AfterL2, AfterL1
  <2>2. NewBlocks(vm, j, n, p) = << >>
    BY <1>2 DEF NewBlocks
  <2>3. QED
    BY <2>1, <2>2, AmongEmpty
<1>3. CASE ~L1Hit(vm, j, n)
  <2>1. PICK I, Q : I = InParent(vm, j, n) /\ Q = InPartition(p)
    OBVIOUS
  <2>2. l3_data(vm, j, n, cds) = Among(Among(seg, Block \ I), cds)
    BY <1>1, <1>3, <2>1 DEF l3_data, AfterL2, AfterL1
  <2>3. Among(l3_data(vm, j, n, cds), Q) = Among(seg, ((Block \ I) \cap cds) \cap Q)
    <3>1. Among(Among(seg, Block \ I), cds) = Among(seg, (Block \ I) \cap cds)
      BY AmongAmong DEF Blocks
    <3>2. QED
      BY <2>2, <3>1, AmongAmong DEF Blocks
  <2>4. Among(NewBlocks(vm, j, n, p), K) = Among(seg, (Q \ I) \cap K)
    BY <1>1, <1>3, <2>1, AmongAmong DEF NewBlocks, Blocks
  <2>5. ((Block \ I) \cap cds) \cap Q = (Q \ I) \cap K
    BY <2>1 DEF InPartition
  <2>6. QED
    BY <2>1, <2>3, <2>4, <2>5
<1>4. QED
  BY <1>2, <1>3

LEMMA NewInPartition ==
    ASSUME NEW vm \in Seq(Blocks), NEW j \in 1..Len(vm), NEW n, NEW p
    PROVE  Among(NewBlocks(vm, j, n, p), InPartition(p)) = NewBlocks(vm, j, n, p)
<1>1. CASE L1Hit(vm, j, n)
  BY <1>1, AmongEmpty DEF NewBlocks
<1>2. CASE ~L1Hit(vm, j, n)
  <2> DEFINE seg == SegmentAt(vm[j], n)
             I == InParent(vm, j, n)
             Q == InPartition(p)
  <2>1. seg \in Blocks
    BY SegmentParts
  <2>2. NewBlocks(vm, j, n, p) = Among(seg, Q \ I)
    BY <1>2 DEF NewBlocks
  <2> HIDE DEF seg, I, Q
  <2>3. (Q \ I) \cap Q = Q \ I
    OBVIOUS
  <2>4. Among(Among(seg, Q \ I), Q) = Among(seg, Q \ I)
    BY <2>1, <2>3, AmongAmong DEF Blocks
  <2>5. QED
    BY <2>2, <2>4 DEF Q
<1>3. QED
  BY <1>1, <1>2

L3Of(vm, cds) == InAllRounds(vm, LAMBDA j, n : l3_data(vm, j, n, cds))

NewOf(vm, p) == InAllRounds(vm, LAMBDA j, n : NewBlocks(vm, j, n, p))

RawOf(vm, p) == InAllRounds(vm, LAMBDA j, n : RawBlocks(vm, j, n, p))

AfterOf(vm) == InAllRounds(vm, LAMBDA j, n : AfterL1(vm, j, n))

LEMMA VmFoundAsCounted ==
    ASSUME NEW vm \in Seq(Blocks), NEW cds, NEW p, NEW K, cds \cap InPartition(p) = K
    PROVE  /\ L3Of(vm, cds) \in Blocks /\ NewOf(vm, p) \in Blocks
           /\ Among(L3Of(vm, cds), InPartition(p)) = Among(NewOf(vm, p), K)
           /\ Among(NewOf(vm, p), InPartition(p)) = NewOf(vm, p)
<1>1. PICK R \in Nat : R = Rounds(vm)
  BY RoundsEnough
<1>2. PICK L \in Nat : L = Len(vm) /\ DOMAIN vm = 1..L
  BY LenProperties
<1>3. PICK f, g : /\ f = [n \in 1..R |-> [j \in 1..L |-> l3_data(vm, j, n, cds)]]
                  /\ g = [n \in 1..R |-> [j \in 1..L |-> NewBlocks(vm, j, n, p)]]
  OBVIOUS
<1>4. PICK u, w : /\ u = [n \in 1..R |-> FlattenSeq(f[n])]
                  /\ w = [n \in 1..R |-> FlattenSeq(g[n])]
  OBVIOUS
<1>5. u = [n \in 1..R |-> FlattenSeq([j \in 1..L |-> l3_data(vm, j, n, cds)])]
  BY <1>3, <1>4
<1>6. w = [n \in 1..R |-> FlattenSeq([j \in 1..L |-> NewBlocks(vm, j, n, p)])]
  BY <1>3, <1>4
<1>7. L3Of(vm, cds) = FlattenSeq(u) /\ NewOf(vm, p) = FlattenSeq(w)
  BY <1>1, <1>2, <1>5, <1>6 DEF L3Of, NewOf, InAllRounds
<1>8. IsTable(f, R, L) /\ IsTable(g, R, L)
  <2>1. \A n \in 1..R, j \in 1..L : f[n][j] \in Blocks /\ g[n][j] \in Blocks
    BY <1>2, <1>3, SegmentParts
  <2>2. QED
    BY <1>3, <2>1 DEF IsTable
<1>9. \A n \in 1..R, j \in 1..L : Among(f[n][j], InPartition(p)) = Among(g[n][j], K)
  BY <1>2, <1>3, FoundAsCounted
<1>10. FlattenSeq(u) \in Blocks /\ FlattenSeq(w) \in Blocks
  BY <1>4, <1>8, TableType
<1>11. Among(FlattenSeq(u), InPartition(p)) = Among(FlattenSeq(w), K)
  BY <1>4, <1>8, <1>9, TableAlike
<1>12. \A n \in 1..R, j \in 1..L : Among(g[n][j], InPartition(p)) = Among(g[n][j], Block)
  <2>1. \A n \in 1..R, j \in 1..L : Among(g[n][j], Block) = g[n][j]
    BY <1>8, AmongAll DEF IsTable, Blocks
  <2>2. \A n \in 1..R, j \in 1..L : Among(g[n][j], InPartition(p)) = g[n][j]
    BY <1>2, <1>3, NewInPartition
  <2>3. QED
    BY <2>1, <2>2
<1>13. Among(FlattenSeq(w), InPartition(p)) = Among(FlattenSeq(w), Block)
  BY <1>4, <1>8, <1>12, TableAlike
<1>14. QED
  BY <1>7, <1>10, <1>11, <1>13, AmongAll DEF Blocks

LEMMA VmRawAsAfter ==
    ASSUME NEW vm \in Seq(Blocks), NEW p
    PROVE  /\ RawOf(vm, p) \in Blocks /\ AfterOf(vm) \in Blocks
           /\ RawOf(vm, p) = Among(AfterOf(vm), InPartition(p))
<1>1. PICK R \in Nat : R = Rounds(vm)
  BY RoundsEnough
<1>2. PICK L \in Nat : L = Len(vm) /\ DOMAIN vm = 1..L
  BY LenProperties
<1>3. PICK f, g : /\ f = [n \in 1..R |-> [j \in 1..L |-> RawBlocks(vm, j, n, p)]]
                  /\ g = [n \in 1..R |-> [j \in 1..L |-> AfterL1(vm, j, n)]]
  OBVIOUS
<1>4. PICK u, w : /\ u = [n \in 1..R |-> FlattenSeq(f[n])]
                  /\ w = [n \in 1..R |-> FlattenSeq(g[n])]
  OBVIOUS
<1>5. u = [n \in 1..R |-> FlattenSeq([j \in 1..L |-> RawBlocks(vm, j, n, p)])]
  BY <1>3, <1>4
<1>6. w = [n \in 1..R |-> FlattenSeq([j \in 1..L |-> AfterL1(vm, j, n)])]
  BY <1>3, <1>4
<1>7. RawOf(vm, p) = FlattenSeq(u) /\ AfterOf(vm) = FlattenSeq(w)
  BY <1>1, <1>2, <1>5, <1>6 DEF RawOf, AfterOf, InAllRounds
<1>8. IsTable(f, R, L) /\ IsTable(g, R, L)
  <2>1. \A n \in 1..R, j \in 1..L : f[n][j] \in Blocks /\ g[n][j] \in Blocks
    BY <1>2, <1>3, SegmentParts
  <2>2. QED
    BY <1>3, <2>1 DEF IsTable
<1>9. \A n \in 1..R, j \in 1..L : Among(f[n][j], Block) = Among(g[n][j], InPartition(p))
  <2>1. \A n \in 1..R, j \in 1..L : Among(f[n][j], Block) = f[n][j]
    BY <1>8, AmongAll DEF IsTable, Blocks
  <2>2. \A n \in 1..R, j \in 1..L : f[n][j] = Among(g[n][j], InPartition(p))
    BY <1>3 DEF RawBlocks
  <2>3. QED
    BY <2>1, <2>2
<1>10. FlattenSeq(u) \in Blocks /\ FlattenSeq(w) \in Blocks
  BY <1>4, <1>8, TableType
<1>11. Among(FlattenSeq(u), Block) = Among(FlattenSeq(w), InPartition(p))
  BY <1>4, <1>8, <1>9, TableAlike
<1>12. QED
  BY <1>7, <1>10, <1>11, AmongAll DEF Blocks

-----------------------------------------------------------------------------
(* All VMs. *)
LEMMA VmsAt ==
    ASSUME VmsOK
    PROVE  /\ Len(vms) \in Nat /\ DOMAIN vms = 1..Len(vms)
           /\ \A v \in 1..Len(vms) : vms[v] \in Seq(Blocks)
BY ElementOfSeq, LenProperties DEF VmsOK, Vm

LEMMA CountedType ==
    ASSUME VmsOK, NEW k \in Nat, k <= Len(vms), NEW p
    PROVE  /\ Counted(vms, k, p) \in Blocks
           /\ Range(Counted(vms, k, p)) \subseteq InPartition(p)
<1>1. PICK w : w = [v \in 1..k |-> NewOf(vms[v], p)]
  OBVIOUS
<1>2. Counted(vms, k, p) = FlattenSeq(w)
  BY <1>1 DEF Counted, NewOf
<1>3. \A v \in 1..k : vms[v] \in Seq(Blocks)
  BY VmsAt
<1>4. \A v \in 1..k : w[v] \in Blocks /\ Among(w[v], InPartition(p)) = w[v]
  BY <1>1, <1>3, VmFoundAsCounted
<1>5. w \in Seq(Blocks) /\ Len(w) = k /\ FlattenSeq(w) \in Blocks
  <2>1. w = [v \in 1..k |-> w[v]]
    BY <1>1
  <2>2. QED
    BY <1>4, <2>1, BlocksFunction
<1>6. AlikeEach(w, w, InPartition(p), Block)
  <2>1. \A v \in 1..k : Among(w[v], Block) = w[v]
    BY <1>4, AmongAll DEF Blocks
  <2>2. QED
    BY <1>4, <1>5, <2>1 DEF AlikeEach
<1>7. Among(FlattenSeq(w), InPartition(p)) = Among(FlattenSeq(w), Block)
  BY <1>5, <1>6, AlikeFlatten
<1>8. PICK c \in Seq(Block) : c = FlattenSeq(w)
  BY <1>5 DEF Blocks
<1>9. Among(c, InPartition(p)) = c
  BY <1>7, <1>8, AmongAll
<1>10. Range(c) \subseteq InPartition(p)
  BY <1>9, AmongType
<1>11. QED
  BY <1>2, <1>5, <1>8, <1>10

FoundOf(cds) ==
    Total(vms, 0, LAMBDA vm : InAllRounds(vm, LAMBDA j, n : l3_data(vm, j, n, cds)))

LEMMA TotalFound ==
    ASSUME VmsOK, NEW cds, NEW p, NEW K, cds \cap InPartition(p) = K
    PROVE  Among(FoundOf(cds), InPartition(p)) = Among(Counted(vms, Len(vms), p), K)
<1>0. PICK k \in Nat : k = Len(vms)
  BY VmsAt
<1>1. PICK u, w : u = [v \in 1..k |-> L3Of(vms[v], cds)] /\ w = [v \in 1..k |-> NewOf(vms[v], p)]
  OBVIOUS
<1>2. Counted(vms, k, p) = FlattenSeq(w)
  BY <1>1 DEF Counted, NewOf
<1>3. FoundOf(cds) = FlattenSeq(u)
  <2>1. Len(vms) - 0 = k /\ \A v \in 1..k : v + 0 = v
    BY <1>0
  <2>2. FoundOf(cds) = FlattenSeq([v \in 1..k |-> L3Of(vms[v + 0], cds)])
    BY <2>1 DEF FoundOf, Total, L3Of
  <2>3. [v \in 1..k |-> L3Of(vms[v + 0], cds)] = u
    BY <1>1, <2>1
  <2>4. QED
    BY <2>2, <2>3
<1>4. \A v \in 1..k : vms[v] \in Seq(Blocks)
  BY <1>0, VmsAt
<1>5. \A v \in 1..k : /\ u[v] \in Blocks /\ w[v] \in Blocks
                      /\ Among(u[v], InPartition(p)) = Among(w[v], K)
  BY <1>1, <1>4, VmFoundAsCounted
<1>6. u \in Seq(Blocks) /\ Len(u) = k /\ w \in Seq(Blocks) /\ Len(w) = k
  <2>1. u = [v \in 1..k |-> u[v]] /\ w = [v \in 1..k |-> w[v]]
    BY <1>1
  <2>2. QED
    BY <1>5, <2>1, BlocksFunction
<1>7. AlikeEach(u, w, InPartition(p), K)
  BY <1>5, <1>6 DEF AlikeEach
<1>8. Among(FlattenSeq(u), InPartition(p)) = Among(FlattenSeq(w), K)
  BY <1>6, <1>7, AlikeFlatten
<1>9. QED
  BY <1>0, <1>2, <1>3, <1>8

AfterTotal == Total(vms, 0, LAMBDA vm : InAllRounds(vm, LAMBDA j, n : AfterL1(vm, j, n)))

RawTotal(p) == Total(vms, 0, LAMBDA vm : InAllRounds(vm, LAMBDA j, n : RawBlocks(vm, j, n, p)))

LEMMA TotalRaw ==
    ASSUME VmsOK, NEW p
    PROVE  AfterTotal \in Blocks /\ RawTotal(p) = Among(AfterTotal, InPartition(p))
<1>0. PICK k \in Nat : k = Len(vms)
  BY VmsAt
<1>1. PICK u, w : u = [v \in 1..k |-> RawOf(vms[v], p)] /\ w = [v \in 1..k |-> AfterOf(vms[v])]
  OBVIOUS
<1>2. Len(vms) - 0 = k /\ \A v \in 1..k : v + 0 = v
  BY <1>0
<1>3. RawTotal(p) = FlattenSeq(u)
  <2>1. RawTotal(p) = FlattenSeq([v \in 1..k |-> RawOf(vms[v + 0], p)])
    BY <1>2 DEF RawTotal, Total, RawOf
  <2>2. [v \in 1..k |-> RawOf(vms[v + 0], p)] = u
    BY <1>1, <1>2
  <2>3. QED
    BY <2>1, <2>2
<1>4. AfterTotal = FlattenSeq(w)
  <2>1. AfterTotal = FlattenSeq([v \in 1..k |-> AfterOf(vms[v + 0])])
    BY <1>2 DEF AfterTotal, Total, AfterOf
  <2>2. [v \in 1..k |-> AfterOf(vms[v + 0])] = w
    BY <1>1, <1>2
  <2>3. QED
    BY <2>1, <2>2
<1>5. \A v \in 1..k : vms[v] \in Seq(Blocks)
  BY <1>0, VmsAt
<1>6. \A v \in 1..k : /\ u[v] \in Blocks /\ w[v] \in Blocks
                      /\ u[v] = Among(w[v], InPartition(p))
  BY <1>1, <1>5, VmRawAsAfter
<1>7. /\ u \in Seq(Blocks) /\ Len(u) = k /\ FlattenSeq(u) \in Blocks
      /\ w \in Seq(Blocks) /\ Len(w) = k /\ FlattenSeq(w) \in Blocks
  <2>1. u = [v \in 1..k |-> u[v]] /\ w = [v \in 1..k |-> w[v]]
    BY <1>1
  <2>2. QED
    BY <1>6, <2>1, BlocksFunction
<1>8. AmongEach(w, u, InPartition(p))
  BY <1>6, <1>7 DEF AmongEach
<1>9. FlattenSeq(u) = Among(FlattenSeq(w), InPartition(p))
  BY <1>7, <1>8, AmongFlatten DEF Blocks
<1>10. QED
  BY <1>3, <1>4, <1>7, <1>9

(* The partitions one after the other have each block once. *)
LEMMA PartitionsAdd ==
    ASSUME NEW s \in Seq(Block), NEW f,
           f = [q \in 1..PARTITIONS |-> Among(s, InPartition(q - 1))]
    PROVE  Len(FlattenSeq(f)) = Len(s)
<1> DEFINE Before(k) == {b \in Block : b % PARTITIONS < k}
           first(k) == [q \in 1..k |-> Among(s, InPartition(q - 1))]
           P == {k \in Nat : Len(FlattenSeq(first(k))) = Len(Among(s, Before(k)))}
<1>0. PARTITIONS \in Nat \ {0} /\ Block \subseteq Nat
  BY DedupAssumption, TraceAssumption
<1>m. \A b \in Block : b % PARTITIONS \in Nat /\ b % PARTITIONS < PARTITIONS
  <2>1. \A b \in Nat, c \in Nat \ {0} : b % c \in Nat /\ b % c < c
    OBVIOUS
  <2>2. QED
    BY <1>0, <2>1
<1>t. \A k \in Nat : first(k) \in Seq(Seq(Block)) /\ Len(first(k)) = k
  <2>1. \A q : Among(s, InPartition(q - 1)) \in Seq(Block)
    BY AmongType
  <2>2. SUFFICES ASSUME NEW k \in Nat
                 PROVE  first(k) \in Seq(Seq(Block)) /\ Len(first(k)) = k
    OBVIOUS
  <2>3. PICK g : g = first(k)
    OBVIOUS
  <2>4. g = [q \in 1..k |-> g[q]] /\ \A q \in 1..k : g[q] \in Seq(Block)
    BY <2>1, <2>3
  <2>5. g \in Seq(Seq(Block)) /\ Len(g) = k
    BY <2>4, FunctionIsSeq
  <2>6. QED
    BY <2>3, <2>5
<1>1. 0 \in P
  <2>1. Before(0) = {}
    BY <1>m
  <2>2. first(0) = << >>
    BY <1>t, EmptySeq
  <2>3. FlattenSeq(first(0)) = << >>
    BY <2>2, FlattenEmpty
  <2>4. Among(s, Before(0)) = << >>
    BY <2>1, AmongNone
  <2>5. QED
    BY <2>3, <2>4
<1>2. ASSUME NEW k \in Nat, k \in P
      PROVE  k + 1 \in P
  <2>1. PICK x \in Seq(Block) : x = Among(s, InPartition(k))
    BY AmongType
  <2>2. PICK g, h : g = first(k) /\ h = first(k + 1)
    OBVIOUS
  <2>3. /\ g \in Seq(Seq(Block)) /\ Len(g) = k /\ h \in Seq(Seq(Block)) /\ Len(h) = k + 1
    <3>1. k + 1 \in Nat
      OBVIOUS
    <3>2. first(k + 1) \in Seq(Seq(Block)) /\ Len(first(k + 1)) = k + 1
      BY <1>t, <3>1
    <3>3. first(k) \in Seq(Seq(Block)) /\ Len(first(k)) = k
      BY <1>t
    <3> HIDE DEF first
    <3>4. QED
      BY <2>2, <3>2, <3>3
  <2>4. \A q \in 1..(k + 1) : h[q] = IF q = k + 1 THEN x ELSE g[q]
    <3>1. (k + 1) - 1 = k /\ \A q \in 1..(k + 1) : q = k + 1 \/ q \in 1..k
      OBVIOUS
    <3>2. QED
      BY <2>1, <2>2, <3>1
  <2>5. h = Append(g, x)
    <3>1. /\ Append(g, x) \in Seq(Seq(Block)) /\ Len(Append(g, x)) = k + 1
          /\ \A q \in 1..k : Append(g, x)[q] = g[q]
          /\ Append(g, x)[k + 1] = x
      BY <2>3, AppendProperties
    <3>2. \A q \in 1..(k + 1) : q = k + 1 \/ q \in 1..k
      OBVIOUS
    <3>3. \A q \in 1..(k + 1) : h[q] = Append(g, x)[q]
      BY <2>4, <3>1, <3>2
    <3>4. QED
      BY <2>3, <3>1, <3>3, SeqEqual
  <2>6. FlattenSeq(h) = FlattenSeq(g) \o x /\ FlattenSeq(g) \in Seq(Block)
    BY <2>3, <2>5, FlattenAppend, FlattenType
  <2>7. Len(FlattenSeq(h)) = Len(FlattenSeq(g)) + Len(x)
    BY <2>6, ConcatProperties
  <2>8. Before(k) \cup InPartition(k) = Before(k + 1) /\ Before(k) \cap InPartition(k) = {}
    <3>1. \A b \in Block : b % PARTITIONS < k + 1 <=> b % PARTITIONS < k \/ b % PARTITIONS = k
      BY <1>m
    <3>2. \A b \in Block : ~(b % PARTITIONS < k /\ b % PARTITIONS = k)
      BY <1>m
    <3>3. QED
      BY <3>1, <3>2 DEF InPartition
  <2>9. Len(Among(s, Before(k + 1))) = Len(Among(s, Before(k))) + Len(x)
    BY <2>1, <2>8, AmongSplit
  <2>10. Len(FlattenSeq(first(k))) = Len(Among(s, Before(k)))
    BY <1>2
  <2>11. Len(FlattenSeq(first(k + 1))) = Len(Among(s, Before(k + 1)))
    BY <2>2, <2>7, <2>9, <2>10
  <2>12. k + 1 \in Nat
    OBVIOUS
  <2> HIDE DEF first, Before
  <2>13. QED
    BY <2>11, <2>12
<1>3. Nat \subseteq P
  <2> HIDE DEF P
  <2>1. QED
    BY <1>1, <1>2, NatSetInduction
<1>4. Before(PARTITIONS) = Block
  BY <1>m
<1>5. Len(FlattenSeq(first(PARTITIONS))) = Len(Among(s, Block))
  BY <1>0, <1>3, <1>4
<1>6. QED
  BY <1>5, AmongAll

LEMMA VmsRawAsSimulated == VmsOK => RawAsSimulated
<1> SUFFICES ASSUME VmsOK
             PROVE  RawAsSimulated
  OBVIOUS
<1>1. PICK f : f = [q \in 1..PARTITIONS |-> RawTotal(q - 1)]
  OBVIOUS
<1>2. f = [q \in 1..PARTITIONS |-> Among(AfterTotal, InPartition(q - 1))]
  <2>1. \A p : RawTotal(p) = Among(AfterTotal, InPartition(p))
    BY TotalRaw
  <2>2. QED
    BY <1>1, <2>1
<1>3. PICK s \in Seq(Block) : s = AfterTotal
  BY TotalRaw DEF Blocks
<1>4. Len(FlattenSeq(f)) = Len(s)
  BY <1>2, <1>3, PartitionsAdd
<1>5. Len(FlattenSeq([q \in 1..PARTITIONS |-> RawTotal(q - 1)])) = Len(AfterTotal)
  BY <1>1, <1>3, <1>4
<1>6. QED
  BY <1>5 DEF RawAsSimulated, RawTotal, AfterTotal

LEMMA VmsSimilarityAdds == VmsOK => SimilarityAdds
<1> SUFFICES ASSUME VmsOK, NEW vm \in Range(vms), NEW j \in 2..Len(vm),
                    NEW n \in DOMAIN Segments(vm[j])
             PROVE  Range(l1_data(vm, j, n) \o l2_data(vm, j, n))
                    \subseteq Range(Levels(vm, j, n, {}).l1 \o Levels(vm, j, n, {}).l2)
  BY DEF SimilarityAdds
<1>1. vm \in Seq(Blocks)
  BY VmsType
<1>2. /\ j \in 1..Len(vm) /\ j - 1 \in 1..Len(vm) /\ j > 1 /\ j # 1
      /\ vm[j] \in Blocks /\ vm[j - 1] \in Blocks
  BY <1>1, LenProperties, ElementOfSeq
<1>3. PICK seg \in Seq(Block), old \in Seq(Block) :
          seg = SegmentAt(vm[j], n) /\ old = SegmentAt(vm[j - 1], n)
  BY <1>2, SegmentAtType DEF Blocks
<1>4. seg # << >>
  BY <1>2, <1>3, SegmentsType DEF SegmentAt
<1>5. \A s \in Seq(Block) : s \o << >> = s /\ << >> \o s = s
  BY ConcatEmptySeq
<1>6. CASE L1Hit(vm, j, n)
  <2>1. old = seg
    BY <1>3, <1>6 DEF L1Hit
  <2>2. n \in DOMAIN Segments(vm[j - 1])
    BY <1>3, <1>4, <2>1 DEF SegmentAt
  <2>3. Levels(vm, j, n, {}).l1 = seg /\ Levels(vm, j, n, {}).l2 = << >>
    BY <1>2, <1>3, <1>6, <2>2 DEF Levels, SameInParent
  <2>4. l1_data(vm, j, n) = seg /\ l2_data(vm, j, n) = << >>
    BY <1>3, <1>6, AmongEmpty DEF l1_data, l2_data, AfterL1
  <2>5. QED
    BY <1>5, <2>3, <2>4
<1>7. CASE ~L1Hit(vm, j, n)
  <2>1. PICK F : F = FoundInParent(vm[j - 1], n, seg)
    OBVIOUS
  <2>2. Levels(vm, j, n, {}).l1 = << >> /\ Levels(vm, j, n, {}).l2 = Among(seg, F)
    BY <1>2, <1>3, <1>7, <2>1 DEF Levels, SameInParent
  <2>3. l1_data(vm, j, n) = << >> /\ l2_data(vm, j, n) = Among(seg, Range(old))
    BY <1>2, <1>3, <1>7 DEF l1_data, l2_data, AfterL1, InParent
  <2>4. Among(seg, F) \in Seq(Block) /\ Range(Among(seg, F)) = Range(seg) \cap F
    BY AmongType
  <2>5. /\ Among(seg, Range(old)) \in Seq(Block)
        /\ Range(Among(seg, Range(old))) = Range(seg) \cap Range(old)
    BY AmongType
  <2>6. Range(old) \subseteq F
    <3>1. Range(old) \subseteq Block
      BY ElementOfSeq, LenProperties DEF Range
    <3>2. QED
      BY <1>3, <2>1, <3>1 DEF FoundInParent, SearchInSegment
  <2>7. QED
    BY <1>5, <2>2, <2>3, <2>4, <2>5, <2>6
<1>8. QED
  BY <1>6, <1>7

-----------------------------------------------------------------------------
(***************************************************************************)
(* The most frequent blocks.                                               *)
(***************************************************************************)

(* A finite set of numbers has a greatest one. *)
LEMMA FiniteBound ==
    ASSUME NEW S \in SUBSET Nat, IsFiniteSet(S)
    PROVE  \E m \in Nat : \A x \in S : x <= m
<1> DEFINE P == {T \in SUBSET S : \E m \in Nat : \A x \in T : x <= m}
<1>1. {} \in P
  <2>1. 0 \in Nat
    OBVIOUS
  <2>2. QED
    BY <2>1
<1>2. ASSUME NEW T \in SUBSET S, NEW e \in S \ T, T \in P
      PROVE  T \cup {e} \in P
  <2>1. PICK m \in Nat : \A x \in T : x <= m
    BY <1>2
  <2>2. PICK k \in Nat : m <= k /\ e <= k
    <3>1. e \in Nat /\ m + e \in Nat /\ m <= m + e /\ e <= m + e
      OBVIOUS
    <3>2. QED
      BY <3>1
  <2>3. \A x \in T \cup {e} : x <= k
    BY <2>1, <2>2
  <2>4. QED
    BY <2>3
<1> HIDE DEF P
<1>3. SUBSET S \subseteq P
  BY <1>1, <1>2, SetInduction
<1>4. QED
  BY <1>3 DEF P

LEMMA FiniteMax ==
    ASSUME NEW S \in SUBSET Nat, IsFiniteSet(S), S # {}
    PROVE  Max(S) \in S /\ \A x \in S : x <= Max(S)
BY FiniteBound, MaxIs

(* The rank of a block among others. *)
Below(S, b) == {c \in S : c < b}

LEMMA BelowFinite ==
    ASSUME NEW S \in SUBSET Nat, IsFiniteSet(S), NEW b
    PROVE  IsFiniteSet(Below(S, b)) /\ Cardinality(Below(S, b)) \in Nat
<1>1. Below(S, b) \in SUBSET S
  BY DEF Below
<1>2. QED
  BY <1>1, FS_Subset, FS_CardinalityType

LEMMA FirstOfBelow ==
    ASSUME NEW S, NEW k, NEW b
    PROVE  b \in FirstOf(S, k) <=> b \in S /\ Cardinality(Below(S, b)) < k
BY DEF FirstOf, Below

(* The first of a set are as many as are asked for. *)
LEMMA FirstOfCount ==
    ASSUME NEW S \in SUBSET Nat, IsFiniteSet(S)
    PROVE  \A k \in Nat : k <= Cardinality(S) => Cardinality(FirstOf(S, k)) = k
<1> DEFINE P == {k \in Nat : k <= Cardinality(S) => Cardinality(FirstOf(S, k)) = k}
<1>0. \A b : IsFiniteSet(Below(S, b)) /\ Cardinality(Below(S, b)) \in Nat
  BY BelowFinite
<1>c. Cardinality(S) \in Nat
  BY FS_CardinalityType
<1>1. 0 \in P
  <2>1. FirstOf(S, 0) = {}
    <3>1. \A b : b \notin FirstOf(S, 0)
      <4>1. \A b : ~(Cardinality(Below(S, b)) < 0)
        BY <1>0
      <4>2. QED
        BY <4>1, FirstOfBelow
    <3>2. QED
      BY <3>1
  <2>2. QED
    BY <2>1, FS_EmptySet
<1>2. ASSUME NEW k \in Nat, k \in P
      PROVE  k + 1 \in P
  <2>0. k + 1 \in Nat
    OBVIOUS
  <2>1. SUFFICES ASSUME k + 1 <= Cardinality(S)
                 PROVE  Cardinality(FirstOf(S, k + 1)) = k + 1
    BY <2>0
  <2>2. PICK F : F = FirstOf(S, k)
    OBVIOUS
  <2>3. F \in SUBSET S /\ \A b \in S : b \in F <=> Cardinality(Below(S, b)) < k
    BY <2>2, FirstOfBelow DEF FirstOf
  <2>4. Cardinality(F) = k /\ IsFiniteSet(F)
    BY <1>2, <1>c, <2>1, <2>2, <2>3, FS_Subset
  <2>5. S \ F # {}
    <3>1. F # S
      BY <1>c, <2>1, <2>4
    <3>2. QED
      BY <2>3, <3>1
  <2>6. PICK x \in S \ F : \A y \in S \ F : x <= y
    BY <2>5, LeastNat
  <2>7. Below(S, x) \subseteq F
    <3>1. ASSUME NEW c \in S, c < x
          PROVE  c \in F
      <4>1. c \in Nat /\ x \in Nat
        BY <2>6
      <4>2. ~(x <= c)
        BY <3>1, <4>1
      <4>3. QED
        BY <2>6, <4>2
    <3>2. QED
      BY <3>1 DEF Below
  <2>8. F \subseteq Below(S, x)
    <3>1. ASSUME NEW c \in F, ~(c < x)
          PROVE  FALSE
      <4>1. c \in Nat /\ x \in Nat /\ c \in S
        BY <2>3, <2>6
      <4>2. Below(S, x) \in SUBSET Below(S, c)
        <5>1. \A d \in Nat : d < x => d < c
          BY <3>1, <4>1
        <5>2. QED
          BY <5>1 DEF Below
      <4>3. Cardinality(Below(S, x)) <= Cardinality(Below(S, c))
        BY <1>0, <4>2, FS_Subset
      <4>4. Cardinality(Below(S, c)) < k /\ ~(Cardinality(Below(S, x)) < k)
        BY <2>3, <2>6, <4>1
      <4>5. QED
        BY <1>0, <4>3, <4>4
    <3>2. QED
      BY <2>3, <3>1 DEF Below
  <2>9. Below(S, x) = F
    BY <2>7, <2>8
  <2>10. FirstOf(S, k + 1) = F \cup {x}
    <3>1. ASSUME NEW b \in S, b \in F
          PROVE  b \in FirstOf(S, k + 1)
      <4>1. Cardinality(Below(S, b)) < k
        BY <2>3, <3>1
      <4>2. Cardinality(Below(S, b)) < k + 1
        BY <1>0, <4>1
      <4>3. QED
        BY <4>2, FirstOfBelow
    <3>2. x \in FirstOf(S, k + 1)
      <4>1. Cardinality(Below(S, x)) < k + 1
        BY <2>4, <2>9
      <4>2. QED
        BY <4>1, FirstOfBelow
    <3>3. ASSUME NEW b \in FirstOf(S, k + 1), b \notin F
          PROVE  b = x
      <4>1. b \in S /\ Cardinality(Below(S, b)) < k + 1
        BY FirstOfBelow
      <4>2. b \in Nat /\ x \in Nat /\ x <= b
        BY <2>6, <3>3, <4>1
      <4>3. SUFFICES ASSUME x < b
                     PROVE  FALSE
        BY <4>2
      <4>4. F \cup {x} \in SUBSET Below(S, b)
        BY <2>3, <2>6, <2>9, <4>2, <4>3 DEF Below
      <4>5. Cardinality(F \cup {x}) = k + 1
        BY <2>4, <2>6, FS_AddElement
      <4>6. Cardinality(F \cup {x}) <= Cardinality(Below(S, b))
        BY <1>0, <4>4, FS_Subset
      <4>7. QED
        BY <1>0, <4>1, <4>5, <4>6
    <3>4. FirstOf(S, k + 1) \subseteq S
      BY DEF FirstOf
    <3>5. QED
      BY <2>3, <3>1, <3>2, <3>3, <3>4
  <2>11. QED
    BY <2>4, <2>6, <2>10, FS_AddElement
<1> HIDE DEF P
<1>3. Nat \subseteq P
  BY <1>1, <1>2, NatSetInduction
<1>4. QED
  BY <1>3 DEF P

LEMMA FirstOfMore ==
    ASSUME NEW S \in SUBSET Nat, IsFiniteSet(S), NEW k \in Int, NEW m \in Int, k <= m
    PROVE  FirstOf(S, k) \subseteq FirstOf(S, m)
<1>1. ASSUME NEW b \in FirstOf(S, k)
      PROVE  b \in FirstOf(S, m)
  <2>1. b \in S /\ Cardinality(Below(S, b)) < k
    BY FirstOfBelow
  <2>2. Cardinality(Below(S, b)) \in Nat
    BY BelowFinite
  <2>3. Cardinality(Below(S, b)) < m
    BY <2>1, <2>2
  <2>4. QED
    BY <2>1, <2>3, FirstOfBelow
<1>2. QED
  BY <1>1

(* What GlobalIndex gives, for some of the blocks. *)
IsIndex(global) ==
    /\ DOMAIN global \in SUBSET Block /\ IsFiniteSet(DOMAIN global)
    /\ \A b \in DOMAIN global : global[b] \in Nat

LEMMA GlobalIndexIs ==
    ASSUME NEW s \in Seq(Block)
    PROVE  IsIndex(GlobalIndex(s)) /\ DOMAIN GlobalIndex(s) = Range(s)
<1>1. DOMAIN GlobalIndex(s) = Range(s)
  BY DEF GlobalIndex
<1>2. \A b \in Range(s) : GlobalIndex(s)[b] = CountOf(s, b)
  BY DEF GlobalIndex, CountOf
<1>3. Range(s) \subseteq Block /\ IsFiniteSet(Range(s))
  BY RangeFinite, ElementOfSeq, LenProperties DEF Range
<1>4. \A b \in Range(s) : GlobalIndex(s)[b] \in Nat
  BY <1>2, <1>3, CountAppend
<1>5. QED
  BY <1>1, <1>3, <1>4 DEF IsIndex

LEMMA DivMonotone ==
    ASSUME NEW a \in Nat, NEW b \in Nat, NEW p \in Nat \ {0}, a <= b
    PROVE  a \div p \in Nat /\ a \div p <= b \div p
OBVIOUS

LEMMA DivTimes ==
    ASSUME NEW n \in Nat, NEW p \in Nat \ {0}
    PROVE  (p * n) \div p = n
OBVIOUS

LEMMA TimesMonotone ==
    ASSUME NEW i \in Nat, NEW k \in Nat, NEW n \in Nat, i <= k
    PROVE  i * n \in Nat /\ k * n \in Nat /\ i * n <= k * n
OBVIOUS

LEMMA ThresholdType ==
    ASSUME NEW global, IsIndex(global), NEW i \in 1..PERCENT
    PROVE  /\ SizeThreshold(global, i) \in Nat
           /\ SizeThreshold(global, i) <= Cardinality(DOMAIN global)
           /\ i < PERCENT => SizeThreshold(global, i) <= SizeThreshold(global, i + 1)
<1>1. PICK n \in Nat : n = Cardinality(DOMAIN global)
  BY FS_CardinalityType DEF IsIndex
<1>2. PERCENT \in Nat \ {0} /\ i \in Nat /\ i <= PERCENT
  BY DedupAssumption
<1>3. SizeThreshold(global, i) = (i * n) \div PERCENT
  BY <1>1 DEF SizeThreshold
<1>4. SizeThreshold(global, i + 1) = ((i + 1) * n) \div PERCENT
  BY <1>1 DEF SizeThreshold
<1>5. i * n \in Nat /\ PERCENT * n \in Nat /\ i * n <= PERCENT * n
  BY <1>2, TimesMonotone
<1>6. i + 1 \in Nat /\ i <= i + 1
  BY <1>2
<1>7. (i + 1) * n \in Nat /\ i * n <= (i + 1) * n
  BY <1>2, <1>6, TimesMonotone
<1>8. (i * n) \div PERCENT \in Nat /\ (i * n) \div PERCENT <= (PERCENT * n) \div PERCENT
  BY <1>2, <1>5, DivMonotone
<1>9. (PERCENT * n) \div PERCENT = n
  BY <1>2, DivTimes
<1>10. (i * n) \div PERCENT <= ((i + 1) * n) \div PERCENT
  BY <1>2, <1>5, <1>7, DivMonotone
<1>11. QED
  BY <1>1, <1>3, <1>4, <1>8, <1>9, <1>10

LEMMA FrequentType ==
    ASSUME NEW global, IsIndex(global), NEW f
    PROVE  /\ MoreFrequent(global, f) \in SUBSET (DOMAIN global)
           /\ AsFrequent(global, f) \in SUBSET (DOMAIN global)
           /\ AsFrequent(global, f) \in SUBSET Nat
           /\ IsFiniteSet(MoreFrequent(global, f)) /\ IsFiniteSet(AsFrequent(global, f))
           /\ Cardinality(MoreFrequent(global, f)) \in Nat
           /\ Cardinality(AsFrequent(global, f)) \in Nat
<1>1. /\ MoreFrequent(global, f) \in SUBSET (DOMAIN global)
      /\ AsFrequent(global, f) \in SUBSET (DOMAIN global)
  BY DEF MoreFrequent, AsFrequent
<1>2. IsFiniteSet(DOMAIN global) /\ DOMAIN global \subseteq Nat
  BY TraceAssumption DEF IsIndex
<1>3. IsFiniteSet(MoreFrequent(global, f)) /\ IsFiniteSet(AsFrequent(global, f))
  BY <1>1, <1>2, FS_Subset
<1>4. QED
  BY <1>1, <1>2, <1>3, FS_CardinalityType

LEMMA FrequencyBound ==
    ASSUME NEW global, IsIndex(global)
    PROVE  \E m \in Nat : \A b \in DOMAIN global : global[b] <= m
<1> DEFINE D == DOMAIN global
           P == {T \in SUBSET D : \E m \in Nat : \A b \in T : global[b] <= m}
<1>0. IsFiniteSet(D) /\ \A b \in D : global[b] \in Nat
  BY DEF IsIndex
<1>1. {} \in P
  <2>1. 0 \in Nat
    OBVIOUS
  <2>2. QED
    BY <2>1
<1>2. ASSUME NEW T \in SUBSET D, NEW e \in D \ T, T \in P
      PROVE  T \cup {e} \in P
  <2>1. PICK m \in Nat : \A b \in T : global[b] <= m
    BY <1>2
  <2>2. \A b \in T : global[b] \in Nat
    BY <1>0
  <2>3. PICK k \in Nat : m <= k /\ global[e] <= k
    <3>1. PICK c \in Nat : c = global[e]
      BY <1>0
    <3>2. c + m \in Nat /\ m <= c + m /\ c <= c + m
      OBVIOUS
    <3>3. QED
      BY <3>1, <3>2
  <2>4. \A b \in T \cup {e} : global[b] <= k
    BY <2>1, <2>2, <2>3
  <2>5. QED
    BY <2>4
<1> HIDE DEF P, D
<1>3. SUBSET D \subseteq P
  BY <1>0, <1>1, <1>2, SetInduction
<1>4. QED
  BY <1>3 DEF P, D

(* The threshold is a frequency, with too few blocks above it and enough with it. *)
LEMMA FreqThresholdIs ==
    ASSUME NEW global, IsIndex(global), DOMAIN global # {}, NEW i \in 1..PERCENT,
           NEW f, f = FreqThreshold(global, i), NEW t, t = SizeThreshold(global, i)
    PROVE  /\ f \in Range(global) /\ f \in Nat
           /\ Cardinality(MoreFrequent(global, f - 1)) >= t
           /\ \A x \in Range(global) : Cardinality(MoreFrequent(global, x - 1)) >= t => x <= f
           /\ Cardinality(MoreFrequent(global, f)) <= t
<1> DEFINE S == {x \in Range(global) : Cardinality(MoreFrequent(global, x - 1)) >= t}
<1>0. /\ t \in Nat /\ t <= Cardinality(DOMAIN global)
      /\ \A x : Cardinality(MoreFrequent(global, x)) \in Nat
  BY ThresholdType, FrequentType
<1>1. Range(global) \in SUBSET Nat /\ Range(global) # {}
  BY DEF IsIndex, Range
<1>2. PICK m \in Nat : \A x \in Range(global) : x <= m
  BY FrequencyBound DEF Range
<1>3. S # {}
  <2>1. PICK x \in Range(global) : \A y \in Range(global) : x <= y
    BY <1>1, LeastNat
  <2>2. \A b \in DOMAIN global : global[b] \in Range(global) /\ global[b] \in Nat
    BY <1>1 DEF Range
  <2>3. \A b \in DOMAIN global : global[b] > x - 1
    BY <1>1, <2>1, <2>2
  <2>4. MoreFrequent(global, x - 1) = DOMAIN global
    BY <2>3 DEF MoreFrequent
  <2>5. x \in S
    BY <1>0, <2>4
  <2>6. QED
    BY <2>5
<1>4. f = Max(S)
  BY DEF FreqThreshold
<1>5. f \in S /\ \A x \in S : x <= f
  <2>1. S \in SUBSET Nat /\ \A x \in S : x <= m
    BY <1>1, <1>2
  <2> HIDE DEF S
  <2>2. QED
    BY <1>3, <1>4, <2>1, MaxIs
<1>6. f \in Nat
  BY <1>1, <1>5
<1>7. Cardinality(MoreFrequent(global, f)) <= t
  <2> DEFINE over == {x \in Range(global) : x > f}
  <2>1. CASE over = {}
    <3>1. \A b \in DOMAIN global : global[b] \in Range(global)
      BY DEF Range
    <3>2. MoreFrequent(global, f) = {}
      BY <2>1, <3>1 DEF MoreFrequent
    <3>3. QED
      BY <1>0, <3>2, FS_EmptySet
  <2>2. CASE over # {}
    <3>1. over \in SUBSET Nat
      BY <1>1
    <3>2. PICK x \in over : \A y \in over : x <= y
      BY <2>2, <3>1, LeastNat
    <3>3. x \in Nat /\ x > f /\ x \in Range(global)
      BY <1>1, <3>2
    <3>4. \A b \in DOMAIN global : global[b] > x - 1 <=> global[b] > f
      <4>1. SUFFICES ASSUME NEW b \in DOMAIN global
                     PROVE  global[b] > x - 1 <=> global[b] > f
        OBVIOUS
      <4>2. PICK y \in Nat : y = global[b] /\ y \in Range(global)
        BY <1>1 DEF Range
      <4>3. y > f => x <= y
        BY <3>2, <4>2
      <4>4. QED
        BY <1>6, <3>3, <4>2, <4>3
    <3>5. MoreFrequent(global, x - 1) = MoreFrequent(global, f)
      BY <3>4 DEF MoreFrequent
    <3>6. x \notin S
      BY <1>5, <1>6, <3>3
    <3>7. ~(Cardinality(MoreFrequent(global, f)) >= t)
      BY <3>3, <3>5, <3>6
    <3>8. QED
      BY <1>0, <3>7
  <2>3. QED
    BY <2>1, <2>2
<1>8. QED
  BY <1>5, <1>6, <1>7

(* The two parts of a CDS. *)
LEMMA CdsOutputIs ==
    ASSUME NEW global, IsIndex(global), DOMAIN global # {}, NEW i \in 1..PERCENT,
           NEW f, f = FreqThreshold(global, i), NEW k, k = NumToAdd(global, i)
    PROVE  /\ CdsOutput(global, i)
              = MoreFrequent(global, f) \cup FirstOf(AsFrequent(global, f), k)
           /\ k = SizeThreshold(global, i) - Cardinality(MoreFrequent(global, f))
           /\ k \in Nat /\ k <= Cardinality(AsFrequent(global, f))
           /\ Cardinality(FirstOf(AsFrequent(global, f), k)) = k
           /\ FirstOf(AsFrequent(global, f), k) \subseteq AsFrequent(global, f)
           /\ IsFiniteSet(FirstOf(AsFrequent(global, f), k))
           /\ MoreFrequent(global, f) \cap AsFrequent(global, f) = {}
           /\ AsFrequent(global, f) # {}
<1>1. PICK M, A : M = MoreFrequent(global, f) /\ A = AsFrequent(global, f)
  OBVIOUS
<1>2. PICK t \in Nat : t = SizeThreshold(global, i)
  BY ThresholdType
<1>3. /\ M \in SUBSET (DOMAIN global) /\ A \in SUBSET (DOMAIN global) /\ A \in SUBSET Nat
      /\ IsFiniteSet(M) /\ IsFiniteSet(A) /\ Cardinality(M) \in Nat /\ Cardinality(A) \in Nat
  BY <1>1, FrequentType
<1>4. /\ f \in Range(global) /\ f \in Nat /\ Cardinality(M) <= t
      /\ Cardinality(MoreFrequent(global, f - 1)) >= t
  BY <1>1, <1>2, FreqThresholdIs
<1>5. M \cap A = {}
  BY <1>1, <1>4 DEF MoreFrequent, AsFrequent, IsIndex
<1>6. MoreFrequent(global, f - 1) = M \cup A
  <2>1. \A y \in Nat : y > f - 1 <=> y > f \/ y = f
    BY <1>4
  <2>2. \A b \in DOMAIN global : global[b] > f - 1 <=> global[b] > f \/ global[b] = f
    BY <2>1 DEF IsIndex
  <2>3. QED
    BY <1>1, <2>2 DEF MoreFrequent, AsFrequent
<1>7. Cardinality(M \cup A) = Cardinality(M) + Cardinality(A)
  <2>1. Cardinality(M \cup A) = Cardinality(M) + Cardinality(A) - Cardinality(M \cap A)
    BY <1>3, FS_Union
  <2>2. Cardinality(M \cap A) = 0
    BY <1>5, FS_EmptySet
  <2>3. QED
    BY <1>3, <2>1, <2>2
<1>8. k = t - Cardinality(M)
  BY <1>1, <1>2 DEF NumToAdd
<1>9. k \in Nat /\ k <= Cardinality(A)
  <2>1. PICK m \in Nat, a \in Nat : m = Cardinality(M) /\ a = Cardinality(A)
    BY <1>3
  <2>2. m + a >= t
    <3>1. Cardinality(M \cup A) >= t
      BY <1>4, <1>6
    <3>2. QED
      BY <1>7, <2>1, <3>1
  <2>3. m <= t /\ k = t - m
    BY <1>4, <1>8, <2>1
  <2>4. k \in Nat /\ k <= a
    BY <2>2, <2>3
  <2>5. QED
    BY <2>1, <2>4
<1>10. Cardinality(FirstOf(A, k)) = k
  BY <1>3, <1>9, FirstOfCount
<1>11. FirstOf(A, k) \subseteq A
  BY DEF FirstOf
<1>12. IsFiniteSet(FirstOf(A, k))
  BY <1>3, <1>11, FS_Subset
<1>13. CdsOutput(global, i) = M \cup FirstOf(A, k)
  BY <1>1 DEF CdsOutput
<1>14. A # {}
  BY <1>1, <1>4 DEF AsFrequent, Range
<1>15. QED
  BY <1>1, <1>2, <1>5, <1>8, <1>9, <1>10, <1>11, <1>12, <1>13, <1>14

(* The CDS has the size that it shall have, and no block is left that is more frequent. *)
LEMMA CdsOutputRight ==
    ASSUME NEW global, IsIndex(global), NEW i \in 1..PERCENT
    PROVE  /\ CdsOutput(global, i) \subseteq DOMAIN global
           /\ Cardinality(CdsOutput(global, i)) = SizeThreshold(global, i)
           /\ \A b \in CdsOutput(global, i), c \in DOMAIN global \ CdsOutput(global, i) :
                 global[b] >= global[c]
<1>1. CASE DOMAIN global = {}
  <2>1. CdsOutput(global, i) = {}
    BY <1>1 DEF CdsOutput
  <2>2. SizeThreshold(global, i) = 0
    <3>1. Cardinality(DOMAIN global) = 0
      BY <1>1, FS_EmptySet
    <3>2. SizeThreshold(global, i) \in Nat /\ SizeThreshold(global, i) <= 0
      BY <3>1, ThresholdType
    <3>3. QED
      BY <3>2
  <2>3. QED
    BY <1>1, <2>1, <2>2, FS_EmptySet
<1>2. CASE DOMAIN global # {}
  <2>1. PICK f, k : f = FreqThreshold(global, i) /\ k = NumToAdd(global, i)
    OBVIOUS
  <2>2. PICK M, A, T : /\ M = MoreFrequent(global, f) /\ A = AsFrequent(global, f)
                       /\ T = FirstOf(A, k)
    OBVIOUS
  <2>3. /\ CdsOutput(global, i) = M \cup T /\ k = SizeThreshold(global, i) - Cardinality(M)
        /\ k \in Nat /\ Cardinality(T) = k /\ T \subseteq A /\ IsFiniteSet(T) /\ M \cap A = {}
    BY <1>2, <2>1, <2>2, CdsOutputIs
  <2>4. /\ M \in SUBSET (DOMAIN global) /\ A \in SUBSET (DOMAIN global)
        /\ IsFiniteSet(M) /\ Cardinality(M) \in Nat
    BY <2>2, FrequentType
  <2>5. Cardinality(M \cup T) = SizeThreshold(global, i)
    <3>1. Cardinality(M \cup T) = Cardinality(M) + Cardinality(T) - Cardinality(M \cap T)
      BY <2>3, <2>4, FS_Union
    <3>2. M \cap T = {}
      BY <2>3
    <3>3. Cardinality(M \cap T) = 0
      BY <3>2, FS_EmptySet
    <3>4. SizeThreshold(global, i) \in Nat
      BY ThresholdType
    <3>5. QED
      BY <2>3, <2>4, <3>1, <3>3, <3>4
  <2>6. ASSUME NEW b \in M \cup T, NEW c \in DOMAIN global \ (M \cup T)
        PROVE  global[b] >= global[c]
    <3>1. f \in Nat
      BY <1>2, <2>1, FreqThresholdIs
    <3>2. PICK x \in Nat, y \in Nat : x = global[b] /\ y = global[c]
      BY <2>3, <2>4 DEF IsIndex
    <3>3. x > f \/ x = f
      BY <2>2, <2>3, <3>2 DEF MoreFrequent, AsFrequent
    <3>4. ~(y > f)
      BY <2>2, <3>2 DEF MoreFrequent
    <3>5. QED
      BY <3>1, <3>2, <3>3, <3>4
  <2>7. QED
    BY <2>3, <2>4, <2>5, <2>6
<1>3. QED
  BY <1>1, <1>2

(* The next CDS has all its blocks. *)
LEMMA CdsOutputGrows ==
    ASSUME NEW global, IsIndex(global), NEW i \in 1..PERCENT, i < PERCENT
    PROVE  CdsOutput(global, i) \subseteq CdsOutput(global, i + 1)
<1>0. CASE DOMAIN global = {}
  BY <1>0 DEF CdsOutput
<1>1. CASE DOMAIN global # {}
  <2>0. i + 1 \in 1..PERCENT
    BY DedupAssumption
  <2>1. PICK f, k, g, m : /\ f = FreqThreshold(global, i) /\ k = NumToAdd(global, i)
                          /\ g = FreqThreshold(global, i + 1) /\ m = NumToAdd(global, i + 1)
    OBVIOUS
  <2>2. /\ CdsOutput(global, i) = MoreFrequent(global, f) \cup FirstOf(AsFrequent(global, f), k)
        /\ k = SizeThreshold(global, i) - Cardinality(MoreFrequent(global, f)) /\ k \in Nat
        /\ FirstOf(AsFrequent(global, f), k) \subseteq AsFrequent(global, f)
    BY <1>1, <2>1, CdsOutputIs
  <2>3. /\ CdsOutput(global, i + 1)
           = MoreFrequent(global, g) \cup FirstOf(AsFrequent(global, g), m)
        /\ m = SizeThreshold(global, i + 1) - Cardinality(MoreFrequent(global, g)) /\ m \in Nat
    BY <1>1, <2>0, <2>1, CdsOutputIs
  <2>4. PICK t \in Nat, u \in Nat :
            t = SizeThreshold(global, i) /\ u = SizeThreshold(global, i + 1) /\ t <= u
    BY <2>0, ThresholdType
  <2>5. /\ f \in Nat /\ \A x \in Range(global) :
                             Cardinality(MoreFrequent(global, x - 1)) >= t => x <= f
    BY <1>1, <2>1, <2>4, FreqThresholdIs
  <2>6. /\ g \in Nat /\ g \in Range(global) /\ Cardinality(MoreFrequent(global, g - 1)) >= u
    BY <1>1, <2>0, <2>1, <2>4, FreqThresholdIs
  <2>7. g <= f
    <3>1. Cardinality(MoreFrequent(global, g - 1)) \in Nat
      BY FrequentType
    <3>2. Cardinality(MoreFrequent(global, g - 1)) >= t
      BY <2>4, <2>6, <3>1
    <3>3. QED
      BY <2>5, <2>6, <3>2
  <2>8. CASE g = f
    <3>1. PICK c \in Nat : c = Cardinality(MoreFrequent(global, f))
      BY FrequentType
    <3>2. k = t - c /\ m = u - c
      BY <2>2, <2>3, <2>4, <2>8, <3>1
    <3>3. k <= m
      BY <2>4, <3>1, <3>2
    <3>4. FirstOf(AsFrequent(global, f), k) \subseteq FirstOf(AsFrequent(global, f), m)
      BY <2>2, <2>3, <3>3, FirstOfMore, FrequentType
    <3>5. QED
      BY <2>2, <2>3, <2>8, <3>4
  <2>9. CASE g < f
    <3>1. \A y \in Nat : y > f \/ y = f => y > g
      BY <2>5, <2>6, <2>9
    <3>2. MoreFrequent(global, f) \cup AsFrequent(global, f) \subseteq MoreFrequent(global, g)
      BY <3>1 DEF MoreFrequent, AsFrequent, IsIndex
    <3>3. QED
      BY <2>2, <2>3, <3>2
  <2>10. QED
    BY <2>5, <2>6, <2>7, <2>8, <2>9
<1>2. QED
  BY <1>0, <1>1

(* Sums over blocks of one size and of one frequency. *)
LEMMA SumOfSame ==
    ASSUME NEW S \in SUBSET Block, IsFiniteSet(S), NEW z \in Nat, \A b \in S : Size[b] = z
    PROVE  SumFunctionOnSet(Size, S) = Cardinality(S) * z
<1> DEFINE P == {T \in SUBSET S : SumFunctionOnSet(Size, T) = Cardinality(T) * z}
<1>0. \A T \in SUBSET S : IsFiniteSet(T) /\ Cardinality(T) \in Nat
  BY FS_Subset, FS_CardinalityType
<1>1. {} \in P
  BY SumEmpty, FS_EmptySet, OneMore
<1>2. ASSUME NEW T \in SUBSET S, NEW e \in S \ T, T \in P
      PROVE  T \cup {e} \in P
  <2>1. PICK n \in Nat : n = Cardinality(T)
    BY <1>0
  <2>2. Cardinality(T \cup {e}) = n + 1
    BY <1>0, <2>1, FS_AddElement
  <2>3. IsFiniteSet(T) /\ e \notin T
    BY <1>0
  <2>4. \A x \in T \cup {e} : Size[x] \in Nat
    OBVIOUS
  <2>5. SumFunctionOnSet(Size, T \cup {e}) = Size[e] + SumFunctionOnSet(Size, T)
    BY <2>3, <2>4, SumAdd
  <2>6. SumFunctionOnSet(Size, T) = n * z /\ Size[e] = z
    BY <1>2, <2>1
  <2>7. (n + 1) * z = n * z + z /\ n * z \in Nat
    BY OneMore
  <2>8. SumFunctionOnSet(Size, T \cup {e}) = Cardinality(T \cup {e}) * z
    BY <2>2, <2>5, <2>6, <2>7
  <2>9. QED
    BY <2>8
<1> HIDE DEF P
<1>3. SUBSET S \subseteq P
  BY <1>1, <1>2, SetInduction
<1>4. QED
  BY <1>3 DEF P

LEMMA WeightType ==
    ASSUME NEW global, NEW S \in SUBSET Block, IsFiniteSet(S), \A b \in S : global[b] \in Nat
    PROVE  Weight(global, S) \in Nat
<1> DEFINE f == [b \in S |-> global[b] * Size[b]]
<1>1. \A b \in S : Size[b] \in Nat
  BY TraceAssumption
<1>2. \A b \in S : f[b] \in Nat
  BY <1>1, OneMore
<1> HIDE DEF f
<1>3. SumFunctionOnSet(f, S) \in Nat
  BY <1>2, SumType
<1>4. QED
  BY <1>3 DEF Weight, f

Closed(A, P) == {} \in P /\ \A S \in SUBSET A : \A e \in A \ S : S \in P => S \cup {e} \in P

LEMMA ClosedIsAll ==
    ASSUME NEW A, NEW P, IsFiniteSet(A), Closed(A, P)
    PROVE  SUBSET A \subseteq P
BY SetInduction DEF Closed

SameBeside(global, M, S, f, z) ==
    /\ M \subseteq Block /\ IsFiniteSet(M) /\ \A b \in M : global[b] \in Nat
    /\ S \subseteq Block /\ IsFiniteSet(S) /\ M \cap S = {}
    /\ z \in Nat /\ f \in Nat /\ \A b \in S : Size[b] = z /\ global[b] = f

LEMMA WeightOfSame ==
    ASSUME NEW global, NEW M, NEW S, NEW f, NEW z, SameBeside(global, M, S, f, z)
    PROVE  Weight(global, M \cup S) = Weight(global, M) + (f * z) * Cardinality(S)
<1> DEFINE P == {T \in SUBSET S :
                    Weight(global, M \cup T) = Weight(global, M) + (f * z) * Cardinality(T)}
<1>s. /\ M \subseteq Block /\ IsFiniteSet(M) /\ \A b \in M : global[b] \in Nat
      /\ S \subseteq Block /\ IsFiniteSet(S) /\ M \cap S = {}
      /\ z \in Nat /\ f \in Nat /\ \A b \in S : Size[b] = z /\ global[b] = f
  BY DEF SameBeside
<1>0. \A T \in SUBSET S : IsFiniteSet(T) /\ Cardinality(T) \in Nat
  BY <1>s, FS_Subset, FS_CardinalityType
<1>w. PICK w \in Nat, c \in Nat : w = Weight(global, M) /\ c = f * z
  BY <1>s, WeightType, OneMore
<1>1. {} \in P
  <2>1. M \cup {} = M /\ Cardinality({}) = 0 /\ c * 0 = 0 /\ w + 0 = w
    BY FS_EmptySet
  <2>2. QED
    BY <1>w, <2>1
<1>2. ASSUME NEW T \in SUBSET S, NEW e \in S \ T, T \in P
      PROVE  T \cup {e} \in P
  <2>1. PICK n \in Nat : n = Cardinality(T)
    BY <1>0
  <2>2. Cardinality(T \cup {e}) = n + 1
    BY <1>0, <2>1, FS_AddElement
  <2>3. PICK U : U = M \cup T
    OBVIOUS
  <2>4. /\ IsFiniteSet(U) /\ e \notin U /\ U \cup {e} \subseteq Block
        /\ U \cup {e} = M \cup (T \cup {e})
    BY <1>s, <1>0, <2>3, FS_Union
  <2>5. \A b \in U \cup {e} : global[b] \in Nat
    BY <1>s, <2>3
  <2>6. Weight(global, U \cup {e}) = global[e] * Size[e] + Weight(global, U)
    BY <2>4, <2>5, WeightAdd
  <2>7. global[e] * Size[e] = c
    BY <1>s, <1>w
  <2>8. Weight(global, U) = w + c * n
    BY <1>2, <1>w, <2>1, <2>3
  <2>9. c * (n + 1) = c * n + c /\ c * n \in Nat
    OBVIOUS
  <2>10. Weight(global, M \cup (T \cup {e})) = w + c * (n + 1)
    <3>1. Weight(global, U \cup {e}) = c + (w + c * n)
      BY <2>6, <2>7, <2>8
    <3>2. c + (w + c * n) = w + c * (n + 1)
      BY <2>9
    <3>3. QED
      BY <2>4, <3>1, <3>2
  <2>11. QED
    BY <1>w, <2>2, <2>10
<1> HIDE DEF P
<1>3. SUBSET S \subseteq P
  <2>1. Closed(S, P)
    BY <1>1, <1>2 DEF Closed
  <2>2. QED
    BY <1>s, <2>1, ClosedIsAll
<1>4. QED
  BY <1>3 DEF P

(* The mean size is the size when there is only one. *)
LEMMA CoverageRight ==
    ASSUME NEW global, IsIndex(global), NEW i \in 1..PERCENT, DOMAIN global # {},
           \A b, c \in DOMAIN global : Size[b] = Size[c]
    PROVE  CdsCoverage(global, i) = Weight(global, CdsOutput(global, i))
<1>1. PICK f, k : f = FreqThreshold(global, i) /\ k = NumToAdd(global, i)
  OBVIOUS
<1>2. PICK M, A, T : /\ M = MoreFrequent(global, f) /\ A = AsFrequent(global, f)
                     /\ T = FirstOf(A, k)
  OBVIOUS
<1>3. /\ CdsOutput(global, i) = M \cup T /\ k \in Nat /\ Cardinality(T) = k /\ T \subseteq A
      /\ IsFiniteSet(T) /\ M \cap A = {} /\ A # {}
  BY <1>1, <1>2, CdsOutputIs
<1>4. /\ M \in SUBSET (DOMAIN global) /\ A \in SUBSET (DOMAIN global)
      /\ IsFiniteSet(M) /\ IsFiniteSet(A) /\ Cardinality(A) \in Nat
  BY <1>2, FrequentType
<1>5. DOMAIN global \subseteq Block /\ (\A b \in DOMAIN global : global[b] \in Nat) /\ f \in Nat
  BY <1>1, FreqThresholdIs DEF IsIndex
<1>6. PICK z \in Nat : \A b \in DOMAIN global : Size[b] = z
  <2>1. PICK d \in DOMAIN global : TRUE
    OBVIOUS
  <2>2. Size[d] \in Nat
    BY <1>5, TraceAssumption
  <2>3. QED
    BY <2>1, <2>2
<1>7. SumFunctionOnSet(Size, A) \div Cardinality(A) = z
  <2>1. PICK n \in Nat \ {0} : n = Cardinality(A)
    BY <1>3, <1>4, FS_EmptySet
  <2>2. SumFunctionOnSet(Size, A) = n * z
    BY <1>4, <1>5, <1>6, <2>1, SumOfSame
  <2>3. QED
    BY <2>1, <2>2, DivTimes
<1>8. Weight(global, M \cup T) = Weight(global, M) + (f * z) * k
  <2>1. \A b \in T : Size[b] = z /\ global[b] = f
    BY <1>2, <1>3, <1>4, <1>6 DEF AsFrequent
  <2>2. M \in SUBSET Block /\ T \in SUBSET Block /\ M \cap T = {} /\ \A b \in M : global[b] \in Nat
    BY <1>3, <1>4, <1>5
  <2>3. SameBeside(global, M, T, f, z)
    BY <1>3, <1>4, <1>5, <1>6, <2>1, <2>2 DEF SameBeside
  <2>4. Weight(global, M \cup T) = Weight(global, M) + (f * z) * Cardinality(T)
    BY <2>3, WeightOfSame
  <2>5. QED
    BY <1>3, <2>4
<1>9. CdsCoverage(global, i) = Weight(global, M) + f * k * z
  BY <1>1, <1>2, <1>7 DEF CdsCoverage
<1>10. f * k * z = (f * z) * k
  BY <1>3, <1>5
<1>11. QED
  BY <1>3, <1>8, <1>9, <1>10

LEMMA IndexMostFrequent ==
    ASSUME NEW global, IsIndex(global)
    PROVE  MostFrequent(global)
<1> SUFFICES ASSUME NEW i \in 1..PERCENT
             PROVE  /\ Cardinality(CdsOutput(global, i)) = SizeThreshold(global, i)
                    /\ \A b \in CdsOutput(global, i), c \in DOMAIN global \ CdsOutput(global, i) :
                          global[b] >= global[c]
                    /\ i < PERCENT => CdsOutput(global, i) \subseteq CdsOutput(global, i + 1)
                    /\ (\A b, c \in DOMAIN global : Size[b] = Size[c]) =>
                          (DOMAIN global # {} =>
                                CdsCoverage(global, i) = Weight(global, CdsOutput(global, i)))
  BY DEF MostFrequent
<1>1. /\ Cardinality(CdsOutput(global, i)) = SizeThreshold(global, i)
      /\ \A b \in CdsOutput(global, i), c \in DOMAIN global \ CdsOutput(global, i) :
            global[b] >= global[c]
  BY CdsOutputRight
<1>2. i < PERCENT => CdsOutput(global, i) \subseteq CdsOutput(global, i + 1)
  BY CdsOutputGrows
<1>3. ASSUME \A b, c \in DOMAIN global : Size[b] = Size[c], DOMAIN global # {}
      PROVE  CdsCoverage(global, i) = Weight(global, CdsOutput(global, i))
  BY <1>3, CoverageRight
<1>4. QED
  BY <1>1, <1>2, <1>3

(* The CDS files: the partitions do not mix. *)
LEMMA CdsFilePartition ==
    ASSUME VmsOK, NEW i \in 1..PERCENT, NEW p \in 0..(PARTITIONS - 1)
    PROVE  /\ CdsFile(vms, i) \cap InPartition(p) = CdsOutput(GlobalOf(p), i)
           /\ CdsOutput(GlobalOf(p), i) \subseteq Range(Counted(vms, Len(vms), p))
<1>1. ASSUME NEW q
      PROVE  /\ CdsOutput(GlobalOf(q), i) \subseteq Range(Counted(vms, Len(vms), q))
             /\ CdsOutput(GlobalOf(q), i) \subseteq InPartition(q)
  <2>1. PICK s \in Seq(Block) : s = Counted(vms, Len(vms), q)
    BY CountedType, VmsAt DEF Blocks
  <2>2. Range(s) \subseteq InPartition(q)
    BY <2>1, CountedType, VmsAt
  <2>3. IsIndex(GlobalIndex(s)) /\ DOMAIN GlobalIndex(s) = Range(s)
    BY GlobalIndexIs
  <2>4. CdsOutput(GlobalIndex(s), i) \subseteq Range(s)
    BY <2>3, CdsOutputRight
  <2>5. QED
    BY <2>1, <2>2, <2>4 DEF GlobalOf
<1>2. CdsFile(vms, i) = UNION {CdsOutput(GlobalOf(q), i) : q \in 0..(PARTITIONS - 1)}
  BY DEF CdsFile, GlobalOf
<1>3. \A q : q # p => InPartition(q) \cap InPartition(p) = {}
  BY DEF InPartition
<1>4. CdsFile(vms, i) \cap InPartition(p) \subseteq CdsOutput(GlobalOf(p), i)
  BY <1>1, <1>2, <1>3
<1>5. CdsOutput(GlobalOf(p), i) \subseteq CdsFile(vms, i) \cap InPartition(p)
  BY <1>1, <1>2
<1>6. QED
  BY <1>1, <1>4, <1>5

LEMMA FoundWeighs ==
    ASSUME VmsOK, NEW i \in 1..PERCENT, NEW p \in 0..(PARTITIONS - 1)
    PROVE  Weight(GlobalOf(p), CdsOutput(GlobalOf(p), i))
           = BytesOf(Among(FoundOf(CdsFile(vms, i)), InPartition(p)))
<1>1. PICK K : K = CdsOutput(GlobalOf(p), i)
  OBVIOUS
<1>2. PICK s \in Seq(Block) : s = Counted(vms, Len(vms), p)
  BY CountedType, VmsAt DEF Blocks
<1>3. CdsFile(vms, i) \cap InPartition(p) = K /\ K \in SUBSET Range(s)
  BY <1>1, <1>2, CdsFilePartition
<1>4. Among(FoundOf(CdsFile(vms, i)), InPartition(p)) = Among(s, K)
  BY <1>2, <1>3, TotalFound
<1>5. Weight(GlobalIndex(s), K) = BytesOf(Among(s, K))
  BY <1>3, WeightCounted
<1>6. GlobalOf(p) = GlobalIndex(s)
  BY <1>2 DEF GlobalOf
<1>7. QED
  BY <1>1, <1>4, <1>5, <1>6

LEMMA VmsSimulatedAsCounted == VmsOK => SimulatedAsCounted
<1>1. SUFFICES ASSUME VmsOK, NEW i \in 1..PERCENT, NEW cds \in {CdsFile(vms, i)},
                      NEW found \in {FoundOf(cds)}, NEW p \in 0..(PARTITIONS - 1),
                      NEW global \in {GlobalOf(p)}
               PROVE  Weight(global, CdsOutput(global, i)) = BytesOf(Among(found, InPartition(p)))
  BY DEF SimulatedAsCounted, FoundOf
<1>2. cds = CdsFile(vms, i) /\ found = FoundOf(cds) /\ global = GlobalOf(p)
  OBVIOUS
<1>3. Weight(GlobalOf(p), CdsOutput(GlobalOf(p), i))
      = BytesOf(Among(FoundOf(CdsFile(vms, i)), InPartition(p)))
  BY <1>1, FoundWeighs
<1>4. QED
  BY <1>2, <1>3

LEMMA VmRawType ==
    ASSUME NEW vm \in Seq(Blocks)
    PROVE  Raw(vm) \in Blocks
<1>1. PICK R \in Nat : R = Rounds(vm)
  BY RoundsEnough
<1>2. PICK L \in Nat : L = Len(vm) /\ DOMAIN vm = 1..L
  BY LenProperties
<1>3. PICK f : f = [n \in 1..R |-> [j \in 1..L |-> SegmentAt(vm[j], n)]]
  OBVIOUS
<1>4. PICK u : u = [n \in 1..R |-> FlattenSeq(f[n])]
  OBVIOUS
<1>5. u = [n \in 1..R |-> FlattenSeq([j \in 1..L |-> SegmentAt(vm[j], n)])]
  BY <1>3, <1>4
<1>6. Raw(vm) = FlattenSeq(u)
  BY <1>1, <1>2, <1>5 DEF Raw, InAllRounds
<1>7. IsTable(f, R, L)
  <2>1. \A n \in 1..R, j \in 1..L : f[n][j] \in Blocks
    BY <1>2, <1>3, SegmentParts
  <2>2. QED
    BY <1>3, <2>1 DEF IsTable
<1>8. QED
  BY <1>4, <1>6, <1>7, TableType

LEMMA CountedNoLocalType == VmsOK => CountedNoLocal(vms) \in Blocks
<1> SUFFICES ASSUME VmsOK
             PROVE  CountedNoLocal(vms) \in Blocks
  OBVIOUS
<1>0. PICK k \in Nat : k = Len(vms)
  BY VmsAt
<1>1. Len(vms) - 0 = k /\ \A v \in 1..k : v + 0 = v
  BY <1>0
<1>2. PICK w : w = [v \in 1..k |-> Raw(vms[v + 0])]
  OBVIOUS
<1>3. CountedNoLocal(vms) = FlattenSeq(w)
  BY <1>1, <1>2 DEF CountedNoLocal, Total
<1>4. \A v \in 1..k : w[v] \in Blocks
  BY <1>0, <1>1, <1>2, VmsAt, VmRawType
<1>5. w = [v \in 1..k |-> w[v]]
  BY <1>2
<1>6. QED
  BY <1>3, <1>4, <1>5, BlocksFunction

LEMMA VmsDuplicatesRight == VmsOK => DuplicatesRight
<1> SUFFICES ASSUME VmsOK
             PROVE  DuplicatesRight
  OBVIOUS
<1>1. ASSUME NEW trace \in Range(AllTraces)
      PROVE  SegmentsRight(trace)
  <2>1. vms \in Seq(Seq(Blocks))
    <3>1. \A v \in 1..Len(vms) : vms[v] \in Seq(Blocks)
      BY VmsAt
    <3>2. Len(vms) \in Nat /\ vms = [v \in 1..Len(vms) |-> vms[v]]
      BY LenProperties DEF VmsOK
    <3>3. QED
      BY <3>1, <3>2, FunctionIsSeq
  <2>2. AllTraces \in Seq(Blocks)
    BY <2>1, FlattenType DEF AllTraces
  <2>3. trace \in Seq(Block)
    BY <2>2, ElementOfSeq, LenProperties DEF Range, Blocks
  <2>4. QED
    BY <2>3, SegmentsAreRight
<1>2. ASSUME NEW v \in Checkpoints(vms, -1, 1) \cup Checkpoints(vms, 1, 1), NEW p
      PROVE  MostFrequent(GlobalIndex(Counted(vms, v, p)))
  <2>1. v \in Nat /\ v <= Len(vms)
    <3>1. Len(vms) \in Nat /\ DOMAIN vms = 1..Len(vms)
      BY VmsAt
    <3>2. v = Len(vms) \/ v \in DOMAIN vms
      BY DEF Checkpoints
    <3>3. QED
      BY <3>1, <3>2
  <2>2. Counted(vms, v, p) \in Seq(Block)
    BY <2>1, CountedType DEF Blocks
  <2>3. QED
    BY <2>2, GlobalIndexIs, IndexMostFrequent
<1>3. ASSUME NEW i \in 1..PERCENT
      PROVE  Cardinality(CdsOutputNoLocal(GlobalIndex(CountedNoLocal(vms)), i))
             = SizeThreshold(GlobalIndex(CountedNoLocal(vms)), i)
  BY CountedNoLocalType, GlobalIndexIs, CdsOutputRight DEF CdsOutputNoLocal, Blocks
<1>4. SimulatedAsCounted /\ RawAsSimulated /\ SimilarityAdds
  BY VmsSimulatedAsCounted, VmsRawAsSimulated, VmsSimilarityAdds
<1>5. QED
  BY <1>1, <1>2, <1>3, <1>4 DEF DuplicatesRight

(* The segments that are loaded are those of the trace; a CDS has the most frequent blocks,
   as many as it shall, and grows with its share; cds_sim finds with the CDS what
   cds_distiller counted for it, partition by partition; and the search for similar segments
   loses nothing that the parent's segment has.  Whatever the traces, the size of a segment,
   the partitions and the number of shares. *)
THEOREM DuplicatesAreRight == Spec => []DuplicatesRight
<1>1. VmsOK => DuplicatesRight
  BY VmsDuplicatesRight
<1>2. QED
  BY <1>1, TracesAreTraces, PTL
-----------------------------------------------------------------------------
(***************************************************************************)
(* Programs that go through a sequence with a state.                       *)
(***************************************************************************)

AreRun(f, X, a, k, step) ==
    /\ f = [n \in 0..k |-> f[n]]
    /\ f[0] = a
    /\ \A n \in 0..k : f[n] \in X[n]
    /\ \A n \in 1..k : f[n] = step[<<f[n - 1], n>>]

(* A program whose n-th state is in X[n]: if each step leads there, it has k of them. *)
Leads(step, X, k) == \A n \in 1..k : \A x \in X[n - 1] : step[<<x, n>>] \in X[n]

LEMMA RunExists ==
    ASSUME NEW X, NEW a \in X[0], NEW k \in Nat, NEW step, Leads(step, X, k)
    PROVE  \E f : AreRun(f, X, a, k, step)
<1> DEFINE Goes(f, m) == AreRun(f, X, a, m, step)
           P == {m \in Nat : m <= k => \E f : Goes(f, m)}
<1>1. 0 \in P
  <2>1. PICK f : f = [n \in 0..0 |-> a]
    OBVIOUS
  <2>2. Goes(f, 0)
    BY <2>1 DEF AreRun
  <2> HIDE DEF Goes
  <2>3. QED
    BY <2>2
<1>2. ASSUME NEW m \in Nat, m \in P
      PROVE  m + 1 \in P
  <2>1. ASSUME m + 1 <= k
        PROVE  \E f : Goes(f, m + 1)
    <3>1. PICK f : AreRun(f, X, a, m, step)
      BY <1>2, <2>1
    <3>a. /\ f = [n \in 0..m |-> f[n]] /\ f[0] = a
          /\ \A n \in 0..m : f[n] \in X[n]
          /\ \A n \in 1..m : f[n] = step[<<f[n - 1], n>>]
      BY <3>1 DEF AreRun
    <3>2. m \in 0..m /\ m + 1 \in 1..k /\ f[m] \in X[(m + 1) - 1]
      BY <2>1, <3>a
    <3>3. PICK x \in X[m + 1] : x = step[<<f[m], m + 1>>]
      BY <3>2 DEF Leads
    <3>4. PICK g : g = [n \in 0..(m + 1) |-> IF n = m + 1 THEN x ELSE f[n]]
      OBVIOUS
    <3>5. g[m + 1] = x /\ \A n \in 0..m : g[n] = f[n]
      BY <3>4
    <3>6. \A n \in 1..(m + 1) : g[n] = step[<<g[n - 1], n>>]
      <4>1. ASSUME NEW n \in 1..(m + 1)
            PROVE  g[n] = step[<<g[n - 1], n>>]
        <5>1. CASE n = m + 1
          <6>1. n - 1 = m /\ g[m] = f[m]
            BY <3>5, <5>1
          <6>2. QED
            BY <3>3, <3>5, <5>1, <6>1
        <5>2. CASE n # m + 1
          <6>1. n \in 1..m /\ n \in 0..m /\ n - 1 \in 0..m
            BY <5>2
          <6>2. QED
            BY <3>a, <3>5, <6>1
        <5>3. QED
          BY <5>1, <5>2
      <4>2. QED
        BY <4>1
    <3>7. \A n \in 0..(m + 1) : g[n] \in X[n]
      BY <3>a, <3>3, <3>4
    <3>8. g = [n \in 0..(m + 1) |-> g[n]] /\ g[0] = a
      BY <3>a, <3>4
    <3>9. Goes(g, m + 1)
      BY <3>6, <3>7, <3>8 DEF AreRun
    <3> HIDE DEF Goes
    <3>10. QED
      BY <3>9
  <2> HIDE DEF Goes
  <2>2. QED
    BY <2>1
<1> HIDE DEF P
<1>3. Nat \subseteq P
  BY <1>1, <1>2, NatSetInduction
<1>4. QED
  BY <1>3 DEF P

(* The program has no other states. *)
Follows(g, X, k, step) ==
    \A n \in 1..k : g[n - 1] \in X[n - 1] => g[n] = step[<<g[n - 1], n>>]

LEMMA RunStays ==
    ASSUME NEW X, NEW k \in Nat, NEW step, Leads(step, X, k),
           NEW g, g[0] \in X[0], Follows(g, X, k, step)
    PROVE  \A n \in 0..k : g[n] \in X[n]
<1> DEFINE P == {n \in Nat : n <= k => g[n] \in X[n]}
<1>1. 0 \in P
  OBVIOUS
<1>2. ASSUME NEW n \in Nat, n \in P
      PROVE  n + 1 \in P
  <2>1. ASSUME n + 1 <= k
        PROVE  g[n + 1] \in X[n + 1]
    <3>1. n + 1 \in 1..k /\ (n + 1) - 1 = n /\ g[n] \in X[n]
      BY <1>2, <2>1
    <3>2. g[n + 1] = step[<<g[n], n + 1>>]
      BY <3>1 DEF Follows
    <3>3. QED
      BY <3>1, <3>2 DEF Leads
  <2>2. QED
    BY <2>1
<1> HIDE DEF P
<1>3. Nat \subseteq P
  BY <1>1, <1>2, NatSetInduction
<1>4. QED
  BY <1>3 DEF P

AreSteps(f, X, a, k, step) ==
    /\ f = [n \in 0..k |-> f[n]]
    /\ f[0] = a
    /\ \A n \in 0..k : f[n] \in X
    /\ \A n \in 1..k : f[n] = step[<<f[n - 1], n>>]

(* A step that stays in X can be taken k times. *)
LEMMA StepsExist ==
    ASSUME NEW X, NEW a \in X, NEW k \in Nat,
           NEW step, \A x \in X : \A n \in 1..k : step[<<x, n>>] \in X
    PROVE  \E f : AreSteps(f, X, a, k, step)
<1>1. PICK Y : Y = [n \in 0..k |-> X]
  OBVIOUS
<1>2. a \in Y[0] /\ \A n \in 0..k : Y[n] = X
  BY <1>1
<1>3. Leads(step, Y, k)
  <2>1. \A n \in 1..k : n \in 0..k /\ n - 1 \in 0..k
    OBVIOUS
  <2>2. QED
    BY <1>2, <2>1 DEF Leads
<1>4. PICK f : AreRun(f, Y, a, k, step)
  BY <1>2, <1>3, RunExists
<1>5. AreSteps(f, X, a, k, step)
  BY <1>2, <1>4 DEF AreRun, AreSteps
<1>6. QED
  BY <1>5

-----------------------------------------------------------------------------
(***************************************************************************)
(* The cache.                                                              *)
(***************************************************************************)
Ordered(s, R) == \A i, j \in DOMAIN s : i < j => <<s[i], s[j]>> \in R

Differ == {p \in Block \X Block : p[1] # p[2]}

LEMMA OrderedAppend ==
    ASSUME NEW T, NEW s \in Seq(T), NEW e \in T, NEW R, Ordered(s, R),
           \A x \in Range(s) : <<x, e>> \in R
    PROVE  Ordered(Append(s, e), R)
<1>1. PICK t, k : t = Append(s, e) /\ k = Len(s)
  OBVIOUS
<1>2. /\ k \in Nat /\ DOMAIN s = 1..k /\ DOMAIN t = 1..(k + 1)
      /\ \A i \in 1..k : t[i] = s[i]
      /\ t[k + 1] = e
  BY <1>1, AppendProperties, LenProperties
<1>3. ASSUME NEW i \in 1..(k + 1), NEW j \in 1..(k + 1), i < j
      PROVE  <<t[i], t[j]>> \in R
  <2>1. i \in 1..k
    BY <1>2, <1>3
  <2>2. t[i] = s[i] /\ s[i] \in Range(s)
    BY <1>2, <2>1 DEF Range
  <2>3. CASE j = k + 1
    BY <1>2, <2>2, <2>3
  <2>4. CASE j # k + 1
    <3>1. j \in 1..k
      BY <1>2, <2>4
    <3>2. QED
      BY <1>2, <1>3, <2>1, <3>1 DEF Ordered
  <2>5. QED
    BY <2>3, <2>4
<1>4. QED
  BY <1>1, <1>2, <1>3 DEF Ordered

LEMMA OrderedFront ==
    ASSUME NEW T, NEW s \in Seq(T), NEW e \in T, NEW R, Ordered(Append(s, e), R)
    PROVE  Ordered(s, R) /\ \A x \in Range(s) : <<x, e>> \in R
<1>1. PICK t, k : t = Append(s, e) /\ k = Len(s)
  OBVIOUS
<1>2. /\ k \in Nat /\ DOMAIN s = 1..k /\ DOMAIN t = 1..(k + 1)
      /\ \A i \in 1..k : t[i] = s[i]
      /\ t[k + 1] = e
  BY <1>1, AppendProperties, LenProperties
<1>3. \A i \in 1..k : i \in 1..(k + 1) /\ k + 1 \in 1..(k + 1) /\ i < k + 1
  BY <1>2
<1>4. \A i, j \in 1..(k + 1) : i < j => <<t[i], t[j]>> \in R
  BY <1>1, <1>2 DEF Ordered
<1>5. Ordered(s, R)
  BY <1>2, <1>3, <1>4 DEF Ordered
<1>6. \A i \in 1..k : <<s[i], e>> \in R
  BY <1>2, <1>3, <1>4
<1>7. QED
  BY <1>2, <1>5, <1>6 DEF Range

LEMMA AmongOrdered ==
    ASSUME NEW s \in Seq(Block), NEW S, NEW R, Ordered(s, R)
    PROVE  Ordered(Among(s, S), R)
<1> DEFINE P == {r \in Seq(Block) : Ordered(r, R) => Ordered(Among(r, S), R)}
<1>1. << >> \in P
  BY AmongEmpty, EmptySeq
<1>2. ASSUME NEW r \in Seq(Block), NEW e \in Block, r \in P
      PROVE  Append(r, e) \in P
  <2>1. ASSUME Ordered(Append(r, e), R)
        PROVE  Ordered(Among(Append(r, e), S), R)
    <3>1. Ordered(r, R) /\ \A x \in Range(r) : <<x, e>> \in R
      BY <2>1, OrderedFront
    <3>2. Among(r, S) \in Seq(Block) /\ Range(Among(r, S)) \subseteq Range(r)
      BY AmongType
    <3>3. Ordered(Among(r, S), R)
      BY <1>2, <3>1
    <3>4. Ordered(Append(Among(r, S), e), R)
      BY <3>1, <3>2, <3>3, OrderedAppend
    <3>5. QED
      BY <3>3, <3>4, AmongAppend
  <2>2. QED
    BY <2>1, AppendProperties
<1> HIDE DEF P
<1>3. Seq(Block) \subseteq P
  BY <1>1, <1>2, SeqSetInduction
<1>4. QED
  BY <1>3 DEF P

(* A sequence without repetitions is as long as the set of its elements. *)
LEMMA DistinctLength ==
    ASSUME NEW s \in Seq(Block), Ordered(s, Differ)
    PROVE  /\ IsFiniteSet(Range(s)) /\ Cardinality(Range(s)) = Len(s)
<1> DEFINE P == {r \in Seq(Block) : Ordered(r, Differ) => Cardinality(Range(r)) = Len(r)}
<1>1. << >> \in P
  <2>1. << >> \in Seq(Block) /\ Len(<< >>) = 0 /\ Range(<< >>) = {}
    BY EmptySeq DEF Range
  <2>2. Cardinality({}) = 0
    BY FS_EmptySet
  <2>3. QED
    BY <2>1, <2>2
<1>2. ASSUME NEW r \in Seq(Block), NEW e \in Block, r \in P
      PROVE  Append(r, e) \in P
  <2>1. ASSUME Ordered(Append(r, e), Differ)
        PROVE  Cardinality(Range(Append(r, e))) = Len(Append(r, e))
    <3>1. Ordered(r, Differ) /\ \A x \in Range(r) : <<x, e>> \in Differ
      BY <2>1, OrderedFront
    <3>2. e \notin Range(r) /\ Range(Append(r, e)) = Range(r) \cup {e}
      BY <3>1, RangeAppend DEF Differ
    <3>3. IsFiniteSet(Range(r)) /\ Cardinality(Range(r)) = Len(r) /\ Len(r) \in Nat
      BY <1>2, <3>1, RangeFinite, LenProperties
    <3>4. Cardinality(Range(r) \cup {e}) = Len(r) + 1
      BY <3>2, <3>3, FS_AddElement
    <3>5. Len(Append(r, e)) = Len(r) + 1
      BY AppendProperties
    <3>6. QED
      BY <3>2, <3>4, <3>5
  <2>2. QED
    BY <2>1, AppendProperties
<1> HIDE DEF P
<1>3. Seq(Block) \subseteq P
  BY <1>1, <1>2, SeqSetInduction
<1>4. QED
  BY <1>3, RangeFinite DEF P

Without(s, b) == Among(s, Block \ {b})

LEMMA WithoutIs ==
    ASSUME NEW s \in Seq(Block), Ordered(s, Differ), NEW b \in Range(s)
    PROVE  /\ Without(s, b) \in Seq(Block)
           /\ Range(Without(s, b)) = Range(s) \ {b}
           /\ Len(Without(s, b)) = Len(s) - 1
           /\ Ordered(Without(s, b), Differ)
<1>1. PICK t : t = Without(s, b)
  OBVIOUS
<1>2. t \in Seq(Block) /\ Range(t) = Range(s) \cap (Block \ {b}) /\ Ordered(t, Differ)
  BY <1>1, AmongType, AmongOrdered DEF Without
<1>3. Range(s) \subseteq Block
  BY ElementOfSeq, LenProperties DEF Range
<1>4. Range(t) = Range(s) \ {b}
  BY <1>2, <1>3
<1>5. /\ IsFiniteSet(Range(s)) /\ Cardinality(Range(s)) = Len(s)
      /\ Cardinality(Range(t)) = Len(t) /\ Len(s) \in Nat /\ Len(t) \in Nat
  BY <1>2, DistinctLength, LenProperties
<1>6. Cardinality(Range(s) \ {b}) = Cardinality(Range(s)) - 1
  BY <1>5, FS_RemoveElement
<1>7. QED
  BY <1>1, <1>2, <1>4, <1>5, <1>6

LEMMA TailIs ==
    ASSUME NEW s \in Seq(Block), s # << >>, NEW R, Ordered(s, R)
    PROVE  /\ Head(s) \in Block /\ Tail(s) \in Seq(Block) /\ Len(Tail(s)) = Len(s) - 1
           /\ Range(s) = Range(Tail(s)) \cup {Head(s)}
           /\ Ordered(Tail(s), R)
           /\ \A x \in Range(Tail(s)) : <<Head(s), x>> \in R
<1>1. PICK t, k : t = Tail(s) /\ k = Len(s)
  OBVIOUS
<1>2. /\ k \in Nat \ {0} /\ DOMAIN s = 1..k /\ t \in Seq(Block) /\ Len(t) = k - 1
      /\ \A i \in 1..(k - 1) : t[i] = s[i + 1]
      /\ Head(s) = s[1] /\ s[1] \in Block
  BY <1>1, EmptySeq, LenProperties, HeadTailProperties, ElementOfSeq
<1>3. DOMAIN t = 1..(k - 1)
  BY <1>2, LenProperties
<1>4. \A i \in 1..(k - 1) : i + 1 \in 1..k /\ 1 \in 1..k /\ 1 < i + 1
  BY <1>2
<1>5. \A i \in 1..k : i = 1 \/ (i - 1 \in 1..(k - 1) /\ s[i] = t[i - 1])
  <2>1. \A i \in 1..k : i = 1 \/ (i - 1 \in 1..(k - 1) /\ (i - 1) + 1 = i)
    BY <1>2
  <2>2. QED
    BY <1>2, <2>1
<1>6. Range(s) = Range(t) \cup {Head(s)}
  <2>1. \A i \in 1..k : s[i] \in Range(t) \cup {Head(s)}
    BY <1>2, <1>3, <1>5 DEF Range
  <2>2. \A i \in 1..(k - 1) : t[i] \in Range(s)
    BY <1>2, <1>4 DEF Range
  <2>3. Head(s) \in Range(s)
    BY <1>2 DEF Range
  <2>4. QED
    BY <1>2, <1>3, <2>1, <2>2, <2>3 DEF Range
<1>7. \A i, j \in 1..(k - 1) : i < j => i + 1 < j + 1
  BY <1>2
<1>8. Ordered(t, R)
  BY <1>2, <1>3, <1>4, <1>7 DEF Ordered
<1>9. \A i \in 1..(k - 1) : <<s[1], t[i]>> \in R
  BY <1>2, <1>4 DEF Ordered
<1>10. \A x \in Range(t) : <<Head(s), x>> \in R
  BY <1>2, <1>3, <1>9 DEF Range
<1>11. QED
  BY <1>1, <1>2, <1>6, <1>8, <1>10

LEMMA HeadNotInTail ==
    ASSUME NEW s \in Seq(Block), s # << >>, Ordered(s, Differ)
    PROVE  Range(Tail(s)) = Range(s) \ {Head(s)}
<1>1. /\ Range(s) = Range(Tail(s)) \cup {Head(s)}
      /\ \A x \in Range(Tail(s)) : <<Head(s), x>> \in Differ
  BY TailIs
<1>2. \A x \in Range(Tail(s)) : x # Head(s)
  BY <1>1 DEF Differ
<1>3. QED
  BY <1>1, <1>2

LEMMA PutFirst ==
    ASSUME NEW s \in Seq(Block), NEW e \in Block, e \notin Range(s), Ordered(s, Differ)
    PROVE  /\ <<e>> \o s \in Seq(Block) /\ Range(<<e>> \o s) = Range(s) \cup {e}
           /\ Ordered(<<e>> \o s, Differ)
<1>1. PICK t, k : t = <<e>> \o s /\ k = Len(s)
  OBVIOUS
<1>2. <<e>> \in Seq(Block) /\ Len(<<e>>) = 1 /\ <<e>>[1] = e
  OBVIOUS
<1>3. /\ k \in Nat /\ DOMAIN s = 1..k /\ t \in Seq(Block) /\ Len(t) = 1 + k
      /\ \A i \in 1..(1 + k) : t[i] = IF i <= 1 THEN <<e>>[i] ELSE s[i - 1]
  BY <1>1, <1>2, ConcatProperties, LenProperties
<1>4. t[1] = e /\ \A i \in 1..k : i + 1 \in 1..(1 + k) /\ t[i + 1] = s[i]
  BY <1>2, <1>3
<1>5. \A i \in 1..(1 + k) : i = 1 \/ (i - 1 \in 1..k /\ t[i] = s[i - 1])
  BY <1>3
<1>6. DOMAIN t = 1..(1 + k)
  BY <1>3, LenProperties
<1>7. Range(t) = Range(s) \cup {e}
  <2>1. \A i \in 1..(1 + k) : t[i] \in Range(s) \cup {e}
    BY <1>3, <1>4, <1>5 DEF Range
  <2>2. \A i \in 1..k : s[i] \in Range(t)
    BY <1>4, <1>6 DEF Range
  <2>3. e \in Range(t)
    <3>1. 1 \in 1..(1 + k)
      BY <1>3
    <3>2. QED
      BY <1>4, <1>6, <3>1 DEF Range
  <2>4. QED
    BY <1>3, <1>6, <2>1, <2>2, <2>3 DEF Range
<1>8. Range(s) \subseteq Block
  BY ElementOfSeq, LenProperties DEF Range
<1>9. ASSUME NEW i \in 1..(1 + k), NEW j \in 1..(1 + k), i < j
      PROVE  <<t[i], t[j]>> \in Differ
  <2>1. j - 1 \in 1..k /\ t[j] = s[j - 1] /\ s[j - 1] \in Range(s)
    BY <1>3, <1>5, <1>9 DEF Range
  <2>2. CASE i = 1
    BY <1>4, <1>8, <2>1, <2>2 DEF Differ
  <2>3. CASE i # 1
    <3>1. i - 1 \in 1..k /\ t[i] = s[i - 1] /\ i - 1 < j - 1
      BY <1>3, <1>5, <1>9, <2>1, <2>3
    <3>2. QED
      BY <1>3, <2>1, <3>1 DEF Ordered
  <2>4. QED
    BY <2>2, <2>3
<1>10. QED
  BY <1>1, <1>3, <1>6, <1>7, <1>9 DEF Ordered

Chains == 0..(LRU_HASH_SIZE - 1)

Caches == [curSize : Nat, list : Seq(Block), hash : [Chains -> Seq(Block)]]

(* Each chain of a hash table has the blocks of a set with its number. *)
HashHas(h, S) ==
    /\ h \in [Chains -> Seq(Block)]
    /\ \A i \in Chains : /\ Ordered(h[i], Differ)
                         /\ Range(h[i]) = {b \in S : HashOf(b) = i}

CacheOK(c, k) ==
    /\ c \in Caches
    /\ c.curSize = Len(c.list) /\ Len(c.list) <= k
    /\ Ordered(c.list, Differ)
    /\ HashHas(c.hash, Range(c.list))

(* What is left of the list before the block that is touched comes to its end. *)
Rest(c, k, b) ==
    IF b \in Range(c.list) THEN Without(c.list, b)
    ELSE IF Len(c.list) >= k THEN Tail(c.list)
    ELSE c.list

LEMMA RangeInBlock ==
    ASSUME NEW s \in Seq(Block)
    PROVE  Range(s) \subseteq Block
BY ElementOfSeq, LenProperties DEF Range

LEMMA HashOfType ==
    ASSUME NEW b \in Block
    PROVE  HashOf(b) \in Chains
<1>1. \A x \in Nat, y \in Nat \ {0} : x % y \in 0..(y - 1)
  OBVIOUS
<1>2. b \in Nat /\ LRU_HASH_SIZE \in Nat \ {0}
  BY TraceAssumption, SamplingAssumption
<1>3. QED
  BY <1>1, <1>2 DEF HashOf, Chains

LEMMA EmptyRange ==
    Range(<< >>) = {} /\ \A R : Ordered(<< >>, R)
BY EmptySeq DEF Range, Ordered

LEMMA LruCacheOK ==
    ASSUME NEW k \in Nat
    PROVE  CacheOK(LruCache, k) /\ LruCache.list = << >>
<1>1. LruCache \in Caches
  BY EmptySeq DEF LruCache, Caches, Chains
<1>2. LruCache.list = << >> /\ LruCache.curSize = 0 /\ \A i \in Chains : LruCache.hash[i] = << >>
  BY DEF LruCache, Chains
<1>3. HashHas(LruCache.hash, Range(LruCache.list))
  BY <1>1, <1>2, EmptyRange DEF HashHas, Caches
<1>4. QED
  BY <1>1, <1>2, <1>3, EmptyRange, EmptySeq DEF CacheOK

LEMMA FoundIs ==
    ASSUME NEW k, NEW c, CacheOK(c, k), NEW b \in Block
    PROVE  Found(c, b) <=> b \in Range(c.list)
<1>1. b \in Range(c.hash[HashOf(b)]) <=> b \in Range(c.list)
  BY HashOfType DEF CacheOK, HashHas
<1>2. b \in Range(c.list) => c.list # << >>
  BY EmptyRange
<1>3. QED
  BY <1>1, <1>2 DEF Found

LEMMA RestIs ==
    ASSUME NEW k \in Nat \ {0}, NEW c, CacheOK(c, k), NEW b \in Block
    PROVE  /\ Rest(c, k, b) \in Seq(Block)
           /\ Len(Rest(c, k, b)) < k
           /\ Ordered(Rest(c, k, b), Differ)
           /\ Range(Rest(c, k, b)) \subseteq Range(c.list)
           /\ b \notin Range(Rest(c, k, b))
<1>0. c.list \in Seq(Block) /\ Ordered(c.list, Differ) /\ Len(c.list) \in Nat /\ Len(c.list) <= k
  BY LenProperties DEF CacheOK, Caches
<1>1. CASE b \in Range(c.list)
  BY <1>0, <1>1, WithoutIs DEF Rest
<1>2. CASE b \notin Range(c.list) /\ Len(c.list) >= k
  <2>1. c.list # << >>
    BY <1>0, <1>2, EmptySeq
  <2>2. Range(Tail(c.list)) = Range(c.list) \ {Head(c.list)}
    BY <1>0, <2>1, HeadNotInTail
  <2>3. /\ Tail(c.list) \in Seq(Block) /\ Len(Tail(c.list)) = Len(c.list) - 1
        /\ Ordered(Tail(c.list), Differ)
    BY <1>0, <2>1, TailIs
  <2>4. QED
    BY <1>0, <1>2, <2>2, <2>3 DEF Rest
<1>3. CASE b \notin Range(c.list) /\ ~(Len(c.list) >= k)
  BY <1>0, <1>3 DEF Rest
<1>4. QED
  BY <1>1, <1>2, <1>3

LEMMA RestOrdered ==
    ASSUME NEW k \in Nat \ {0}, NEW c, CacheOK(c, k), NEW b \in Block, NEW R, Ordered(c.list, R)
    PROVE  Ordered(Rest(c, k, b), R)
<1>0. c.list \in Seq(Block) /\ Len(c.list) \in Nat /\ Len(c.list) <= k
  BY LenProperties DEF CacheOK, Caches
<1>1. CASE b \in Range(c.list)
  BY <1>0, <1>1, AmongOrdered DEF Rest, Without
<1>2. CASE b \notin Range(c.list) /\ Len(c.list) >= k
  <2>1. c.list # << >>
    BY <1>0, <1>2, EmptySeq
  <2>2. QED
    BY <1>0, <1>2, <2>1, TailIs DEF Rest
<1>3. CASE b \notin Range(c.list) /\ ~(Len(c.list) >= k)
  BY <1>0, <1>3 DEF Rest
<1>4. QED
  BY <1>1, <1>2, <1>3

LEMMA InsertHashIs ==
    ASSUME NEW h, NEW S, HashHas(h, S), NEW b \in Block, b \notin S
    PROVE  HashHas(InsertHash(h, b), S \cup {b})
<1>1. PICK e, g : e = HashOf(b) /\ g = InsertHash(h, b)
  OBVIOUS
<1>2. /\ e \in Chains /\ h \in [Chains -> Seq(Block)]
      /\ b \notin Range(h[e]) /\ Ordered(h[e], Differ)
  BY <1>1, HashOfType DEF HashHas
<1>3. /\ <<b>> \o h[e] \in Seq(Block) /\ Range(<<b>> \o h[e]) = Range(h[e]) \cup {b}
      /\ Ordered(<<b>> \o h[e], Differ)
  BY <1>2, PutFirst
<1>4. g = [h EXCEPT ![e] = <<b>> \o h[e]]
  BY <1>1 DEF InsertHash
<1>5. /\ g[e] = <<b>> \o h[e] /\ \A i \in Chains \ {e} : g[i] = h[i]
      /\ g \in [Chains -> Seq(Block)]
  BY <1>2, <1>3, <1>4
<1>6. ASSUME NEW i \in Chains
      PROVE  Ordered(g[i], Differ) /\ Range(g[i]) = {x \in S \cup {b} : HashOf(x) = i}
  <2>0. Ordered(h[i], Differ) /\ Range(h[i]) = {x \in S : HashOf(x) = i}
    BY DEF HashHas
  <2>1. CASE i = e
    BY <1>1, <1>3, <1>5, <2>0, <2>1
  <2>2. CASE i # e
    BY <1>1, <1>5, <2>0, <2>2
  <2>3. QED
    BY <2>1, <2>2
<1>7. QED
  BY <1>1, <1>5, <1>6 DEF HashHas

LEMMA RemoveHashIs ==
    ASSUME NEW h, NEW S, HashHas(h, S), NEW b \in Block, b \in S
    PROVE  HashHas(RemoveHash(h, b), S \ {b})
<1>1. PICK e, g : e = HashOf(b) /\ g = RemoveHash(h, b)
  OBVIOUS
<1>2. /\ e \in Chains /\ h \in [Chains -> Seq(Block)] /\ h[e] \in Seq(Block)
      /\ b \in Range(h[e]) /\ Ordered(h[e], Differ)
  BY <1>1, HashOfType DEF HashHas
<1>3. /\ Without(h[e], b) \in Seq(Block) /\ Range(Without(h[e], b)) = Range(h[e]) \ {b}
      /\ Ordered(Without(h[e], b), Differ)
  BY <1>2, WithoutIs
<1>4. g = [h EXCEPT ![e] = Without(h[e], b)]
  BY <1>1 DEF RemoveHash, Without
<1>5. /\ g[e] = Without(h[e], b) /\ \A i \in Chains \ {e} : g[i] = h[i]
      /\ g \in [Chains -> Seq(Block)]
  BY <1>2, <1>3, <1>4
<1>6. ASSUME NEW i \in Chains
      PROVE  Ordered(g[i], Differ) /\ Range(g[i]) = {x \in S \ {b} : HashOf(x) = i}
  <2>0. Ordered(h[i], Differ) /\ Range(h[i]) = {x \in S : HashOf(x) = i}
    BY DEF HashHas
  <2>1. CASE i = e
    BY <1>1, <1>3, <1>5, <2>0, <2>1
  <2>2. CASE i # e
    BY <1>1, <1>5, <2>0, <2>2
  <2>3. QED
    BY <2>1, <2>2
<1>7. QED
  BY <1>1, <1>5, <1>6 DEF HashHas

LEMMA TouchIs ==
    ASSUME NEW k \in Nat \ {0}, NEW c, CacheOK(c, k), NEW b \in Block
    PROVE  CacheOK(Touch(c, k, b), k) /\ Touch(c, k, b).list = Append(Rest(c, k, b), b)
<1>0. /\ c \in Caches /\ c.list \in Seq(Block) /\ Ordered(c.list, Differ)
      /\ Len(c.list) \in Nat /\ Len(c.list) <= k
      /\ c.curSize = Len(c.list) /\ HashHas(c.hash, Range(c.list))
  BY LenProperties DEF CacheOK, Caches
<1>1. PICK d, r : d = Touch(c, k, b) /\ r = Rest(c, k, b)
  OBVIOUS
<1>2. r \in Seq(Block) /\ Len(r) < k /\ Ordered(r, Differ) /\ b \notin Range(r) /\ Len(r) \in Nat
  BY <1>1, RestIs, LenProperties
<1>3. \E h : /\ HashHas(h, Range(r) \cup {b})
             /\ d = [curSize |-> Len(r) + 1, list |-> Append(r, b), hash |-> h]
  <2>1. CASE b \in Range(c.list)
    <3>1. r = Without(c.list, b)
      BY <1>1, <2>1 DEF Rest
    <3>2. Len(r) + 1 = Len(c.list) /\ Range(r) \cup {b} = Range(c.list)
      BY <1>0, <2>1, <3>1, WithoutIs
    <3>3. d = [c EXCEPT !.list = Append(r, b)]
      BY <1>1, <2>1, <3>1, FoundIs DEF Touch, SearchItem, Without
    <3>4. d = [curSize |-> Len(r) + 1, list |-> Append(r, b), hash |-> c.hash]
      BY <1>0, <3>2, <3>3 DEF Caches
    <3>5. QED
      BY <1>0, <3>2, <3>4
  <2>2. CASE b \notin Range(c.list) /\ ~(Len(c.list) >= k)
    <3>1. r = c.list
      BY <1>1, <2>2 DEF Rest
    <3>2. d = AddItem(WithRoom(c, k), b)
      BY <1>1, <2>2, FoundIs DEF Touch
    <3>3. WithRoom(c, k) = [c EXCEPT !.curSize = @ + 1]
      BY <1>0, <2>2 DEF WithRoom
    <3>4. d = [curSize |-> Len(r) + 1, list |-> Append(r, b), hash |-> InsertHash(c.hash, b)]
      BY <1>0, <3>1, <3>2, <3>3 DEF Caches, AddItem
    <3>5. QED
      BY <1>0, <2>2, <3>1, <3>4, InsertHashIs
  <2>3. CASE b \notin Range(c.list) /\ Len(c.list) >= k
    <3>1. r = Tail(c.list)
      BY <1>1, <2>3 DEF Rest
    <3>2. PICK e, g : e = Head(c.list) /\ g = RemoveHash(c.hash, e)
      OBVIOUS
    <3>3. c.list # << >>
      BY <1>0, <2>3, EmptySeq
    <3>4. e \in Block /\ e \in Range(c.list) /\ Range(r) = Range(c.list) \ {e} /\ Len(r) + 1 = Len(c.list)
      BY <1>0, <3>1, <3>2, <3>3, TailIs, HeadNotInTail
    <3>5. HashHas(g, Range(r))
      BY <1>0, <3>2, <3>4, RemoveHashIs
    <3>6. HashHas(InsertHash(g, b), Range(r) \cup {b})
      BY <1>2, <3>5, InsertHashIs
    <3>7. d = AddItem(WithRoom(c, k), b)
      BY <1>1, <2>3, FoundIs DEF Touch
    <3>8. WithRoom(c, k) = [c EXCEPT !.hash = g, !.list = r]
      BY <1>0, <2>3, <3>1, <3>2 DEF WithRoom, DropItem
    <3>9. WithRoom(c, k) = [curSize |-> Len(r) + 1, list |-> r, hash |-> g]
      BY <1>0, <3>4, <3>8 DEF Caches
    <3>10. d = [curSize |-> Len(r) + 1, list |-> Append(r, b), hash |-> InsertHash(g, b)]
      <4>1. PICK w, i : w = WithRoom(c, k) /\ i = InsertHash(g, b)
        OBVIOUS
      <4>2. w = [curSize |-> Len(r) + 1, list |-> r, hash |-> g]
        BY <3>9, <4>1
      <4>3. d = [w EXCEPT !.list = Append(w.list, b), !.hash = InsertHash(w.hash, b)]
        BY <3>7, <4>1 DEF AddItem
      <4>4. w.list = r /\ w.hash = g
        BY <4>2
      <4>5. d = [w EXCEPT !.list = Append(r, b), !.hash = i]
        BY <4>1, <4>3, <4>4
      <4>6. d = [curSize |-> Len(r) + 1, list |-> Append(r, b), hash |-> i]
        BY <4>2, <4>5
      <4>7. QED
        BY <4>1, <4>6
    <3>11. QED
      BY <3>6, <3>10
  <2>4. QED
    BY <2>1, <2>2, <2>3
<1>4. PICK h : /\ HashHas(h, Range(r) \cup {b})
               /\ d = [curSize |-> Len(r) + 1, list |-> Append(r, b), hash |-> h]
  BY <1>3
<1>5. /\ Append(r, b) \in Seq(Block) /\ Len(Append(r, b)) = Len(r) + 1
      /\ Range(Append(r, b)) = Range(r) \cup {b}
  BY <1>2, AppendProperties, RangeAppend
<1>6. \A x \in Range(r) : <<x, b>> \in Differ
  BY <1>2, RangeInBlock DEF Differ
<1>7. Ordered(Append(r, b), Differ)
  BY <1>2, <1>6, OrderedAppend
<1>8. d.curSize = Len(r) + 1 /\ d.list = Append(r, b) /\ d.hash = h
  BY <1>4
<1>9. d \in Caches
  BY <1>2, <1>4, <1>5 DEF Caches, HashHas
<1>10. HashHas(d.hash, Range(d.list))
  BY <1>4, <1>5, <1>8
<1>11. d.curSize = Len(d.list) /\ Len(d.list) <= k /\ Ordered(d.list, Differ)
  BY <1>2, <1>5, <1>7, <1>8
<1>12. CacheOK(d, k)
  BY <1>9, <1>10, <1>11 DEF CacheOK
<1>13. QED
  BY <1>1, <1>8, <1>12

ItemsAdded(f, c, k, seg) ==
    /\ f[0] = c
    /\ \A n \in 0..Len(seg) : CacheOK(f[n], k)
    /\ \A n \in 1..Len(seg) : f[n] = Touch(f[n - 1], k, seg[n])

LEMMA AddItemsIs ==
    ASSUME NEW k \in Nat \ {0}, NEW c, CacheOK(c, k), NEW seg \in Seq(Block)
    PROVE  \E f : ItemsAdded(f, c, k, seg) /\ AddItems(c, k, seg) = f[Len(seg)]
<1> DEFINE X == {d \in Caches : CacheOK(d, k)}
           step == [p \in X \X (1..Len(seg)) |-> Touch(p[1], k, seg[p[2]])]
           Adds(f) == f = [n \in 0..Len(seg) |-> IF n = 0 THEN c ELSE Touch(f[n - 1], k, seg[n])]
<1>0. Len(seg) \in Nat /\ \A n \in 1..Len(seg) : seg[n] \in Block
  BY LenProperties, ElementOfSeq
<1>1. \A d : d \in X <=> CacheOK(d, k)
  BY DEF CacheOK
<1> HIDE DEF X
<1>2. \A d \in X : \A n \in 1..Len(seg) :
          step[<<d, n>>] = Touch(d, k, seg[n]) /\ step[<<d, n>>] \in X
  BY <1>0, <1>1, TouchIs
<1>3. c \in X
  BY <1>1
<1> HIDE DEF step
<1>q. \A d \in X : \A n \in 1..Len(seg) : step[<<d, n>>] \in X
  BY <1>2
<1>f. PICK f : AreSteps(f, X, c, Len(seg), step)
  BY <1>0, <1>q, <1>3, StepsExist
<1>4. /\ f = [n \in 0..Len(seg) |-> f[n]]
      /\ f[0] = c
      /\ \A n \in 0..Len(seg) : f[n] \in X
      /\ \A n \in 1..Len(seg) : f[n] = step[<<f[n - 1], n>>]
  BY <1>f DEF AreSteps
<1>5. \A n \in 1..Len(seg) : f[n] = Touch(f[n - 1], k, seg[n])
  BY <1>0, <1>2, <1>4
<1>6. Adds(f)
  BY <1>0, <1>4, <1>5
<1>7. PICK g : Adds(g) /\ AddItems(c, k, seg) = g[Len(seg)]
  <2>1. AddItems(c, k, seg) = (CHOOSE g : Adds(g))[Len(seg)]
    BY DEF AddItems
  <2> HIDE DEF Adds
  <2>2. QED
    BY <1>6, <2>1
<1>8. g[0] = c /\ \A n \in 1..Len(seg) : g[n] = Touch(g[n - 1], k, seg[n])
  <2>1. g = [n \in 0..Len(seg) |-> IF n = 0 THEN c ELSE Touch(g[n - 1], k, seg[n])]
    BY <1>7
  <2>2. 0 \in 0..Len(seg) /\ \A n \in 1..Len(seg) : n \in 0..Len(seg) /\ n # 0
    BY <1>0
  <2>3. g[0] = c
    BY <2>1, <2>2
  <2>4. ASSUME NEW n \in 1..Len(seg)
        PROVE  g[n] = Touch(g[n - 1], k, seg[n])
    BY <2>1, <2>2
  <2>5. QED
    BY <2>3, <2>4
<1>9. \A n \in 0..Len(seg) : CacheOK(g[n], k)
  <2> DEFINE P == {n \in Nat : n <= Len(seg) => CacheOK(g[n], k)}
  <2>1. 0 \in P
    BY <1>8
  <2>2. ASSUME NEW n \in Nat, n \in P
        PROVE  n + 1 \in P
    <3>1. ASSUME n + 1 <= Len(seg)
          PROVE  CacheOK(g[n + 1], k)
      <4>1. n + 1 \in 1..Len(seg) /\ (n + 1) - 1 = n /\ CacheOK(g[n], k)
        BY <1>0, <2>2, <3>1
      <4>2. g[n + 1] = Touch(g[n], k, seg[n + 1])
        BY <1>8, <4>1
      <4>3. QED
        BY <1>0, <4>1, <4>2, TouchIs
    <3>2. QED
      BY <3>1
  <2> HIDE DEF P
  <2>3. Nat \subseteq P
    BY <2>1, <2>2, NatSetInduction
  <2>4. QED
    BY <1>0, <2>3 DEF P
<1>10. ItemsAdded(g, c, k, seg)
  BY <1>8, <1>9 DEF ItemsAdded
<1>11. QED
  BY <1>7, <1>10

LEMMA StepsAgree ==
    ASSUME NEW k \in Nat, NEW f, NEW g, f[0] = g[0],
           \A n \in 1..k : f[n - 1] = g[n - 1] => f[n] = g[n]
    PROVE  f[k] = g[k]
<1> DEFINE P == {n \in Nat : n <= k => f[n] = g[n]}
<1>1. 0 \in P
  OBVIOUS
<1>2. ASSUME NEW n \in Nat, n \in P
      PROVE  n + 1 \in P
  <2>1. n + 1 <= k => n + 1 \in 1..k /\ (n + 1) - 1 = n /\ n <= k
    OBVIOUS
  <2>2. QED
    BY <1>2, <2>1
<1> HIDE DEF P
<1>3. Nat \subseteq P
  BY <1>1, <1>2, NatSetInduction
<1>4. QED
  BY <1>3 DEF P

LEMMA AddItemsType ==
    ASSUME NEW k \in Nat \ {0}, NEW c, CacheOK(c, k), NEW seg \in Seq(Block)
    PROVE  CacheOK(AddItems(c, k, seg), k)
BY AddItemsIs, LenProperties DEF ItemsAdded

LEMMA AddItemsEmpty ==
    ASSUME NEW k \in Nat \ {0}, NEW c, CacheOK(c, k)
    PROVE  AddItems(c, k, << >>) = c
<1>1. PICK t : t = << >>
  OBVIOUS
<1>2. t \in Seq(Block) /\ Len(t) = 0
  BY <1>1, EmptySeq
<1>3. PICK f : ItemsAdded(f, c, k, t) /\ AddItems(c, k, t) = f[Len(t)]
  BY <1>2, AddItemsIs
<1>4. QED
  BY <1>1, <1>2, <1>3 DEF ItemsAdded

LEMMA AddItemsAppend ==
    ASSUME NEW k \in Nat \ {0}, NEW c, CacheOK(c, k), NEW s \in Seq(Block), NEW e \in Block
    PROVE  AddItems(c, k, Append(s, e)) = Touch(AddItems(c, k, s), k, e)
<1>1. PICK t, m : t = Append(s, e) /\ m = Len(s)
  OBVIOUS
<1>2. /\ m \in Nat /\ t \in Seq(Block) /\ Len(t) = m + 1
      /\ \A i \in 1..m : t[i] = s[i]
      /\ t[m + 1] = e
  BY <1>1, AppendProperties, LenProperties
<1>3. PICK f : ItemsAdded(f, c, k, s) /\ AddItems(c, k, s) = f[Len(s)]
  BY AddItemsIs
<1>4. PICK g : ItemsAdded(g, c, k, t) /\ AddItems(c, k, t) = g[Len(t)]
  BY <1>2, AddItemsIs
<1>5. f[0] = c /\ \A n \in 1..m : f[n] = Touch(f[n - 1], k, s[n])
  BY <1>1, <1>3 DEF ItemsAdded
<1>6. g[0] = c /\ \A n \in 1..(m + 1) : g[n] = Touch(g[n - 1], k, t[n])
  BY <1>2, <1>4 DEF ItemsAdded
<1>7. \A n \in 1..m : f[n - 1] = g[n - 1] => f[n] = g[n]
  BY <1>2, <1>5, <1>6
<1>8. f[m] = g[m]
  BY <1>2, <1>5, <1>6, <1>7, StepsAgree
<1>9. g[m + 1] = Touch(g[m], k, e)
  BY <1>2, <1>6
<1>10. QED
  BY <1>1, <1>2, <1>3, <1>4, <1>8, <1>9

SegmentsAdded(f, c, k, segs) ==
    /\ f[0] = c
    /\ \A n \in 0..Len(segs) : CacheOK(f[n], k)
    /\ \A n \in 1..Len(segs) : f[n] = AddItems(f[n - 1], k, segs[n])

LEMMA AddSegmentsIs ==
    ASSUME NEW k \in Nat \ {0}, NEW c, CacheOK(c, k), NEW segs \in Seq(Blocks)
    PROVE  \E f : SegmentsAdded(f, c, k, segs) /\ AddSegments(c, k, segs) = f[Len(segs)]
<1> DEFINE X == {d \in Caches : CacheOK(d, k)}
           step == [p \in X \X (1..Len(segs)) |-> AddItems(p[1], k, segs[p[2]])]
           Adds(f) == f = [n \in 0..Len(segs) |-> IF n = 0 THEN c ELSE AddItems(f[n - 1], k, segs[n])]
<1>0. Len(segs) \in Nat /\ \A n \in 1..Len(segs) : segs[n] \in Seq(Block)
  BY LenProperties, ElementOfSeq DEF Blocks
<1>1. \A d : d \in X <=> CacheOK(d, k)
  BY DEF CacheOK
<1> HIDE DEF X
<1>2. \A d \in X : \A n \in 1..Len(segs) :
          step[<<d, n>>] = AddItems(d, k, segs[n]) /\ step[<<d, n>>] \in X
  BY <1>0, <1>1, AddItemsType
<1>3. c \in X
  BY <1>1
<1> HIDE DEF step
<1>q. \A d \in X : \A n \in 1..Len(segs) : step[<<d, n>>] \in X
  BY <1>2
<1>f. PICK f : AreSteps(f, X, c, Len(segs), step)
  BY <1>0, <1>q, <1>3, StepsExist
<1>4. /\ f = [n \in 0..Len(segs) |-> f[n]]
      /\ f[0] = c
      /\ \A n \in 0..Len(segs) : f[n] \in X
      /\ \A n \in 1..Len(segs) : f[n] = step[<<f[n - 1], n>>]
  BY <1>f DEF AreSteps
<1>5. ASSUME NEW n \in 1..Len(segs)
      PROVE  f[n] = AddItems(f[n - 1], k, segs[n])
  <2>1. n - 1 \in 0..Len(segs)
    BY <1>0
  <2>2. QED
    BY <1>2, <1>4, <2>1
<1>6. Adds(f)
  <2>1. \A n \in 0..Len(segs) : f[n] = IF n = 0 THEN c ELSE AddItems(f[n - 1], k, segs[n])
    <3>1. \A n \in 0..Len(segs) : n = 0 \/ n \in 1..Len(segs)
      BY <1>0
    <3>2. QED
      BY <1>4, <1>5, <3>1
  <2>2. QED
    BY <1>4, <2>1
<1>7. PICK g : Adds(g) /\ AddSegments(c, k, segs) = g[Len(segs)]
  <2>1. AddSegments(c, k, segs) = (CHOOSE g : Adds(g))[Len(segs)]
    BY DEF AddSegments
  <2> HIDE DEF Adds
  <2>2. QED
    BY <1>6, <2>1
<1>8. g[0] = c /\ \A n \in 1..Len(segs) : g[n] = AddItems(g[n - 1], k, segs[n])
  <2>1. g = [n \in 0..Len(segs) |-> IF n = 0 THEN c ELSE AddItems(g[n - 1], k, segs[n])]
    BY <1>7
  <2>2. 0 \in 0..Len(segs) /\ \A n \in 1..Len(segs) : n \in 0..Len(segs) /\ n # 0
    BY <1>0
  <2>3. g[0] = c
    BY <2>1, <2>2
  <2>4. ASSUME NEW n \in 1..Len(segs)
        PROVE  g[n] = AddItems(g[n - 1], k, segs[n])
    BY <2>1, <2>2
  <2>5. QED
    BY <2>3, <2>4
<1>9. \A n \in 0..Len(segs) : CacheOK(g[n], k)
  <2> DEFINE P == {n \in Nat : n <= Len(segs) => CacheOK(g[n], k)}
  <2>1. 0 \in P
    BY <1>8
  <2>2. ASSUME NEW n \in Nat, n \in P
        PROVE  n + 1 \in P
    <3>1. ASSUME n + 1 <= Len(segs)
          PROVE  CacheOK(g[n + 1], k)
      <4>1. n + 1 \in 1..Len(segs) /\ (n + 1) - 1 = n /\ CacheOK(g[n], k)
        BY <1>0, <2>2, <3>1
      <4>2. g[n + 1] = AddItems(g[n], k, segs[n + 1])
        BY <1>8, <4>1
      <4>3. QED
        BY <1>0, <4>1, <4>2, AddItemsType
    <3>2. QED
      BY <3>1
  <2> HIDE DEF P
  <2>3. Nat \subseteq P
    BY <2>1, <2>2, NatSetInduction
  <2>4. QED
    BY <1>0, <2>3 DEF P
<1>10. SegmentsAdded(g, c, k, segs)
  BY <1>8, <1>9 DEF SegmentsAdded
<1>11. QED
  BY <1>7, <1>10

LEMMA AddSegmentsType ==
    ASSUME NEW k \in Nat \ {0}, NEW c, CacheOK(c, k), NEW segs \in Seq(Blocks)
    PROVE  CacheOK(AddSegments(c, k, segs), k)
BY AddSegmentsIs, LenProperties DEF SegmentsAdded

LEMMA AddSegmentsEmpty ==
    ASSUME NEW k \in Nat \ {0}, NEW c, CacheOK(c, k)
    PROVE  AddSegments(c, k, << >>) = c
<1>1. PICK t : t = << >>
  OBVIOUS
<1>2. t \in Seq(Blocks) /\ Len(t) = 0
  BY <1>1, EmptySeq
<1>3. PICK f : SegmentsAdded(f, c, k, t) /\ AddSegments(c, k, t) = f[Len(t)]
  BY <1>2, AddSegmentsIs
<1>4. QED
  BY <1>1, <1>2, <1>3 DEF SegmentsAdded

LEMMA AddSegmentsAppend ==
    ASSUME NEW k \in Nat \ {0}, NEW c, CacheOK(c, k), NEW s \in Seq(Blocks), NEW e \in Blocks
    PROVE  AddSegments(c, k, Append(s, e)) = AddItems(AddSegments(c, k, s), k, e)
<1>1. PICK t, m : t = Append(s, e) /\ m = Len(s)
  OBVIOUS
<1>2. /\ m \in Nat /\ t \in Seq(Blocks) /\ Len(t) = m + 1
      /\ \A i \in 1..m : t[i] = s[i]
      /\ t[m + 1] = e
  BY <1>1, AppendProperties, LenProperties
<1>3. PICK f : SegmentsAdded(f, c, k, s) /\ AddSegments(c, k, s) = f[Len(s)]
  BY AddSegmentsIs
<1>4. PICK g : SegmentsAdded(g, c, k, t) /\ AddSegments(c, k, t) = g[Len(t)]
  BY <1>2, AddSegmentsIs
<1>5. f[0] = c /\ \A n \in 1..m : f[n] = AddItems(f[n - 1], k, s[n])
  BY <1>1, <1>3 DEF SegmentsAdded
<1>6. g[0] = c /\ \A n \in 1..(m + 1) : g[n] = AddItems(g[n - 1], k, t[n])
  BY <1>2, <1>4 DEF SegmentsAdded
<1>7. \A n \in 1..m : f[n - 1] = g[n - 1] => f[n] = g[n]
  BY <1>2, <1>5, <1>6
<1>8. f[m] = g[m]
  BY <1>2, <1>5, <1>6, <1>7, StepsAgree
<1>9. g[m + 1] = AddItems(g[m], k, e)
  BY <1>2, <1>6
<1>10. QED
  BY <1>1, <1>2, <1>3, <1>4, <1>8, <1>9

-----------------------------------------------------------------------------
(***************************************************************************)
(* Which blocks the cache holds.  t is what was touched, in order.         *)
(***************************************************************************)
LastIn(t, b) == Max({n \in DOMAIN t : t[n] = b})

Older(t) == {p \in Block \X Block : LastIn(t, p[1]) < LastIn(t, p[2])}

(* The list is in the order of the last touches, and what was dropped is older. *)
Recent(c, t, k) ==
    /\ Range(c.list) \subseteq Range(t)
    /\ Ordered(c.list, Older(t))
    /\ \A x \in Range(t) \ Range(c.list) :
          Len(c.list) = k /\ \A y \in Range(c.list) : <<x, y>> \in Older(t)

LEMMA LastIs ==
    ASSUME NEW t \in Seq(Block), NEW b \in Range(t)
    PROVE  /\ LastIn(t, b) \in 1..Len(t) /\ t[LastIn(t, b)] = b
           /\ \A n \in 1..Len(t) : t[n] = b => n <= LastIn(t, b)
<1> DEFINE S == {n \in DOMAIN t : t[n] = b}
<1>1. Len(t) \in Nat /\ DOMAIN t = 1..Len(t)
  BY LenProperties
<1>2. S \in SUBSET Nat /\ S # {} /\ \A n \in S : n <= Len(t)
  BY <1>1 DEF Range
<1>3. Max(S) \in S /\ \A n \in S : n <= Max(S)
  <2> HIDE DEF S
  <2>1. QED
    BY <1>1, <1>2, MaxIs
<1>4. QED
  BY <1>1, <1>3 DEF LastIn

LEMMA LastAppend ==
    ASSUME NEW t \in Seq(Block), NEW e \in Block
    PROVE  /\ LastIn(Append(t, e), e) = Len(t) + 1
           /\ \A b \in Range(t) \ {e} : LastIn(Append(t, e), b) = LastIn(t, b)
<1>1. PICK u, k : u = Append(t, e) /\ k = Len(t)
  OBVIOUS
<1>2. /\ k \in Nat /\ u \in Seq(Block) /\ Len(u) = k + 1 /\ DOMAIN t = 1..k
      /\ \A i \in 1..k : u[i] = t[i]
      /\ u[k + 1] = e
      /\ Range(u) = Range(t) \cup {e}
  BY <1>1, AppendProperties, LenProperties, RangeAppend
<1>3. LastIn(u, e) = k + 1
  <2>1. LastIn(u, e) \in 1..(k + 1) /\ \A n \in 1..(k + 1) : u[n] = e => n <= LastIn(u, e)
    BY <1>2, LastIs
  <2>2. k + 1 \in 1..(k + 1)
    BY <1>2
  <2>3. k + 1 <= LastIn(u, e)
    BY <1>2, <2>1, <2>2
  <2>4. QED
    BY <1>2, <2>1, <2>3
<1>4. ASSUME NEW b \in Range(t), b # e
      PROVE  LastIn(u, b) = LastIn(t, b)
  <2>1. PICK m, n : m = LastIn(t, b) /\ n = LastIn(u, b)
    OBVIOUS
  <2>2. m \in 1..k /\ t[m] = b /\ \A i \in 1..k : t[i] = b => i <= m
    BY <1>1, <2>1, LastIs
  <2>3. n \in 1..(k + 1) /\ u[n] = b /\ \A i \in 1..(k + 1) : u[i] = b => i <= n
    BY <1>2, <2>1, LastIs
  <2>4. n # k + 1
    BY <1>2, <1>4, <2>3
  <2>5. n \in 1..k /\ m \in 1..(k + 1)
    BY <1>2, <2>2, <2>3, <2>4
  <2>6. t[n] = b /\ u[m] = b
    BY <1>2, <2>2, <2>3, <2>5
  <2>7. n <= m /\ m <= n
    BY <2>2, <2>3, <2>5, <2>6
  <2>8. QED
    BY <2>1, <2>2, <2>5, <2>7
<1>5. QED
  BY <1>1, <1>3, <1>4

LEMMA OlderAppend ==
    ASSUME NEW t \in Seq(Block), NEW e \in Block
    PROVE  /\ \A x, y \in Range(t) \ {e} : <<x, y>> \in Older(t) => <<x, y>> \in Older(Append(t, e))
           /\ \A x \in Range(t) \ {e} : <<x, e>> \in Older(Append(t, e))
<1>1. Range(t) \subseteq Block /\ Len(t) \in Nat
  BY RangeInBlock, LenProperties
<1>2. \A b \in Range(t) : LastIn(t, b) \in Nat /\ LastIn(t, b) < Len(t) + 1
  BY <1>1, LastIs
<1>3. LastIn(Append(t, e), e) = Len(t) + 1
  BY LastAppend
<1>4. \A b \in Range(t) \ {e} : LastIn(Append(t, e), b) = LastIn(t, b)
  BY LastAppend
<1>5. \A x \in Range(t) \ {e} : <<x, e>> \in Older(Append(t, e))
  BY <1>1, <1>2, <1>3, <1>4 DEF Older
<1>6. \A x, y \in Range(t) \ {e} : <<x, y>> \in Older(t) => <<x, y>> \in Older(Append(t, e))
  BY <1>1, <1>4 DEF Older
<1>7. QED
  BY <1>5, <1>6

(* What the rest of the list leaves out, but for the block that is touched, is before it. *)
LEMMA RestDrops ==
    ASSUME NEW k \in Nat \ {0}, NEW c, CacheOK(c, k), NEW b \in Block, NEW R, Ordered(c.list, R)
    PROVE  /\ Len(c.list) = k => Len(Rest(c, k, b)) = k - 1
           /\ \A x \in Range(c.list) \ Range(Rest(c, k, b)) :
                 x # b => /\ Len(c.list) = k
                          /\ \A y \in Range(Rest(c, k, b)) : <<x, y>> \in R
<1>0. c.list \in Seq(Block) /\ Len(c.list) \in Nat /\ Len(c.list) <= k /\ Ordered(c.list, Differ)
  BY LenProperties DEF CacheOK, Caches
<1>1. CASE b \in Range(c.list)
  <2>1. Rest(c, k, b) = Without(c.list, b)
    BY <1>1 DEF Rest
  <2>2. Len(Without(c.list, b)) = Len(c.list) - 1 /\ Range(Without(c.list, b)) = Range(c.list) \ {b}
    BY <1>0, <1>1, WithoutIs
  <2>3. QED
    BY <2>1, <2>2
<1>2. CASE b \notin Range(c.list) /\ Len(c.list) >= k
  <2>1. c.list # << >>
    BY <1>0, <1>2, EmptySeq
  <2>2. Rest(c, k, b) = Tail(c.list)
    BY <1>2 DEF Rest
  <2>3. Range(Tail(c.list)) = Range(c.list) \ {Head(c.list)}
    BY <1>0, <2>1, HeadNotInTail
  <2>4. Len(Tail(c.list)) = Len(c.list) - 1 /\ \A y \in Range(Tail(c.list)) : <<Head(c.list), y>> \in R
    BY <1>0, <2>1, TailIs
  <2>5. Len(c.list) = k
    BY <1>0, <1>2
  <2>6. QED
    BY <2>2, <2>3, <2>4, <2>5
<1>3. CASE b \notin Range(c.list) /\ ~(Len(c.list) >= k)
  BY <1>0, <1>3 DEF Rest
<1>4. QED
  BY <1>1, <1>2, <1>3

LEMMA RecentTouch ==
    ASSUME NEW k \in Nat \ {0}, NEW c, CacheOK(c, k), NEW t \in Seq(Block), Recent(c, t, k),
           NEW e \in Block
    PROVE  Recent(Touch(c, k, e), Append(t, e), k)
<1>1. PICK d, u, r, R : /\ d = Touch(c, k, e) /\ u = Append(t, e) /\ r = Rest(c, k, e)
                        /\ R = Older(u)
  OBVIOUS
<1>2. /\ r \in Seq(Block) /\ Len(r) < k /\ Range(r) \subseteq Range(c.list) /\ e \notin Range(r)
      /\ Len(r) \in Nat
  BY <1>1, RestIs, LenProperties
<1>3. d.list = Append(r, e) /\ Range(d.list) = Range(r) \cup {e} /\ Len(d.list) = Len(r) + 1
  <2>1. d.list = Append(r, e)
    BY <1>1, TouchIs
  <2>2. Range(Append(r, e)) = Range(r) \cup {e} /\ Len(Append(r, e)) = Len(r) + 1
    BY <1>2, RangeAppend, AppendProperties
  <2>3. QED
    BY <2>1, <2>2
<1>4. Range(u) = Range(t) \cup {e}
  BY <1>1, RangeAppend
<1>5. /\ \A x, y \in Range(t) \ {e} : <<x, y>> \in Older(t) => <<x, y>> \in R
      /\ \A x \in Range(t) \ {e} : <<x, e>> \in R
  BY <1>1, OlderAppend
<1>6. Range(c.list) \subseteq Range(t) /\ Ordered(c.list, Older(t))
  BY DEF Recent
<1>7. Ordered(r, Older(t))
  BY <1>1, <1>6, RestOrdered
<1>8. Ordered(d.list, R)
  <2>1. Ordered(r, R)
    <3>1. \A i \in DOMAIN r : r[i] \in Range(r) /\ r[i] \in Range(t) \ {e}
      BY <1>2, <1>6 DEF Range
    <3>2. QED
      BY <1>5, <1>7, <3>1 DEF Ordered
  <2>2. \A x \in Range(r) : <<x, e>> \in R
    BY <1>2, <1>5, <1>6
  <2>3. QED
    BY <1>2, <1>3, <2>1, <2>2, OrderedAppend
<1>9. ASSUME NEW x \in Range(u) \ Range(d.list)
      PROVE  Len(d.list) = k /\ \A y \in Range(d.list) : <<x, y>> \in R
  <2>1. x \in Range(t) \ {e} /\ x \notin Range(r)
    BY <1>3, <1>4, <1>9
  <2>2. Len(c.list) = k /\ \A y \in Range(r) : <<x, y>> \in Older(t)
    <3>1. CASE x \in Range(c.list)
      BY <1>1, <1>6, <2>1, <3>1, RestDrops
    <3>2. CASE x \notin Range(c.list)
      BY <1>2, <2>1, <3>2 DEF Recent
    <3>3. QED
      BY <3>1, <3>2
  <2>3. Len(r) = k - 1
    BY <1>1, <1>6, <2>2, RestDrops
  <2>4. \A y \in Range(r) : <<x, y>> \in R
    BY <1>2, <1>5, <1>6, <2>1, <2>2
  <2>5. QED
    BY <1>3, <1>5, <2>1, <2>3, <2>4
<1>10. Range(d.list) \subseteq Range(u)
  BY <1>2, <1>3, <1>4, <1>6
<1>11. Recent(d, u, k)
  BY <1>1, <1>8, <1>9, <1>10 DEF Recent
<1>12. QED
  BY <1>1, <1>11

LEMMA RecentItems ==
    ASSUME NEW k \in Nat \ {0}, NEW c, CacheOK(c, k), NEW t \in Seq(Block), Recent(c, t, k),
           NEW seg \in Seq(Block)
    PROVE  Recent(AddItems(c, k, seg), t \o seg, k)
<1> DEFINE P == {r \in Seq(Block) : Recent(AddItems(c, k, r), t \o r, k)}
<1>1. << >> \in P
  BY AddItemsEmpty, ConcatEmptySeq, EmptySeq
<1>2. ASSUME NEW r \in Seq(Block), NEW e \in Block, r \in P
      PROVE  Append(r, e) \in P
  <2>1. PICK d, u : d = AddItems(c, k, r) /\ u = t \o r
    OBVIOUS
  <2>2. CacheOK(d, k) /\ u \in Seq(Block) /\ Recent(d, u, k)
    BY <1>2, <2>1, AddItemsType, ConcatProperties
  <2>3. Recent(Touch(d, k, e), Append(u, e), k)
    BY <2>2, RecentTouch
  <2>4. AddItems(c, k, Append(r, e)) = Touch(d, k, e) /\ t \o Append(r, e) = Append(u, e)
    BY <2>1, AddItemsAppend, ConcatAppend
  <2>5. Append(r, e) \in Seq(Block)
    BY AppendProperties
  <2>6. QED
    BY <2>3, <2>4, <2>5
<1> HIDE DEF P
<1>3. Seq(Block) \subseteq P
  BY <1>1, <1>2, SeqSetInduction
<1>4. QED
  BY <1>3 DEF P

LEMMA RecentSegments ==
    ASSUME NEW k \in Nat \ {0}, NEW segs \in Seq(Blocks)
    PROVE  Recent(AddSegments(LruCache, k, segs), FlattenSeq(segs), k)
<1> DEFINE P == {r \in Seq(Blocks) : Recent(AddSegments(LruCache, k, r), FlattenSeq(r), k)}
<1>0. CacheOK(LruCache, k) /\ LruCache.list = << >>
  BY LruCacheOK
<1>1. << >> \in P
  <2>1. << >> \in Seq(Blocks)
    BY EmptySeq
  <2>2. AddSegments(LruCache, k, << >>) = LruCache /\ FlattenSeq(<< >>) = << >>
    BY <1>0, AddSegmentsEmpty, FlattenEmpty
  <2>3. Recent(LruCache, << >>, k)
    BY <1>0, EmptyRange DEF Recent
  <2>4. QED
    BY <2>1, <2>2, <2>3
<1>2. ASSUME NEW r \in Seq(Blocks), NEW e \in Blocks, r \in P
      PROVE  Append(r, e) \in P
  <2>1. PICK d, u : d = AddSegments(LruCache, k, r) /\ u = FlattenSeq(r)
    OBVIOUS
  <2>2. CacheOK(d, k) /\ u \in Seq(Block) /\ Recent(d, u, k)
    BY <1>0, <1>2, <2>1, AddSegmentsType, FlattenType DEF Blocks
  <2>3. Recent(AddItems(d, k, e), u \o e, k)
    BY <2>2, RecentItems DEF Blocks
  <2>4. AddSegments(LruCache, k, Append(r, e)) = AddItems(d, k, e)
    BY <1>0, <2>1, AddSegmentsAppend
  <2>5. FlattenSeq(Append(r, e)) = u \o e
    BY <2>1, FlattenAppend DEF Blocks
  <2>6. Append(r, e) \in Seq(Blocks)
    BY AppendProperties
  <2>7. QED
    BY <2>3, <2>4, <2>5, <2>6
<1> HIDE DEF P
<1>3. Seq(Blocks) \subseteq P
  BY <1>1, <1>2, SeqSetInduction
<1>4. QED
  BY <1>3 DEF P

-----------------------------------------------------------------------------
(* The blocks that were touched after the last touch of b. *)
Later(t, b) == {x \in Range(t) : LastIn(t, x) > LastIn(t, b)}

LEMMA LaterFinite ==
    ASSUME NEW t \in Seq(Block), NEW b
    PROVE  IsFiniteSet(Later(t, b)) /\ Cardinality(Later(t, b)) \in Nat
<1>1. IsFiniteSet(Range(t)) /\ Later(t, b) \subseteq Range(t)
  BY RangeFinite DEF Later
<1>2. QED
  BY <1>1, FS_Subset, FS_CardinalityType

(* The cache has the blocks after which fewer than its size were touched. *)
LEMMA RecentIs ==
    ASSUME NEW k \in Nat \ {0}, NEW c, CacheOK(c, k), NEW t \in Seq(Block), Recent(c, t, k)
    PROVE  Range(c.list) = {b \in Range(t) : Cardinality(Later(t, b)) < k}
<1>1. PICK l, L : l = c.list /\ L = Range(l)
  OBVIOUS
<1>2. /\ l \in Seq(Block) /\ Len(l) \in Nat /\ Len(l) <= k /\ Ordered(l, Differ)
      /\ L \subseteq Range(t)
      /\ \A x \in Range(t) \ L : Len(l) = k /\ \A y \in L : <<x, y>> \in Older(t)
  BY <1>1, LenProperties DEF CacheOK, Caches, Recent
<1>3. IsFiniteSet(L) /\ Cardinality(L) = Len(l)
  BY <1>1, <1>2, DistinctLength
<1>4. \A b \in Range(t) : LastIn(t, b) \in Nat
  BY LastIs, LenProperties
<1>5. ASSUME NEW b \in L
      PROVE  Cardinality(Later(t, b)) < k
  <2>1. Later(t, b) \subseteq L \ {b}
    <3>1. ASSUME NEW x \in Later(t, b)
          PROVE  x \in L /\ x # b
      <4>1. x \in Range(t) /\ LastIn(t, x) > LastIn(t, b)
        BY <3>1 DEF Later
      <4>2. LastIn(t, x) \in Nat /\ LastIn(t, b) \in Nat
        BY <1>2, <1>4, <4>1
      <4>3. <<x, b>> \notin Older(t)
        BY <4>1, <4>2 DEF Older
      <4>4. QED
        BY <1>2, <4>1, <4>2, <4>3
    <3>2. QED
      BY <3>1
  <2>2. IsFiniteSet(L \ {b}) /\ Cardinality(L \ {b}) = Cardinality(L) - 1
    BY <1>3, FS_RemoveElement
  <2>3. Cardinality(Later(t, b)) <= Cardinality(L \ {b})
    BY <2>1, <2>2, FS_Subset
  <2>4. Cardinality(Later(t, b)) \in Nat
    BY LaterFinite
  <2>5. QED
    BY <1>2, <1>3, <2>2, <2>3, <2>4
<1>6. ASSUME NEW b \in Range(t) \ L
      PROVE  ~(Cardinality(Later(t, b)) < k)
  <2>1. L \subseteq Later(t, b)
    <3>1. ASSUME NEW y \in L
          PROVE  y \in Later(t, b)
      <4>1. <<b, y>> \in Older(t) /\ y \in Range(t)
        BY <1>2, <1>6, <3>1
      <4>2. LastIn(t, b) < LastIn(t, y) /\ LastIn(t, b) \in Nat /\ LastIn(t, y) \in Nat
        BY <1>4, <4>1 DEF Older
      <4>3. QED
        BY <4>1, <4>2 DEF Later
    <3>2. QED
      BY <3>1
  <2>2. IsFiniteSet(Later(t, b)) /\ Cardinality(Later(t, b)) \in Nat
    BY LaterFinite
  <2>3. Cardinality(L) <= Cardinality(Later(t, b))
    BY <2>1, <2>2, FS_Subset
  <2>4. Cardinality(L) = k
    BY <1>2, <1>3, <1>6
  <2>5. QED
    BY <2>2, <2>3, <2>4
<1>7. QED
  BY <1>1, <1>2, <1>5, <1>6

LEMMA CacheRight ==
    ASSUME NEW k \in Nat \ {0}, NEW segs \in Seq(Blocks)
    PROVE  LruRight(segs, k)
<1> DEFINE c == AddSegments(LruCache, k, segs)
           t == FlattenSeq(segs)
<1>2. CacheOK(c, k) /\ Recent(c, t, k) /\ t \in Seq(Block)
  BY LruCacheOK, AddSegmentsType, RecentSegments, FlattenType DEF Blocks
<1> HIDE DEF c, t
<1>3. Range(c.list) = {b \in Range(t) : Cardinality(Later(t, b)) < k}
  BY <1>2, RecentIs
<1>4. \A i, j \in DOMAIN c.list : i < j => LastIn(t, c.list[i]) < LastIn(t, c.list[j])
  BY <1>2 DEF Recent, Ordered, Older
<1>5. ASSUME NEW i \in DOMAIN c.hash
      PROVE  /\ Range(c.hash[i]) = {b \in Range(c.list) : HashOf(b) = i}
             /\ Len(c.hash[i]) = Cardinality(Range(c.hash[i]))
  <2>1. HashHas(c.hash, Range(c.list))
    BY <1>2 DEF CacheOK
  <2>2. /\ c.hash[i] \in Seq(Block) /\ Ordered(c.hash[i], Differ)
        /\ Range(c.hash[i]) = {b \in Range(c.list) : HashOf(b) = i}
    BY <1>5, <2>1 DEF HashHas
  <2>3. QED
    BY <2>2, DistinctLength
<1>6. Range(c.list) = {b \in Range(t) :
          Cardinality({x \in Range(t) : Max({n \in DOMAIN t : t[n] = x})
                                        > Max({n \in DOMAIN t : t[n] = b})}) < k}
  BY <1>3, Zenon DEF Later, LastIn
<1>7. \A i, j \in DOMAIN c.list :
          i < j => Max({n \in DOMAIN t : t[n] = c.list[i]}) < Max({n \in DOMAIN t : t[n] = c.list[j]})
  BY <1>4, Zenon DEF LastIn
<1>8. QED
  BY <1>5, <1>6, <1>7, Zenon DEF LruRight, BlocksOf, c, t

-----------------------------------------------------------------------------
(***************************************************************************)
(* The sampled index.                                                      *)
(***************************************************************************)
LEMMA SeqIn ==
    ASSUME NEW F \in SUBSET Block, NEW s
    PROVE  s \in Seq(F) <=> s \in Seq(Block) /\ Range(s) \subseteq F
<1>1. ASSUME s \in Seq(F)
      PROVE  s \in Seq(Block) /\ Range(s) \subseteq F
  <2>1. Len(s) \in Nat /\ DOMAIN s = 1..Len(s) /\ s = [i \in 1..Len(s) |-> s[i]]
    BY <1>1, LenProperties
  <2>2. \A i \in 1..Len(s) : s[i] \in F
    BY <1>1, ElementOfSeq
  <2>3. \A i \in 1..Len(s) : s[i] \in Block
    BY <2>2
  <2>4. QED
    BY <2>1, <2>2, <2>3, FunctionIsSeq DEF Range
<1>2. ASSUME s \in Seq(Block), Range(s) \subseteq F
      PROVE  s \in Seq(F)
  <2>1. Len(s) \in Nat /\ DOMAIN s = 1..Len(s) /\ s = [i \in 1..Len(s) |-> s[i]]
    BY <1>2, LenProperties
  <2>2. \A i \in 1..Len(s) : s[i] \in F
    BY <1>2, <2>1 DEF Range
  <2>3. QED
    BY <2>1, <2>2, FunctionIsSeq
<1>3. QED
  BY <1>1, <1>2

(* The blocks of segments that all have blocks of F. *)
LEMMA FlattenIn ==
    ASSUME NEW F \in SUBSET Block, NEW ss \in Seq(Blocks),
           \A n \in 1..Len(ss) : Range(ss[n]) \subseteq F
    PROVE  FlattenSeq(ss) \in Seq(F) /\ Range(FlattenSeq(ss)) \subseteq F
<1>1. Len(ss) \in Nat /\ ss = [i \in 1..Len(ss) |-> ss[i]] /\ \A n \in 1..Len(ss) : ss[n] \in Seq(Block)
  BY LenProperties, ElementOfSeq DEF Blocks
<1>2. \A n \in 1..Len(ss) : ss[n] \in Seq(F)
  BY <1>1, SeqIn
<1>3. ss \in Seq(Seq(F))
  BY <1>1, <1>2, FunctionIsSeq
<1>4. QED
  BY <1>3, FlattenType, SeqIn

(* What a cache loads of segments with blocks of F are blocks of F. *)
LEMMA AddItemsIn ==
    ASSUME NEW k \in Nat \ {0}, NEW F \in SUBSET Block,
           NEW c, CacheOK(c, k), Range(c.list) \subseteq F, NEW seg \in Seq(F)
    PROVE  Range(AddItems(c, k, seg).list) \subseteq F
<1> DEFINE P == {r \in Seq(F) : Range(AddItems(c, k, r).list) \subseteq F}
<1>1. << >> \in P
  BY AddItemsEmpty, EmptySeq
<1>2. ASSUME NEW r \in Seq(F), NEW e \in F, r \in P
      PROVE  Append(r, e) \in P
  <2>1. PICK d : d = AddItems(c, k, r)
    OBVIOUS
  <2>2. r \in Seq(Block) /\ e \in Block
    BY SeqIn
  <2>3. CacheOK(d, k) /\ Range(d.list) \subseteq F
    BY <1>2, <2>1, <2>2, AddItemsType
  <2>4. AddItems(c, k, Append(r, e)) = Touch(d, k, e)
    BY <2>1, <2>2, AddItemsAppend
  <2>5. /\ Touch(d, k, e).list = Append(Rest(d, k, e), e)
        /\ Rest(d, k, e) \in Seq(Block) /\ Range(Rest(d, k, e)) \subseteq Range(d.list)
    BY <2>2, <2>3, TouchIs, RestIs
  <2>6. Range(Append(Rest(d, k, e), e)) = Range(Rest(d, k, e)) \cup {e}
    BY <2>2, <2>5, RangeAppend
  <2>7. Append(r, e) \in Seq(F)
    BY AppendProperties
  <2>8. Range(Touch(d, k, e).list) \subseteq F
    BY <2>3, <2>5, <2>6
  <2>9. QED
    BY <2>4, <2>7, <2>8
<1> HIDE DEF P
<1>3. Seq(F) \subseteq P
  BY <1>1, <1>2, SeqSetInduction
<1>4. QED
  BY <1>3 DEF P

LEMMA AddSegmentsIn ==
    ASSUME NEW k \in Nat \ {0}, NEW F \in SUBSET Block,
           NEW c, CacheOK(c, k), Range(c.list) \subseteq F, NEW segs \in Seq(Seq(F))
    PROVE  CacheOK(AddSegments(c, k, segs), k) /\ Range(AddSegments(c, k, segs).list) \subseteq F
<1> DEFINE P == {r \in Seq(Seq(F)) : /\ r \in Seq(Blocks)
                                     /\ Range(AddSegments(c, k, r).list) \subseteq F}
<1>1. << >> \in P
  BY AddSegmentsEmpty, EmptySeq
<1>2. ASSUME NEW r \in Seq(Seq(F)), NEW e \in Seq(F), r \in P
      PROVE  Append(r, e) \in P
  <2>1. PICK d : d = AddSegments(c, k, r)
    OBVIOUS
  <2>2. r \in Seq(Blocks) /\ e \in Blocks
    BY <1>2, SeqIn DEF Blocks
  <2>3. CacheOK(d, k) /\ Range(d.list) \subseteq F
    BY <1>2, <2>1, <2>2, AddSegmentsType
  <2>4. AddSegments(c, k, Append(r, e)) = AddItems(d, k, e)
    BY <2>1, <2>2, AddSegmentsAppend
  <2>5. Range(AddItems(d, k, e).list) \subseteq F
    BY <2>3, AddItemsIn
  <2>6. Append(r, e) \in Seq(Seq(F)) /\ Append(r, e) \in Seq(Blocks)
    BY <2>2, AppendProperties
  <2>7. QED
    BY <2>4, <2>5, <2>6
<1> HIDE DEF P
<1>3. Seq(Seq(F)) \subseteq P
  BY <1>1, <1>2, SeqSetInduction
<1>4. segs \in Seq(Blocks) /\ Range(AddSegments(c, k, segs).list) \subseteq F
  BY <1>3 DEF P
<1>5. QED
  BY <1>4, AddSegmentsType

LEMMA MinOfTwo ==
    ASSUME NEW a \in Nat, NEW b \in Nat
    PROVE  Min({a, b}) \in {a, b} /\ Min({a, b}) <= a /\ Min({a, b}) <= b
<1>1. \E x \in {a, b} : \A y \in {a, b} : x <= y
  OBVIOUS
<1>2. QED
  BY <1>1 DEF Min

(* The segments of a container are segments of the trace. *)
LEMMA ContainerIs ==
    ASSUME NEW full \in Seq(Blocks), NEW F, F = Range(FlattenSeq(full)), NEW i \in Containers(full)
    PROVE  /\ F \in SUBSET Block
           /\ ContainerAt(full, i) \in Seq(Seq(F))
           /\ ContainerAt(full, i) \in Seq(Blocks)
           /\ BlocksOf(ContainerAt(full, i)) \in Seq(F)
<1>1. Len(full) \in Nat /\ DOMAIN full = 1..Len(full) /\ \A n \in 1..Len(full) : full[n] \in Blocks
  BY LenProperties, ElementOfSeq
<1>2. i \in 1..Len(full) /\ GROUP \in Nat \ {0}
  BY <1>1, SamplingAssumption DEF Containers
<1>3. PICK m : m = Min({i + GROUP - 1, Len(full)})
  OBVIOUS
<1>4. m \in Nat /\ m >= i /\ m <= Len(full)
  BY <1>1, <1>2, <1>3, MinOfTwo
<1>5. F \in SUBSET Block
  <2>1. FlattenSeq(full) \in Seq(Block)
    BY FlattenType DEF Blocks
  <2>2. QED
    BY <2>1, RangeInBlock
<1>6. \A n \in 1..Len(full) : full[n] \in Seq(F)
  <2>1. \A n \in 1..Len(full) : Range(full[n]) \subseteq F
    BY FlattenRange
  <2>2. QED
    BY <1>1, <1>5, <2>1, SeqIn DEF Blocks
<1>7. \A n \in i..m : full[n] \in Seq(F) /\ full[n] \in Blocks
  BY <1>1, <1>2, <1>4, <1>6
<1>8. i \in Int /\ m \in Int
  BY <1>2, <1>4
<1>9. SubSeq(full, i, m) \in Seq(Seq(F)) /\ SubSeq(full, i, m) \in Seq(Blocks)
  BY <1>7, <1>8, SubSeqProperties
<1>10. ContainerAt(full, i) = SubSeq(full, i, m)
  BY <1>3 DEF ContainerAt
<1>11. FlattenSeq(SubSeq(full, i, m)) \in Seq(F)
  BY <1>9, FlattenType
<1>12. QED
  BY <1>5, <1>9, <1>10, <1>11 DEF BlocksOf

(* The index leads from blocks of the trace to its containers. *)
LEMMA SampledIndexIs ==
    ASSUME NEW full \in Seq(Blocks), NEW F, F = Range(FlattenSeq(full))
    PROVE  /\ DOMAIN SampledIndex(full) \subseteq F
           /\ \A b \in DOMAIN SampledIndex(full) : SampledIndex(full)[b] \in Containers(full)
<1>1. PICK C : C = Containers(full)
  OBVIOUS
<1>2. Len(full) \in Nat /\ C \subseteq 1..Len(full)
  BY <1>1, LenProperties DEF Containers
<1>3. ASSUME NEW i \in C
      PROVE  SampledOf(full, i) \subseteq F
  <2>1. PICK s : s = BlocksOf(ContainerAt(full, i))
    OBVIOUS
  <2>2. s \in Seq(F)
    BY <1>1, <1>3, <2>1, ContainerIs
  <2>3. \A n \in DOMAIN s : s[n] \in F
    BY <2>2, LenProperties, ElementOfSeq
  <2>4. QED
    BY <2>1, <2>3 DEF SampledOf
<1>4. PICK D : D = UNION {SampledOf(full, i) : i \in C}
  OBVIOUS
<1>5. D \subseteq F
  BY <1>3, <1>4
<1>6. SampledIndex(full) = [b \in D |-> Max({i \in C : b \in SampledOf(full, i)})]
  BY <1>1, <1>4 DEF SampledIndex
<1>7. ASSUME NEW b \in D
      PROVE  Max({i \in C : b \in SampledOf(full, i)}) \in C
  <2> DEFINE S == {i \in C : b \in SampledOf(full, i)}
  <2>1. S # {}
    BY <1>4, <1>7
  <2>3. S \subseteq C
    OBVIOUS
  <2> HIDE DEF S
  <2>2. S \in SUBSET Nat /\ \A x \in S : x <= Len(full)
    BY <1>2, <2>3
  <2>4. Max(S) \in S
    BY <1>2, <2>1, <2>2, MaxIs
  <2>5. QED
    BY <2>3, <2>4 DEF S
<1>8. QED
  BY <1>1, <1>5, <1>6, <1>7

-----------------------------------------------------------------------------
(* What has been counted when the blocks of s have been looked up: F has the blocks of the
   index trace, D those that were sampled. *)
Results(F, D) ==
    [cache : Caches, cacheHits : Seq(F), indexHits : Seq(F), misses : Seq(Block \ D),
     cleanSegments : Seq(F), parentHits : Seq(F)]

HitsOf(r) == Len(r.cacheHits) + Len(r.indexHits) + Len(r.cleanSegments) + Len(r.parentHits)

LookedUp(r, s, k, F, D) ==
    /\ r \in Results(F, D)
    /\ CacheOK(r.cache, k) /\ Range(r.cache.list) \subseteq F
    /\ HitsOf(r) + Len(r.misses) = Len(s)
    /\ HitsOf(r) <= Len(Among(s, F))

LEMMA SumOfFour ==
    ASSUME NEW a \in Nat, NEW b \in Nat, NEW c \in Nat, NEW d \in Nat
    PROVE  /\ a + b + c + d \in Nat
           /\ (a + 1) + b + c + d = (a + b + c + d) + 1
           /\ a + (b + 1) + c + d = (a + b + c + d) + 1
           /\ a + b + c + (d + 1) = (a + b + c + d) + 1
OBVIOUS

LEMMA ResultsParts ==
    ASSUME NEW F, NEW D, NEW r \in Results(F, D)
    PROVE  /\ r.cache \in Caches /\ r.cacheHits \in Seq(F) /\ r.indexHits \in Seq(F)
           /\ r.misses \in Seq(Block \ D) /\ r.cleanSegments \in Seq(F) /\ r.parentHits \in Seq(F)
           /\ Len(r.cacheHits) \in Nat /\ Len(r.indexHits) \in Nat /\ Len(r.misses) \in Nat
           /\ Len(r.cleanSegments) \in Nat /\ Len(r.parentHits) \in Nat
           /\ HitsOf(r) \in Nat
<1>1. /\ r.cache \in Caches /\ r.cacheHits \in Seq(F) /\ r.indexHits \in Seq(F)
      /\ r.misses \in Seq(Block \ D) /\ r.cleanSegments \in Seq(F) /\ r.parentHits \in Seq(F)
  BY DEF Results
<1>2. /\ Len(r.cacheHits) \in Nat /\ Len(r.indexHits) \in Nat /\ Len(r.misses) \in Nat
      /\ Len(r.cleanSegments) \in Nat /\ Len(r.parentHits) \in Nat
  BY <1>1, LenProperties
<1>3. Len(r.cacheHits) + Len(r.indexHits) + Len(r.cleanSegments) + Len(r.parentHits) \in Nat
  BY <1>2, SumOfFour
<1>4. QED
  BY <1>1, <1>2, <1>3 DEF HitsOf

(* A block more, and a hit or a miss more. *)
Hit(r, q, F) == q.misses = r.misses /\ HitsOf(q) = HitsOf(r) + 1

Miss(r, q) == Len(q.misses) = Len(r.misses) + 1 /\ HitsOf(q) = HitsOf(r)

LEMMA BlockCounted ==
    ASSUME NEW k, NEW F \in SUBSET Block, NEW D, NEW s \in Seq(Block), NEW b \in Block,
           NEW r, LookedUp(r, s, k, F, D),
           NEW q \in Results(F, D), CacheOK(q.cache, k), Range(q.cache.list) \subseteq F,
           (b \in F /\ Hit(r, q, F)) \/ Miss(r, q)
    PROVE  LookedUp(q, Append(s, b), k, F, D)
<1>1. /\ Len(s) \in Nat /\ Len(Append(s, b)) = Len(s) + 1
      /\ Among(s, F) \in Seq(Block) /\ Len(Among(s, F)) \in Nat
  BY LenProperties, AppendProperties, AmongType
<1>2. /\ HitsOf(r) + Len(r.misses) = Len(s) /\ HitsOf(r) <= Len(Among(s, F))
      /\ r \in Results(F, D)
  BY DEF LookedUp
<1>3. HitsOf(r) \in Nat /\ Len(r.misses) \in Nat /\ HitsOf(q) \in Nat /\ Len(q.misses) \in Nat
  BY <1>2, ResultsParts
<1>4. Among(Append(s, b), F) = IF b \in F THEN Append(Among(s, F), b) ELSE Among(s, F)
  BY AmongAppend
<1>5. Len(Append(Among(s, F), b)) = Len(Among(s, F)) + 1
  BY <1>1, AppendProperties
<1>6. CASE b \in F /\ Hit(r, q, F)
  <2>1. HitsOf(q) = HitsOf(r) + 1 /\ Len(q.misses) = Len(r.misses)
    BY <1>6 DEF Hit
  <2>2. Len(Among(Append(s, b), F)) = Len(Among(s, F)) + 1
    BY <1>4, <1>5, <1>6
  <2>3. HitsOf(q) + Len(q.misses) = Len(Append(s, b)) /\ HitsOf(q) <= Len(Among(Append(s, b), F))
    BY <1>1, <1>2, <1>3, <2>1, <2>2
  <2>4. QED
    BY <2>3 DEF LookedUp
<1>7. CASE Miss(r, q)
  <2>1. HitsOf(q) = HitsOf(r) /\ Len(q.misses) = Len(r.misses) + 1
    BY <1>7 DEF Miss
  <2>2. Len(Among(Append(s, b), F)) \in Nat /\ Len(Among(Append(s, b), F)) >= Len(Among(s, F))
    BY <1>1, <1>4, <1>5
  <2>3. HitsOf(q) + Len(q.misses) = Len(Append(s, b)) /\ HitsOf(q) <= Len(Among(Append(s, b), F))
    BY <1>1, <1>2, <1>3, <2>1, <2>2
  <2>4. QED
    BY <2>3 DEF LookedUp
<1>8. QED
  BY <1>6, <1>7

LEMMA LookUpCounts ==
    ASSUME NEW k \in Nat \ {0}, NEW full \in Seq(Blocks), NEW F, F = Range(FlattenSeq(full)),
           NEW index, index = SampledIndex(full), NEW D, D = DOMAIN index,
           NEW par, Range(par) \subseteq F,
           NEW s \in Seq(Block), NEW b \in Block, NEW r, LookedUp(r, s, k, F, D)
    PROVE  LookedUp(LookUp(r, b, par, index, full, k), Append(s, b), k, F, D)
<1>1. PICK q : q = LookUp(r, b, par, index, full, k)
  OBVIOUS
<1>2. F \in SUBSET Block
  <2>1. FlattenSeq(full) \in Seq(Block)
    BY FlattenType DEF Blocks
  <2>2. QED
    BY <2>1, RangeInBlock
<1>3. r \in Results(F, D) /\ CacheOK(r.cache, k) /\ Range(r.cache.list) \subseteq F
  BY DEF LookedUp
<1>4. /\ r.cache \in Caches /\ r.cacheHits \in Seq(F) /\ r.indexHits \in Seq(F)
      /\ r.misses \in Seq(Block \ D) /\ r.cleanSegments \in Seq(F) /\ r.parentHits \in Seq(F)
      /\ Len(r.cacheHits) \in Nat /\ Len(r.indexHits) \in Nat /\ Len(r.misses) \in Nat
      /\ Len(r.cleanSegments) \in Nat /\ Len(r.parentHits) \in Nat
  BY <1>3, ResultsParts
<1>p. PICK x \in Nat, y \in Nat, z \in Nat, w \in Nat :
          /\ x = Len(r.cacheHits) /\ y = Len(r.indexHits) /\ z = Len(r.cleanSegments)
          /\ w = Len(r.parentHits)
  BY <1>4
<1>h. HitsOf(r) = x + y + z + w
  BY <1>p DEF HitsOf
<1>5. \A T : \A h \in Seq(T) : \A e \in T : Append(h, e) \in Seq(T) /\ Len(Append(h, e)) = Len(h) + 1
  BY AppendProperties
<1>6. Found(r.cache, b) <=> b \in Range(r.cache.list)
  BY <1>3, FoundIs
<1>7. CASE b \in Range(par)
  <2>1. q = [r EXCEPT !.parentHits = Append(@, b)] /\ b \in F
    BY <1>1, <1>7 DEF LookUp
  <2>2. Append(r.parentHits, b) \in Seq(F) /\ Len(Append(r.parentHits, b)) = Len(r.parentHits) + 1
    BY <1>4, <1>5, <2>1
  <2>3. /\ q \in Results(F, D) /\ q.cache = r.cache /\ q.misses = r.misses
        /\ q.cacheHits = r.cacheHits /\ q.indexHits = r.indexHits
        /\ q.cleanSegments = r.cleanSegments /\ q.parentHits = Append(r.parentHits, b)
    BY <1>3, <2>1, <2>2 DEF Results
  <2>a. HitsOf(q) = x + y + z + (w + 1)
    BY <1>p, <2>2, <2>3 DEF HitsOf
  <2>b. HitsOf(q) = HitsOf(r) + 1
    BY <1>h, <2>a
  <2>4. Hit(r, q, F)
    BY <2>3, <2>b DEF Hit
  <2>5. QED
    BY <1>1, <1>2, <1>3, <2>1, <2>3, <2>4, BlockCounted
<1>8. CASE b \notin Range(par) /\ Found(r.cache, b)
  <2>1. PICK d : d = SearchItem(r.cache, b)
    OBVIOUS
  <2>2. q = [r EXCEPT !.cacheHits = Append(@, b), !.cache = d] /\ b \in F
    BY <1>1, <1>3, <1>6, <1>8, <2>1 DEF LookUp
  <2>3. d = Touch(r.cache, k, b)
    BY <1>8, <2>1 DEF Touch
  <2>4. /\ CacheOK(d, k) /\ d.list = Append(Rest(r.cache, k, b), b)
        /\ Rest(r.cache, k, b) \in Seq(Block) /\ Range(Rest(r.cache, k, b)) \subseteq Range(r.cache.list)
    BY <1>3, <2>3, TouchIs, RestIs
  <2>5. Range(Append(Rest(r.cache, k, b), b)) = Range(Rest(r.cache, k, b)) \cup {b}
    BY <2>4, RangeAppend
  <2>6. Range(d.list) \subseteq F /\ d \in Caches
    BY <1>3, <2>2, <2>4, <2>5 DEF CacheOK
  <2>7. Append(r.cacheHits, b) \in Seq(F) /\ Len(Append(r.cacheHits, b)) = Len(r.cacheHits) + 1
    BY <1>4, <1>5, <2>2
  <2>8. /\ q \in Results(F, D) /\ q.cache = d /\ q.misses = r.misses
        /\ q.parentHits = r.parentHits /\ q.indexHits = r.indexHits
        /\ q.cleanSegments = r.cleanSegments /\ q.cacheHits = Append(r.cacheHits, b)
    BY <1>3, <2>2, <2>6, <2>7 DEF Results
  <2>a. HitsOf(q) = (x + 1) + y + z + w
    BY <1>p, <2>7, <2>8 DEF HitsOf
  <2>b. HitsOf(q) = HitsOf(r) + 1
    BY <1>h, <2>a
  <2>9. Hit(r, q, F)
    BY <2>8, <2>b DEF Hit
  <2>10. QED
    BY <1>1, <1>2, <2>2, <2>4, <2>6, <2>8, <2>9, BlockCounted
<1>9. CASE b \notin Range(par) /\ ~Found(r.cache, b) /\ b \in DOMAIN index
  <2>1. PICK i, d : i = index[b] /\ d = AddSegments(r.cache, k, ContainerAt(full, i))
    OBVIOUS
  <2>2. i \in Containers(full) /\ b \in F
    BY <1>9, <2>1, SampledIndexIs
  <2>3. q = [r EXCEPT !.indexHits = Append(@, b), !.cache = d]
    BY <1>1, <1>9, <2>1 DEF LookUp
  <2>4. ContainerAt(full, i) \in Seq(Seq(F))
    BY <2>2, ContainerIs
  <2>5. CacheOK(d, k) /\ Range(d.list) \subseteq F
    BY <1>2, <1>3, <2>1, <2>4, AddSegmentsIn
  <2>6. d \in Caches
    BY <2>5 DEF CacheOK
  <2>7. Append(r.indexHits, b) \in Seq(F) /\ Len(Append(r.indexHits, b)) = Len(r.indexHits) + 1
    BY <1>4, <1>5, <2>2
  <2>8. /\ q \in Results(F, D) /\ q.cache = d /\ q.misses = r.misses
        /\ q.parentHits = r.parentHits /\ q.indexHits = Append(r.indexHits, b)
        /\ q.cleanSegments = r.cleanSegments /\ q.cacheHits = r.cacheHits
    BY <1>3, <2>3, <2>6, <2>7 DEF Results
  <2>a. HitsOf(q) = x + (y + 1) + z + w
    BY <1>p, <2>7, <2>8 DEF HitsOf
  <2>b. HitsOf(q) = HitsOf(r) + 1
    BY <1>h, <2>a
  <2>9. Hit(r, q, F)
    BY <2>8, <2>b DEF Hit
  <2>10. QED
    BY <1>1, <1>2, <2>2, <2>5, <2>8, <2>9, BlockCounted
<1>10. CASE b \notin Range(par) /\ ~Found(r.cache, b) /\ b \notin DOMAIN index
  <2>1. q = [r EXCEPT !.misses = Append(@, b)]
    BY <1>1, <1>10 DEF LookUp
  <2>2. b \in Block \ D
    BY <1>10
  <2>3. Append(r.misses, b) \in Seq(Block \ D) /\ Len(Append(r.misses, b)) = Len(r.misses) + 1
    BY <1>4, <1>5, <2>2
  <2>4. /\ q \in Results(F, D) /\ q.cache = r.cache /\ q.misses = Append(r.misses, b)
        /\ q.cacheHits = r.cacheHits /\ q.indexHits = r.indexHits
        /\ q.cleanSegments = r.cleanSegments /\ q.parentHits = r.parentHits
    BY <1>3, <2>1, <2>3 DEF Results
  <2>5. Miss(r, q)
    BY <2>3, <2>4 DEF Miss, HitsOf
  <2>6. QED
    BY <1>1, <1>2, <1>3, <2>4, <2>5, BlockCounted
<1>11. QED
  BY <1>7, <1>8, <1>9, <1>10

(* The elements of s and then those of seg, one by one. *)
AreOneByOne(t, s, seg) == t = [n \in 0..Len(seg) |-> s \o SubSeq(seg, 1, n)]

LEMMA OneByOne ==
    ASSUME NEW T, NEW s \in Seq(T), NEW seg \in Seq(T), NEW t, AreOneByOne(t, s, seg)
    PROVE  /\ t[0] = s /\ t[Len(seg)] = s \o seg
           /\ \A n \in 1..Len(seg) : t[n - 1] \in Seq(T) /\ t[n] = Append(t[n - 1], seg[n])
<1>0. Len(seg) \in Nat /\ \A i \in 1..Len(seg) : seg[i] \in T
  BY LenProperties, ElementOfSeq
<1>a. \A n \in 0..Len(seg) : t[n] = s \o SubSeq(seg, 1, n)
  BY DEF AreOneByOne
<1>1. t[0] = s
  <2>1. 1 \in Int /\ 0 \in Int /\ 0 < 1 /\ 0 \in 0..Len(seg)
    BY <1>0
  <2>2. SubSeq(seg, 1, 0) = << >>
    BY <2>1, SubSeqEmpty
  <2>3. s \o << >> = s
    BY ConcatEmptySeq
  <2>4. QED
    BY <1>a, <2>1, <2>2, <2>3
<1>2. t[Len(seg)] = s \o seg
  <2>1. SubSeq(seg, 1, Len(seg)) = seg
    BY SubSeqFull
  <2>2. QED
    BY <1>0, <1>a, <2>1
<1>3. ASSUME NEW n \in 1..Len(seg)
      PROVE  t[n - 1] \in Seq(T) /\ t[n] = Append(t[n - 1], seg[n])
  <2>1. PICK p, q : p = SubSeq(seg, 1, n - 1) /\ q = SubSeq(seg, 1, n)
    OBVIOUS
  <2>2. n \in Int /\ n - 1 \in Int /\ 1 \in Int
    BY <1>0
  <2>3. (\A i \in 1..n : seg[i] \in T) /\ (\A i \in 1..(n - 1) : seg[i] \in T)
    BY <1>0
  <2>4. p \in Seq(T)
    BY <2>1, <2>2, <2>3, SubSeqProperties
  <2>5. q = p \o <<seg[n]>>
    <3>1. 1 \in 1..Len(seg) /\ n \in 1..Len(seg)
      BY <1>0
    <3>2. QED
      BY <2>1, <3>1, SubSeqRecursiveSecond
  <2>6. seg[n] \in T /\ n \in 0..Len(seg) /\ n - 1 \in 0..Len(seg)
    BY <1>0
  <2>7. p \o <<seg[n]>> = Append(p, seg[n])
    BY <2>4, <2>6, AppendIsConcat
  <2>8. s \o Append(p, seg[n]) = Append(s \o p, seg[n]) /\ s \o p \in Seq(T)
    BY <2>4, <2>6, ConcatAppend, ConcatProperties
  <2>9. t[n - 1] = s \o p /\ t[n] = s \o q
    BY <1>a, <2>1, <2>6
  <2>10. QED
    BY <2>5, <2>7, <2>8, <2>9
<1>4. QED
  BY <1>1, <1>2, <1>3

LEMMA LookUpsCount ==
    ASSUME NEW k \in Nat \ {0}, NEW full \in Seq(Blocks), NEW F, F = Range(FlattenSeq(full)),
           NEW index, index = SampledIndex(full), NEW D, D = DOMAIN index,
           NEW par, Range(par) \subseteq F, NEW seg \in Seq(Block),
           NEW s \in Seq(Block), NEW r, LookedUp(r, s, k, F, D)
    PROVE  LookedUp(LookUps(r, seg, par, index, full, k), s \o seg, k, F, D)
<1> DEFINE step == [p \in Results(F, D) \X (1..Len(seg)) |->
                        LookUp(p[1], seg[p[2]], par, index, full, k)]
           Adds(f) == f = [n \in 0..Len(seg) |->
                              IF n = 0 THEN r ELSE LookUp(f[n - 1], seg[n], par, index, full, k)]
<1>0. Len(seg) \in Nat /\ \A n \in 1..Len(seg) : seg[n] \in Block
  BY LenProperties, ElementOfSeq
<1>1. PICK t : AreOneByOne(t, s, seg)
  BY DEF AreOneByOne
<1>2. /\ t[0] = s /\ t[Len(seg)] = s \o seg
      /\ \A n \in 1..Len(seg) : t[n - 1] \in Seq(Block) /\ t[n] = Append(t[n - 1], seg[n])
  BY <1>1, OneByOne
<1>3. PICK X : X = [n \in 0..Len(seg) |-> {x \in Results(F, D) : LookedUp(x, t[n], k, F, D)}]
  OBVIOUS
<1>4. \A n \in 0..Len(seg) : \A x : x \in X[n] <=> LookedUp(x, t[n], k, F, D)
  BY <1>3 DEF LookedUp
<1>5. r \in X[0]
  BY <1>0, <1>2, <1>4
<1>6. ASSUME NEW n \in 1..Len(seg), NEW x \in X[n - 1]
      PROVE  /\ step[<<x, n>>] = LookUp(x, seg[n], par, index, full, k)
             /\ step[<<x, n>>] \in X[n]
  <2>1. n - 1 \in 0..Len(seg) /\ n \in 0..Len(seg)
    BY <1>0
  <2>2. LookedUp(x, t[n - 1], k, F, D)
    BY <1>4, <1>6, <2>1
  <2>3. x \in Results(F, D)
    BY <2>2 DEF LookedUp
  <2>4. step[<<x, n>>] = LookUp(x, seg[n], par, index, full, k)
    BY <2>3
  <2>5. LookedUp(LookUp(x, seg[n], par, index, full, k), Append(t[n - 1], seg[n]), k, F, D)
    BY <1>0, <1>2, <2>2, LookUpCounts
  <2> HIDE DEF step
  <2>6. QED
    BY <1>2, <1>4, <2>1, <2>4, <2>5
<1> HIDE DEF step
<1>7. Leads(step, X, Len(seg))
  BY <1>6 DEF Leads
<1>8. PICK f : AreRun(f, X, r, Len(seg), step)
  BY <1>0, <1>5, <1>7, RunExists
<1>b. f = [n \in 0..Len(seg) |-> f[n]] /\ f[0] = r
  BY <1>8 DEF AreRun
<1>9. /\ \A n \in 0..Len(seg) : f[n] \in X[n]
      /\ \A n \in 1..Len(seg) : f[n] = step[<<f[n - 1], n>>]
  BY <1>8 DEF AreRun
<1>10. \A n \in 1..Len(seg) : f[n] = LookUp(f[n - 1], seg[n], par, index, full, k)
  <2>1. \A n \in 1..Len(seg) : n - 1 \in 0..Len(seg)
    BY <1>0
  <2>2. QED
    BY <1>6, <1>9, <2>1
<1>11. Adds(f)
  <2>1. \A n \in 0..Len(seg) :
            f[n] = IF n = 0 THEN r ELSE LookUp(f[n - 1], seg[n], par, index, full, k)
    <3>1. \A n \in 0..Len(seg) : n # 0 => n \in 1..Len(seg)
      BY <1>0
    <3>2. QED
      BY <1>b, <1>10, <3>1
  <2>2. QED
    BY <1>b, <2>1
<1>12. PICK g : Adds(g) /\ LookUps(r, seg, par, index, full, k) = g[Len(seg)]
  <2>1. LookUps(r, seg, par, index, full, k) = (CHOOSE g : Adds(g))[Len(seg)]
    BY DEF LookUps
  <2> HIDE DEF Adds
  <2>2. QED
    BY <1>11, <2>1
<1>13. g[0] = r /\ \A n \in 1..Len(seg) : g[n] = LookUp(g[n - 1], seg[n], par, index, full, k)
  <2>1. g = [n \in 0..Len(seg) |-> IF n = 0 THEN r ELSE LookUp(g[n - 1], seg[n], par, index, full, k)]
    BY <1>12
  <2>2. 0 \in 0..Len(seg) /\ \A n \in 1..Len(seg) : n \in 0..Len(seg) /\ n # 0
    BY <1>0
  <2>3. g[0] = r
    BY <2>1, <2>2
  <2>4. ASSUME NEW n \in 1..Len(seg)
        PROVE  g[n] = LookUp(g[n - 1], seg[n], par, index, full, k)
    BY <2>1, <2>2
  <2>5. QED
    BY <2>3, <2>4
<1> HIDE DEF Adds
<1>14. Follows(g, X, Len(seg), step) /\ g[0] \in X[0]
  BY <1>5, <1>6, <1>13 DEF Follows
<1>15. \A n \in 0..Len(seg) : g[n] \in X[n]
  BY <1>0, <1>7, <1>14, RunStays
<1>16. g[Len(seg)] \in X[Len(seg)] /\ Len(seg) \in 0..Len(seg)
  BY <1>0, <1>15
<1>17. LookedUp(g[Len(seg)], t[Len(seg)], k, F, D)
  BY <1>4, <1>16
<1>18. QED
  BY <1>2, <1>12, <1>17

LEMMA SegmentCounts ==
    ASSUME NEW k \in Nat \ {0}, NEW full \in Seq(Blocks), NEW F, F = Range(FlattenSeq(full)),
           NEW D, D = DOMAIN SampledIndex(full), NEW seg \in Seq(Block),
           NEW par \in Seq(Block), Range(par) \subseteq F, NEW dirty \in BOOLEAN, NEW up \in BOOLEAN,
           NEW s \in Seq(Block), NEW r, LookedUp(r, s, k, F, D)
    PROVE  LookedUp(SampleSegment(r, seg, par, full, k, dirty, up), s \o seg, k, F, D)
<1>1. PICK q : q = SampleSegment(r, seg, par, full, k, dirty, up)
  OBVIOUS
<1>2. F \in SUBSET Block
  <2>1. FlattenSeq(full) \in Seq(Block)
    BY FlattenType DEF Blocks
  <2>2. QED
    BY <2>1, RangeInBlock
<1>3. CASE ~(dirty /\ seg = par)
  <2>1. PICK p : p = IF up THEN par ELSE << >>
    OBVIOUS
  <2>2. q = LookUps(r, seg, p, SampledIndex(full), full, k)
    BY <1>1, <1>3, <2>1 DEF SampleSegment
  <2>3. Range(p) \subseteq F
    BY <2>1, EmptyRange
  <2>4. PICK index : index = SampledIndex(full) /\ D = DOMAIN index
    OBVIOUS
  <2>5. LookedUp(LookUps(r, seg, p, index, full, k), s \o seg, k, F, D)
    BY <2>3, <2>4, LookUpsCount
  <2>6. QED
    BY <1>1, <2>2, <2>4, <2>5
<1>4. CASE dirty /\ seg = par
  <2>1. q = [r EXCEPT !.cleanSegments = @ \o seg]
    BY <1>1, <1>4 DEF SampleSegment
  <2>2. seg \in Seq(F)
    BY <1>2, <1>4, SeqIn
  <2>3. r \in Results(F, D) /\ CacheOK(r.cache, k) /\ Range(r.cache.list) \subseteq F
    BY DEF LookedUp
  <2>4. PICK x \in Nat, y \in Nat, z \in Nat, w \in Nat, m \in Nat :
            /\ x = Len(r.cacheHits) /\ y = Len(r.indexHits) /\ z = Len(r.cleanSegments)
            /\ w = Len(r.parentHits) /\ m = Len(r.misses)
    BY <2>3, ResultsParts
  <2>5. PICK l \in Nat, e \in Nat : l = Len(seg) /\ e = Len(s)
    BY LenProperties
  <2>6. r.cleanSegments \in Seq(F)
    BY <2>3, ResultsParts
  <2>7. r.cleanSegments \o seg \in Seq(F) /\ Len(r.cleanSegments \o seg) = z + l
    BY <2>2, <2>4, <2>5, <2>6, ConcatProperties
  <2>8. /\ q \in Results(F, D) /\ q.cache = r.cache /\ q.misses = r.misses
        /\ q.cacheHits = r.cacheHits /\ q.indexHits = r.indexHits
        /\ q.cleanSegments = r.cleanSegments \o seg /\ q.parentHits = r.parentHits
    BY <2>1, <2>3, <2>7 DEF Results
  <2>9. HitsOf(q) = x + y + (z + l) + w /\ HitsOf(r) = x + y + z + w
    BY <2>4, <2>7, <2>8 DEF HitsOf
  <2>10. Len(s \o seg) = e + l
    BY <2>5, ConcatProperties
  <2>11. PICK a \in Nat : a = Len(Among(s, F))
    BY AmongType, LenProperties
  <2>12. Len(Among(s \o seg, F)) = a + l
    <3>1. Among(s \o seg, F) = Among(s, F) \o Among(seg, F)
      BY AmongConcat
    <3>2. Range(seg) \cap F = Range(seg) \cap Block
      BY <1>2, <1>4
    <3>3. Among(seg, F) = seg
      BY <3>2, AmongSame, AmongAll
    <3>4. Among(s, F) \in Seq(Block)
      BY AmongType
    <3>5. QED
      BY <2>5, <2>11, <3>1, <3>3, <3>4, ConcatProperties
  <2>13. x + y + z + w + m = e /\ x + y + z + w <= a
    BY <2>4, <2>5, <2>9, <2>11 DEF LookedUp
  <2>14. HitsOf(q) + Len(q.misses) = Len(s \o seg) /\ HitsOf(q) <= Len(Among(s \o seg, F))
    <3>1. Len(q.misses) = m
      BY <2>4, <2>8
    <3>2. x + y + (z + l) + w + m = e + l /\ x + y + (z + l) + w <= a + l
      BY <2>13
    <3>3. QED
      BY <2>9, <2>10, <2>12, <3>1, <3>2
  <2>15. QED
    BY <1>1, <2>3, <2>8, <2>14 DEF LookedUp
<1>5. QED
  BY <1>3, <1>4

LEMMA NothingCounted ==
    ASSUME NEW k \in Nat, NEW F, NEW D
    PROVE  LookedUp(NothingYet, << >>, k, F, D)
<1>1. PICK e : e = << >>
  OBVIOUS
<1>2. /\ \A T : e \in Seq(T)
      /\ Len(e) = 0
  BY <1>1, EmptySeq
<1>3. CacheOK(LruCache, k) /\ LruCache.list = e /\ LruCache \in Caches
  BY <1>1, LruCacheOK DEF CacheOK
<1>4. PICK q : q = NothingYet
  OBVIOUS
<1>5. /\ q \in Results(F, D) /\ q.cache = LruCache /\ q.cacheHits = e /\ q.indexHits = e
      /\ q.misses = e /\ q.cleanSegments = e /\ q.parentHits = e
  BY <1>1, <1>2, <1>3, <1>4 DEF NothingYet, Results
<1>6. HitsOf(q) = 0 /\ Len(q.misses) = 0
  BY <1>2, <1>5 DEF HitsOf
<1>7. Among(e, F) = e /\ Range(q.cache.list) \subseteq F
  BY <1>1, <1>3, <1>5, AmongEmpty, EmptyRange
<1>8. QED
  BY <1>1, <1>2, <1>3, <1>4, <1>5, <1>6, <1>7 DEF LookedUp

(* All segments of a trace. *)
LEMMA SampledCounts ==
    ASSUME NEW k \in Nat \ {0}, NEW full \in Seq(Blocks), NEW F, F = Range(FlattenSeq(full)),
           NEW D, D = DOMAIN SampledIndex(full), NEW dirty \in BOOLEAN, NEW up \in BOOLEAN,
           NEW segs \in Seq(Blocks), Len(segs) <= Len(full)
    PROVE  LookedUp(sampled(segs, full, k, dirty, up), FlattenSeq(segs), k, F, D)
<1> DEFINE step == [p \in Results(F, D) \X (1..Len(segs)) |->
                        SampleSegment(p[1], segs[p[2]], full[p[2]], full, k, dirty, up)]
           Adds(f) == f = [n \in 0..Len(segs) |->
                              IF n = 0 THEN NothingYet
                              ELSE SampleSegment(f[n - 1], segs[n], full[n], full, k, dirty, up)]
<1>0. Len(segs) \in Nat /\ \A n \in 1..Len(segs) : segs[n] \in Seq(Block)
  BY LenProperties, ElementOfSeq DEF Blocks
<1>a. \A n \in 1..Len(segs) : full[n] \in Seq(Block) /\ Range(full[n]) \subseteq F
  <2>1. Len(full) \in Nat /\ \A n \in 1..Len(full) : full[n] \in Seq(Block)
    BY LenProperties, ElementOfSeq DEF Blocks
  <2>2. \A n \in 1..Len(full) : Range(full[n]) \subseteq F
    BY FlattenRange
  <2>3. QED
    BY <1>0, <2>1, <2>2
<1>1. PICK t : AreOneByOne(t, << >>, segs)
  BY DEF AreOneByOne
<1>2. /\ t[0] = << >> /\ t[Len(segs)] = segs
      /\ \A n \in 1..Len(segs) : t[n - 1] \in Seq(Blocks) /\ t[n] = Append(t[n - 1], segs[n])
  <2>1. PICK e : e = << >>
    OBVIOUS
  <2>2. e \in Seq(Blocks) /\ e \o segs = segs
    BY <2>1, EmptySeq, ConcatEmptySeq
  <2>3. AreOneByOne(t, e, segs)
    BY <1>1, <2>1
  <2>4. /\ t[0] = e /\ t[Len(segs)] = e \o segs
        /\ \A n \in 1..Len(segs) : t[n - 1] \in Seq(Blocks) /\ t[n] = Append(t[n - 1], segs[n])
    <3>1. PICK T : T = Blocks
      OBVIOUS
    <3>2. e \in Seq(T) /\ segs \in Seq(T)
      BY <2>2, <3>1
    <3>3. t[0] = e /\ t[Len(segs)] = e \o segs
      BY <2>3, <3>2, OneByOne
    <3>4. \A n \in 1..Len(segs) : t[n - 1] \in Seq(T) /\ t[n] = Append(t[n - 1], segs[n])
      BY <2>3, <3>2, OneByOne
    <3>5. QED
      BY <3>1, <3>3, <3>4
  <2>5. QED
    BY <2>1, <2>2, <2>4
<1>u. PICK u : u = [n \in 0..Len(segs) |-> FlattenSeq(t[n])]
  OBVIOUS
<1>v. /\ u[0] = << >> /\ u[Len(segs)] = FlattenSeq(segs)
      /\ \A n \in 1..Len(segs) : u[n - 1] \in Seq(Block) /\ u[n] = u[n - 1] \o segs[n]
  <2>1. u[0] = << >> /\ u[Len(segs)] = FlattenSeq(segs)
    BY <1>0, <1>2, <1>u, FlattenEmpty
  <2>2. ASSUME NEW n \in 1..Len(segs)
        PROVE  u[n - 1] \in Seq(Block) /\ u[n] = u[n - 1] \o segs[n]
    <3>1. u[n - 1] = FlattenSeq(t[n - 1]) /\ u[n] = FlattenSeq(t[n])
      BY <1>0, <1>u
    <3>2. t[n - 1] \in Seq(Seq(Block)) /\ t[n] = Append(t[n - 1], segs[n]) /\ segs[n] \in Seq(Block)
      BY <1>0, <1>2 DEF Blocks
    <3>3. QED
      BY <3>1, <3>2, FlattenType, FlattenAppend
  <2>3. QED
    BY <2>1, <2>2
<1>3. PICK X : X = [n \in 0..Len(segs) |-> {x \in Results(F, D) : LookedUp(x, u[n], k, F, D)}]
  OBVIOUS
<1>4. \A n \in 0..Len(segs) : \A x : x \in X[n] <=> LookedUp(x, u[n], k, F, D)
  BY <1>3 DEF LookedUp
<1>5. NothingYet \in X[0]
  BY <1>0, <1>v, <1>4, NothingCounted
<1>6. ASSUME NEW n \in 1..Len(segs), NEW x \in X[n - 1]
      PROVE  /\ step[<<x, n>>] = SampleSegment(x, segs[n], full[n], full, k, dirty, up)
             /\ step[<<x, n>>] \in X[n]
  <2>1. n - 1 \in 0..Len(segs) /\ n \in 0..Len(segs)
    BY <1>0
  <2>2. LookedUp(x, u[n - 1], k, F, D)
    BY <1>4, <1>6, <2>1
  <2>3. x \in Results(F, D)
    BY <2>2 DEF LookedUp
  <2>4. step[<<x, n>>] = SampleSegment(x, segs[n], full[n], full, k, dirty, up)
    BY <2>3
  <2>5. LookedUp(SampleSegment(x, segs[n], full[n], full, k, dirty, up), u[n - 1] \o segs[n], k, F, D)
    BY <1>0, <1>a, <1>v, <2>2, SegmentCounts
  <2> HIDE DEF step
  <2>6. QED
    BY <1>v, <1>4, <2>1, <2>4, <2>5
<1> HIDE DEF step
<1>7. Leads(step, X, Len(segs))
  BY <1>6 DEF Leads
<1>8. PICK f : AreRun(f, X, NothingYet, Len(segs), step)
  BY <1>0, <1>5, <1>7, RunExists
<1>b. f = [n \in 0..Len(segs) |-> f[n]] /\ f[0] = NothingYet
  BY <1>8 DEF AreRun
<1>9. /\ \A n \in 0..Len(segs) : f[n] \in X[n]
      /\ \A n \in 1..Len(segs) : f[n] = step[<<f[n - 1], n>>]
  BY <1>8 DEF AreRun
<1>10. \A n \in 1..Len(segs) : f[n] = SampleSegment(f[n - 1], segs[n], full[n], full, k, dirty, up)
  <2>1. \A n \in 1..Len(segs) : n - 1 \in 0..Len(segs)
    BY <1>0
  <2>2. QED
    BY <1>6, <1>9, <2>1
<1>11. Adds(f)
  <2>1. \A n \in 0..Len(segs) :
            f[n] = IF n = 0 THEN NothingYet
                   ELSE SampleSegment(f[n - 1], segs[n], full[n], full, k, dirty, up)
    <3>1. \A n \in 0..Len(segs) : n # 0 => n \in 1..Len(segs)
      BY <1>0
    <3>2. QED
      BY <1>b, <1>10, <3>1
  <2>2. QED
    BY <1>b, <2>1
<1>12. PICK g : Adds(g) /\ sampled(segs, full, k, dirty, up) = g[Len(segs)]
  <2>1. sampled(segs, full, k, dirty, up) = (CHOOSE g : Adds(g))[Len(segs)]
    BY DEF sampled
  <2> HIDE DEF Adds
  <2>2. QED
    BY <1>11, <2>1
<1>13. g[0] = NothingYet
       /\ \A n \in 1..Len(segs) : g[n] = SampleSegment(g[n - 1], segs[n], full[n], full, k, dirty, up)
  <2>1. g = [n \in 0..Len(segs) |->
                IF n = 0 THEN NothingYet
                ELSE SampleSegment(g[n - 1], segs[n], full[n], full, k, dirty, up)]
    BY <1>12
  <2>2. 0 \in 0..Len(segs) /\ \A n \in 1..Len(segs) : n \in 0..Len(segs) /\ n # 0
    BY <1>0
  <2>3. g[0] = NothingYet
    BY <2>1, <2>2
  <2>4. ASSUME NEW n \in 1..Len(segs)
        PROVE  g[n] = SampleSegment(g[n - 1], segs[n], full[n], full, k, dirty, up)
    BY <2>1, <2>2
  <2>5. QED
    BY <2>3, <2>4
<1> HIDE DEF Adds
<1>14. Follows(g, X, Len(segs), step) /\ g[0] \in X[0]
  BY <1>5, <1>6, <1>13 DEF Follows
<1>15. \A n \in 0..Len(segs) : g[n] \in X[n]
  BY <1>0, <1>7, <1>14, RunStays
<1>16. g[Len(segs)] \in X[Len(segs)] /\ Len(segs) \in 0..Len(segs)
  BY <1>0, <1>15
<1>17. LookedUp(g[Len(segs)], u[Len(segs)], k, F, D)
  BY <1>4, <1>16
<1>18. QED
  BY <1>v, <1>12, <1>17

(* Whatever the trace, the index trace, the cache and the levels. *)
LEMMA SampledIsRight ==
    ASSUME NEW trace \in Blocks, NEW parent \in Blocks, NEW k \in Nat \ {0}
    PROVE  SampledRight(trace, parent, k)
<1>1. PICK segs, full : segs = Segments(trace) /\ full = Segments(parent)
  OBVIOUS
<1>2. segs \in Seq(Blocks) /\ full \in Seq(Blocks)
  BY <1>1, SegmentsType
<1>3. PICK F, D : F = Range(FlattenSeq(full)) /\ D = DOMAIN SampledIndex(full)
  OBVIOUS
<1>4. F \in SUBSET Block /\ FlattenSeq(segs) \in Seq(Block)
  <2>1. FlattenSeq(full) \in Seq(Block) /\ FlattenSeq(segs) \in Seq(Block)
    BY <1>2, FlattenType DEF Blocks
  <2>2. QED
    BY <1>3, <2>1, RangeInBlock
<1>5. ASSUME NEW dirty \in BOOLEAN, NEW up \in BOOLEAN, WithinIndex(segs, full),
             NEW r, r = sampled(segs, full, k, dirty, up)
      PROVE  /\ Len(Hits(r)) + Len(r.misses) = Len(FlattenSeq(segs))
             /\ Range(Hits(r)) \subseteq F
             /\ Range(r.misses) \cap D = {}
             /\ Len(Hits(r)) <= Len(Among(FlattenSeq(segs), F))
  <2>1. LookedUp(r, FlattenSeq(segs), k, F, D)
    BY <1>2, <1>3, <1>5, SampledCounts DEF WithinIndex
  <2>2. r \in Results(F, D)
    BY <2>1 DEF LookedUp
  <2>3. /\ r.cacheHits \in Seq(F) /\ r.indexHits \in Seq(F) /\ r.misses \in Seq(Block \ D)
        /\ r.cleanSegments \in Seq(F) /\ r.parentHits \in Seq(F)
    BY <2>2, ResultsParts
  <2>4. PICK a, b, c : /\ a = r.cacheHits \o r.indexHits /\ b = a \o r.cleanSegments
                       /\ c = b \o r.parentHits
    OBVIOUS
  <2>5. a \in Seq(F) /\ Len(a) = Len(r.cacheHits) + Len(r.indexHits)
    BY <2>3, <2>4, ConcatProperties
  <2>6. b \in Seq(F) /\ Len(b) = Len(a) + Len(r.cleanSegments)
    BY <2>3, <2>4, <2>5, ConcatProperties
  <2>7. c \in Seq(F) /\ Len(c) = Len(b) + Len(r.parentHits)
    BY <2>3, <2>4, <2>6, ConcatProperties
  <2>8. Hits(r) = c
    BY <2>4 DEF Hits
  <2>9. Len(Hits(r)) = HitsOf(r)
    BY <2>5, <2>6, <2>7, <2>8 DEF HitsOf
  <2>10. Range(Hits(r)) \subseteq F
    BY <1>4, <2>7, <2>8, SeqIn
  <2>11. Range(r.misses) \cap D = {}
    <3>1. Range(r.misses) \subseteq Block \ D
      <4>1. Block \ D \in SUBSET Block
        OBVIOUS
      <4>2. QED
        BY <2>3, <4>1, SeqIn
    <3>2. QED
      BY <3>1
  <2>12. QED
    BY <2>1, <2>9, <2>10, <2>11 DEF LookedUp
<1>6. theoretical(segs, full).hits = Among(FlattenSeq(segs), F)
  BY <1>3 DEF theoretical, BlocksOf
<1>7. Theory(trace, parent).indexHits = Among(FlattenSeq(segs), F)
  BY <1>1, <1>3 DEF Theory, TheorySegments, BlocksOf
<1>8. load_segment(trace) = segs /\ load_segment(parent) = full
  BY <1>1 DEF load_segment
<1>9. QED
  BY <1>3, <1>5, <1>6, <1>7, <1>8 DEF SampledRight, BlocksOf

-----------------------------------------------------------------------------
(***************************************************************************)
(* What is added up over sets: elements, and the sizes of elements.        *)
(***************************************************************************)
IsMeasure(M, m, A) ==
    /\ IsFiniteSet(A)
    /\ M[{}] = 0
    /\ \A S \in SUBSET A : M[S] \in Nat
    /\ \A e \in A : m[e] \in Nat
    /\ \A S \in SUBSET A : \A e \in A \ S : M[S \cup {e}] = M[S] + m[e]

LEMMA CountMeasure ==
    ASSUME NEW A, IsFiniteSet(A), NEW M, M = [S \in SUBSET A |-> Cardinality(S)],
           NEW m, m = [x \in A |-> 1]
    PROVE  IsMeasure(M, m, A)
<1>1. \A S \in SUBSET A : IsFiniteSet(S) /\ Cardinality(S) \in Nat
  BY FS_Subset, FS_CardinalityType
<1>2. M[{}] = 0
  BY FS_EmptySet
<1>3. ASSUME NEW S \in SUBSET A, NEW e \in A \ S
      PROVE  M[S \cup {e}] = M[S] + m[e]
  <2>1. Cardinality(S \cup {e}) = Cardinality(S) + 1
    BY <1>1, FS_AddElement
  <2>2. S \cup {e} \in SUBSET A
    OBVIOUS
  <2>3. QED
    BY <2>1, <2>2
<1>4. QED
  BY <1>1, <1>2, <1>3 DEF IsMeasure

LEMMA SumMeasure ==
    ASSUME NEW A, IsFiniteSet(A), NEW m, \A x \in A : m[x] \in Nat,
           NEW M, M = [S \in SUBSET A |-> SumFunctionOnSet(m, S)]
    PROVE  IsMeasure(M, m, A)
<1>1. \A S \in SUBSET A : IsFiniteSet(S)
  BY FS_Subset
<1>2. \A S \in SUBSET A : M[S] \in Nat
  BY <1>1, SumType
<1>3. M[{}] = 0
  BY SumEmpty
<1>4. ASSUME NEW S \in SUBSET A, NEW e \in A \ S
      PROVE  M[S \cup {e}] = M[S] + m[e]
  <2>1. SumFunctionOnSet(m, S \cup {e}) = m[e] + SumFunctionOnSet(m, S)
    BY <1>1, SumAdd
  <2>2. S \cup {e} \in SUBSET A /\ SumFunctionOnSet(m, S) \in Nat /\ m[e] \in Nat
    BY <1>2
  <2>3. QED
    BY <2>1, <2>2
<1>5. QED
  BY <1>2, <1>3, <1>4 DEF IsMeasure

LEMMA MeasureUnion ==
    ASSUME NEW A, NEW M, NEW m, IsMeasure(M, m, A), NEW S \in SUBSET A
    PROVE  \A T \in SUBSET (A \ S) : M[S \cup T] = M[S] + M[T]
<1> DEFINE P == {T \in SUBSET (A \ S) : M[S \cup T] = M[S] + M[T]}
<1>1. IsFiniteSet(A \ S) /\ M[{}] = 0 /\ M[S] \in Nat
  BY FS_Subset DEF IsMeasure
<1>2. {} \in P
  <2>1. S \cup {} = S
    OBVIOUS
  <2>2. QED
    BY <1>1, <2>1
<1>3. ASSUME NEW T \in SUBSET (A \ S), NEW e \in (A \ S) \ T, T \in P
      PROVE  T \cup {e} \in P
  <2>1. PICK U : U = S \cup T
    OBVIOUS
  <2>2. U \in SUBSET A /\ T \in SUBSET A /\ e \in A \ U /\ e \in A \ T
    BY <2>1
  <2>3. M[U \cup {e}] = M[U] + m[e] /\ M[T \cup {e}] = M[T] + m[e]
    BY <2>2 DEF IsMeasure
  <2>4. M[U] \in Nat /\ M[T] \in Nat /\ m[e] \in Nat
    BY <2>2 DEF IsMeasure
  <2>5. M[U] = M[S] + M[T]
    BY <1>3, <2>1
  <2>6. M[U \cup {e}] = M[S] + M[T \cup {e}]
    BY <1>1, <2>3, <2>4, <2>5
  <2>7. S \cup (T \cup {e}) = U \cup {e} /\ T \cup {e} \in SUBSET (A \ S)
    BY <2>1
  <2>8. QED
    BY <2>6, <2>7
<1> HIDE DEF P
<1>4. SUBSET (A \ S) \subseteq P
  BY <1>1, <1>2, <1>3, SetInduction
<1>5. QED
  BY <1>4 DEF P

LEMMA MeasureMonotone ==
    ASSUME NEW A, NEW M, NEW m, IsMeasure(M, m, A), NEW T \in SUBSET A, NEW S \in SUBSET T
    PROVE  M[S] <= M[T] /\ M[S] \in Nat /\ M[T] \in Nat
<1>1. S \in SUBSET A /\ T \ S \in SUBSET (A \ S) /\ T \ S \in SUBSET A
  OBVIOUS
<1>2. M[S \cup (T \ S)] = M[S] + M[T \ S]
  <2>1. PICK R : R = T \ S
    OBVIOUS
  <2>2. M[S \cup R] = M[S] + M[R]
    BY <1>1, <2>1, MeasureUnion
  <2>3. QED
    BY <2>1, <2>2
<1>3. PICK a \in Nat, b \in Nat : a = M[S] /\ b = M[T \ S]
  BY <1>1 DEF IsMeasure
<1>4. S \cup (T \ S) = T
  OBVIOUS
<1>5. M[T] = a + b
  BY <1>2, <1>3, <1>4
<1>6. QED
  BY <1>3, <1>5

LEMMA SumSame ==
    ASSUME NEW D, IsFiniteSet(D), NEW f, NEW g, \A x \in D : f[x] \in Nat, \A x \in D : g[x] = f[x]
    PROVE  SumFunctionOnSet(g, D) = SumFunctionOnSet(f, D)
<1> DEFINE P == {S \in SUBSET D : SumFunctionOnSet(g, S) = SumFunctionOnSet(f, S)}
<1>1. {} \in P
  BY SumEmpty
<1>2. ASSUME NEW S \in SUBSET D, NEW e \in D \ S, S \in P
      PROVE  S \cup {e} \in P
  <2>1. IsFiniteSet(S) /\ \A x \in S \cup {e} : f[x] \in Nat
    BY FS_Subset
  <2>2. \A x \in S \cup {e} : g[x] \in Nat
    BY <2>1
  <2>3. SumFunctionOnSet(f, S \cup {e}) = f[e] + SumFunctionOnSet(f, S)
    BY <2>1, SumAdd
  <2>4. SumFunctionOnSet(g, S \cup {e}) = g[e] + SumFunctionOnSet(g, S)
    BY <2>1, <2>2, SumAdd
  <2>5. QED
    BY <1>2, <2>3, <2>4
<1> HIDE DEF P
<1>3. SUBSET D \subseteq P
  BY <1>1, <1>2, SetInduction
<1>4. QED
  BY <1>3 DEF P

(* A sum of which one term has grown. *)
LEMMA SumGrows ==
    ASSUME NEW D, IsFiniteSet(D), NEW d \in D, NEW f, NEW g, NEW c \in Nat,
           \A x \in D : f[x] \in Nat, \A x \in D \ {d} : g[x] = f[x], g[d] = f[d] + c
    PROVE  SumFunctionOnSet(g, D) = SumFunctionOnSet(f, D) + c
<1>1. PICK S : S = D \ {d}
  OBVIOUS
<1>2. IsFiniteSet(S) /\ d \notin S /\ S \cup {d} = D
  BY <1>1, FS_Subset
<1>3. \A x \in S \cup {d} : f[x] \in Nat /\ g[x] \in Nat
  BY <1>1, <1>2
<1>4. SumFunctionOnSet(f, S \cup {d}) = f[d] + SumFunctionOnSet(f, S)
  BY <1>2, <1>3, SumAdd
<1>5. \A x \in S : f[x] = g[x]
  BY <1>1
<1>6. SumFunctionOnSet(g, S \cup {d}) = g[d] + SumFunctionOnSet(f, S)
  <2>1. \A x \in S \cup {d} : g[x] \in Nat
    BY <1>3
  <2>2. QED
    <3>1. SumFunctionOnSet(g, S \cup {d}) = g[d] + SumFunctionOnSet(g, S)
      BY <1>2, <2>1, SumAdd
    <3>2. SumFunctionOnSet(g, S) = SumFunctionOnSet(f, S)
      BY <1>1, <1>2, SumSame
    <3>3. QED
      BY <3>1, <3>2
<1>7. PICK a \in Nat, b \in Nat : a = SumFunctionOnSet(f, S) /\ b = f[d]
  BY <1>2, <1>3, SumType
<1>8. SumFunctionOnSet(f, D) = b + a /\ SumFunctionOnSet(g, D) = (b + c) + a
  BY <1>2, <1>4, <1>6, <1>7
<1>9. QED
  BY <1>7, <1>8

LEMMA SumOfNone ==
    ASSUME NEW D, IsFiniteSet(D), NEW f, \A x \in D : f[x] = 0
    PROVE  SumFunctionOnSet(f, D) = 0
<1> DEFINE P == {S \in SUBSET D : SumFunctionOnSet(f, S) = 0}
<1>1. {} \in P
  BY SumEmpty
<1>2. ASSUME NEW S \in SUBSET D, NEW e \in D \ S, S \in P
      PROVE  S \cup {e} \in P
  <2>1. IsFiniteSet(S) /\ \A x \in S \cup {e} : f[x] \in Nat
    BY FS_Subset
  <2>2. SumFunctionOnSet(f, S \cup {e}) = f[e] + SumFunctionOnSet(f, S)
    BY <2>1, SumAdd
  <2>3. QED
    BY <1>2, <2>2
<1> HIDE DEF P
<1>3. SUBSET D \subseteq P
  BY <1>1, <1>2, SetInduction
<1>4. QED
  BY <1>3 DEF P

(* The parts of a set have what the set has. *)
PartOf(S, part, d) == {x \in S : part[x] = d}

LEMMA MeasureParts ==
    ASSUME NEW A, NEW M, NEW m, IsMeasure(M, m, A), NEW D, IsFiniteSet(D),
           NEW part, \A x \in A : part[x] \in D,
           NEW f, f = [d \in D |-> M[PartOf(A, part, d)]]
    PROVE  SumFunction(f) = M[A]
<1> DEFINE F(S) == [d \in D |-> M[PartOf(S, part, d)]]
           P == {S \in SUBSET A : SumFunctionOnSet(F(S), D) = M[S]}
<1>0. IsFiniteSet(A) /\ M[{}] = 0
  BY DEF IsMeasure
<1>a. \A S \in SUBSET A : \A d \in D : F(S)[d] = M[PartOf(S, part, d)] /\ F(S)[d] \in Nat
  <2>1. \A S \in SUBSET A : \A d : PartOf(S, part, d) \in SUBSET A
    BY DEF PartOf
  <2>2. QED
    BY <2>1 DEF IsMeasure
<1> HIDE DEF F
<1>1. {} \in P
  <2>1. \A d : PartOf({}, part, d) = {}
    BY DEF PartOf
  <2>2. \A d \in D : F({})[d] = 0
    <3>1. PICK e : e = {}
      OBVIOUS
    <3>2. e \in SUBSET A /\ M[e] = 0 /\ \A d : PartOf(e, part, d) = e
      BY <1>0, <2>1, <3>1
    <3>3. \A d \in D : F(e)[d] = 0
      BY <1>a, <3>2
    <3>4. QED
      BY <3>1, <3>3
  <2>3. QED
    BY <1>0, <2>2, SumOfNone
<1>2. ASSUME NEW S \in SUBSET A, NEW e \in A \ S, S \in P
      PROVE  S \cup {e} \in P
  <2>1. PICK d \in D : d = part[e]
    OBVIOUS
  <2>2. PICK U : U = S \cup {e} /\ U \in SUBSET A
    OBVIOUS
  <2>3. PartOf(U, part, d) = PartOf(S, part, d) \cup {e}
    BY <2>1, <2>2 DEF PartOf
  <2>4. \A c \in D \ {d} : PartOf(U, part, c) = PartOf(S, part, c)
    BY <2>1, <2>2 DEF PartOf
  <2>5. PartOf(S, part, d) \in SUBSET A /\ e \in A \ PartOf(S, part, d)
    BY DEF PartOf
  <2>6. M[PartOf(S, part, d) \cup {e}] = M[PartOf(S, part, d)] + m[e] /\ m[e] \in Nat
    BY <2>5 DEF IsMeasure
  <2>7. F(U)[d] = F(S)[d] + m[e]
    BY <1>a, <2>2, <2>3, <2>6
  <2>8. \A c \in D \ {d} : F(U)[c] = F(S)[c]
    <3>1. ASSUME NEW c \in D \ {d}
          PROVE  F(U)[c] = F(S)[c]
      <4>1. F(U)[c] = M[PartOf(U, part, c)] /\ F(S)[c] = M[PartOf(S, part, c)]
        BY <1>a, <2>2
      <4>2. QED
        BY <2>4, <4>1
    <3>2. QED
      BY <3>1
  <2>9. \A c \in D : F(S)[c] \in Nat
    BY <1>a
  <2>10. SumFunctionOnSet(F(U), D) = SumFunctionOnSet(F(S), D) + m[e]
    <3>1. PICK g, h : g = F(U) /\ h = F(S)
      OBVIOUS
    <3>2. SumFunctionOnSet(g, D) = SumFunctionOnSet(h, D) + m[e]
      BY <2>6, <2>7, <2>8, <2>9, <3>1, SumGrows
    <3>3. QED
      BY <3>1, <3>2
  <2>11. M[U] = M[S] + m[e]
    BY <2>2 DEF IsMeasure
  <2>12. QED
    BY <1>2, <2>2, <2>10, <2>11
<1> HIDE DEF P
<1>3. SUBSET A \subseteq P
  BY <1>0, <1>1, <1>2, SetInduction
<1>4. SumFunctionOnSet(F(A), D) = M[A]
  BY <1>3 DEF P
<1>5. f = F(A) /\ DOMAIN f = D
  BY DEF F
<1>6. QED
  BY <1>4, <1>5 DEF SumFunction

-----------------------------------------------------------------------------
(***************************************************************************)
(* Bins.                                                                   *)
(***************************************************************************)
RealSegments == Seq(Block) \ {<< >>}

LEMMA RangeConcat ==
    ASSUME NEW s \in Seq(Block)
    PROVE  \A t \in Seq(Block) : Range(s \o t) = Range(s) \cup Range(t)
<1> DEFINE P == {t \in Seq(Block) : Range(s \o t) = Range(s) \cup Range(t)}
<1>1. << >> \in P
  BY ConcatEmptySeq, EmptySeq, EmptyRange
<1>2. ASSUME NEW t \in Seq(Block), NEW e \in Block, t \in P
      PROVE  Append(t, e) \in P
  <2>1. s \o Append(t, e) = Append(s \o t, e) /\ s \o t \in Seq(Block) /\ Append(t, e) \in Seq(Block)
    BY ConcatAppend, ConcatProperties, AppendProperties
  <2>a. PICK w : w = s \o t
    OBVIOUS
  <2>c. w \in Seq(Block)
    BY <2>1, <2>a
  <2>d. Range(Append(w, e)) = Range(w) \cup {e}
    BY <2>c, RangeAppend
  <2>b. Range(Append(w, e)) = Range(w) \cup {e} /\ Range(Append(t, e)) = Range(t) \cup {e}
    BY <2>d, RangeAppend
  <2>2. Range(Append(s \o t, e)) = Range(s \o t) \cup {e} /\ Range(Append(t, e)) = Range(t) \cup {e}
    BY <2>a, <2>b
  <2>3. QED
    BY <1>2, <2>1, <2>2
<1> HIDE DEF P
<1>3. Seq(Block) \subseteq P
  BY <1>1, <1>2, SeqSetInduction
<1>4. QED
  BY <1>3 DEF P

(* The blocks of segments, in one or the other. *)
LEMMA FlattenUnion ==
    ASSUME NEW ss \in Seq(Blocks)
    PROVE  Range(FlattenSeq(ss)) = UNION {Range(x) : x \in Range(ss)}
<1>1. PICK F : F = UNION {Range(x) : x \in Range(ss)}
  OBVIOUS
<1>2. /\ Len(ss) \in Nat /\ DOMAIN ss = 1..Len(ss)
      /\ \A n \in 1..Len(ss) : ss[n] \in Seq(Block)
  BY LenProperties, ElementOfSeq DEF Blocks
<1>3. \A x \in Range(ss) : x \in Seq(Block) /\ Range(x) \subseteq Range(FlattenSeq(ss))
  BY <1>2, FlattenRange DEF Range
<1>4. F \subseteq Range(FlattenSeq(ss))
  BY <1>1, <1>3
<1>5. F \in SUBSET Block
  BY <1>1, <1>3, RangeInBlock
<1>6. \A n \in 1..Len(ss) : Range(ss[n]) \subseteq F
  <2>1. \A n \in 1..Len(ss) : ss[n] \in Range(ss)
    BY <1>2 DEF Range
  <2>2. QED
    BY <1>1, <2>1
<1>7. Range(FlattenSeq(ss)) \subseteq F
  BY <1>5, <1>6, FlattenIn
<1>8. QED
  BY <1>1, <1>4, <1>7

(* What segments weigh, one by one. *)
IsWeight(W, w) ==
    /\ W[<< >>] = 0
    /\ \A s \in Seq(RealSegments) : W[s] \in Nat
    /\ \A e \in RealSegments : w[e] \in Nat
    /\ \A s \in Seq(RealSegments) : \A e \in RealSegments : W[Append(s, e)] = W[s] + w[e]

(* The parts of a sequence of segments weigh what the sequence weighs. *)
SegmentsWith(part, d) == {x \in RealSegments : part[x] = d}

LEMMA WeightParts ==
    ASSUME NEW W, NEW w, IsWeight(W, w), NEW D, IsFiniteSet(D),
           NEW part, \A x \in RealSegments : part[x] \in D,
           NEW s \in Seq(RealSegments),
           NEW f, f = [d \in D |-> W[Among(s, SegmentsWith(part, d))]]
    PROVE  SumFunction(f) = W[s]
<1> DEFINE F(r) == [d \in D |-> W[Among(r, SegmentsWith(part, d))]]
           P == {r \in Seq(RealSegments) : SumFunctionOnSet(F(r), D) = W[r]}
<1>a. \A r \in Seq(RealSegments) : \A d \in D :
          F(r)[d] = W[Among(r, SegmentsWith(part, d))] /\ F(r)[d] \in Nat
  <2>1. \A r \in Seq(RealSegments) : \A d : Among(r, SegmentsWith(part, d)) \in Seq(RealSegments)
    BY AmongTypeIn
  <2>2. QED
    BY <2>1 DEF IsWeight
<1> HIDE DEF F
<1>1. << >> \in P
  <2>1. PICK e : e = << >>
    OBVIOUS
  <2>2. e \in Seq(RealSegments) /\ W[e] = 0 /\ \A S : Among(e, S) = e
    BY <2>1, EmptySeq, AmongEmpty DEF IsWeight
  <2>3. \A d \in D : F(e)[d] = 0
    BY <1>a, <2>2
  <2>4. SumFunctionOnSet(F(e), D) = 0
    BY <2>3, SumOfNone
  <2>5. QED
    BY <2>1, <2>2, <2>4
<1>2. ASSUME NEW r \in Seq(RealSegments), NEW e \in RealSegments, r \in P
      PROVE  Append(r, e) \in P
  <2>1. PICK d \in D : d = part[e]
    OBVIOUS
  <2>2. PICK u : u = Append(r, e) /\ u \in Seq(RealSegments)
    BY AppendProperties
  <2>3. PICK q : q = Among(r, SegmentsWith(part, d)) /\ q \in Seq(RealSegments)
    BY AmongTypeIn
  <2>4. Among(u, SegmentsWith(part, d)) = Append(q, e)
    <3>1. e \in SegmentsWith(part, d)
      BY <2>1 DEF SegmentsWith
    <3>2. QED
      BY <2>2, <2>3, <3>1, AmongAppendIn
  <2>5. \A c \in D \ {d} : Among(u, SegmentsWith(part, c)) = Among(r, SegmentsWith(part, c))
    <3>1. \A c \in D \ {d} : e \notin SegmentsWith(part, c)
      BY <2>1 DEF SegmentsWith
    <3>2. QED
      BY <2>2, <3>1, AmongAppendIn
  <2>6. W[Append(q, e)] = W[q] + w[e] /\ w[e] \in Nat
    BY <2>3 DEF IsWeight
  <2>7. F(u)[d] = F(r)[d] + w[e]
    BY <1>a, <2>2, <2>3, <2>4, <2>6
  <2>8. ASSUME NEW c \in D \ {d}
        PROVE  F(u)[c] = F(r)[c]
    <3>1. F(u)[c] = W[Among(u, SegmentsWith(part, c))] /\ F(r)[c] = W[Among(r, SegmentsWith(part, c))]
      BY <1>a, <2>2
    <3>2. QED
      BY <2>5, <3>1
  <2>9. \A c \in D : F(r)[c] \in Nat
    BY <1>a
  <2>10. SumFunctionOnSet(F(u), D) = SumFunctionOnSet(F(r), D) + w[e]
    <3>1. PICK g, h, c : g = F(u) /\ h = F(r) /\ c = w[e]
      OBVIOUS
    <3>2. c \in Nat /\ g[d] = h[d] + c
      BY <2>6, <2>7, <3>1
    <3>3. (\A x \in D \ {d} : g[x] = h[x]) /\ \A x \in D : h[x] \in Nat
      BY <2>8, <2>9, <3>1
    <3>4. SumFunctionOnSet(g, D) = SumFunctionOnSet(h, D) + c
      BY <3>2, <3>3, SumGrows
    <3>5. QED
      BY <3>1, <3>4
  <2>11. W[u] = W[r] + w[e]
    BY <2>2 DEF IsWeight
  <2>12. QED
    BY <1>2, <2>2, <2>10, <2>11
<1> HIDE DEF P
<1>3. Seq(RealSegments) \subseteq P
  BY <1>1, <1>2, SeqSetInduction
<1>4. SumFunctionOnSet(F(s), D) = W[s]
  BY <1>3 DEF P
<1>5. f = F(s) /\ DOMAIN f = D
  BY DEF F
<1>6. QED
  BY <1>4, <1>5 DEF SumFunction

(* Segments, blocks and bytes. *)
LEMMA SegmentWeights ==
    ASSUME NEW W, NEW s \in Seq(RealSegments)
    PROVE  /\ Len(s) \in Nat /\ FlattenSeq(s) \in Seq(Block)
           /\ Len(FlattenSeq(s)) \in Nat /\ BytesOf(FlattenSeq(s)) \in Nat
           /\ \A e \in RealSegments :
                 /\ Len(Append(s, e)) = Len(s) + 1
                 /\ Len(FlattenSeq(Append(s, e))) = Len(FlattenSeq(s)) + Len(e)
                 /\ BytesOf(FlattenSeq(Append(s, e))) = BytesOf(FlattenSeq(s)) + BytesOf(e)
<1>1. s \in Seq(Seq(Block))
  <2>1. Len(s) \in Nat /\ s = [i \in 1..Len(s) |-> s[i]] /\ \A n \in 1..Len(s) : s[n] \in RealSegments
    BY LenProperties, ElementOfSeq
  <2>2. \A n \in 1..Len(s) : s[n] \in Seq(Block)
    BY <2>1 DEF RealSegments
  <2>3. QED
    BY <2>1, <2>2, FunctionIsSeq
<1>2. PICK t : t = FlattenSeq(s) /\ t \in Seq(Block)
  BY <1>1, FlattenType
<1>3. Len(s) \in Nat /\ Len(t) \in Nat /\ BytesOf(t) \in Nat
  BY <1>2, LenProperties, BytesType
<1>4. ASSUME NEW e \in RealSegments
      PROVE  /\ Len(Append(s, e)) = Len(s) + 1
             /\ Len(FlattenSeq(Append(s, e))) = Len(t) + Len(e)
             /\ BytesOf(FlattenSeq(Append(s, e))) = BytesOf(t) + BytesOf(e)
  <2>1. e \in Seq(Block)
    BY DEF RealSegments
  <2>2. FlattenSeq(Append(s, e)) = t \o e
    BY <1>1, <1>2, <2>1, FlattenAppend
  <2>3. QED
    BY <1>2, <2>1, <2>2, ConcatProperties, BytesConcat, AppendProperties
<1>5. QED
  BY <1>2, <1>3, <1>4

LEMMA AreWeights ==
    /\ IsWeight([s \in Seq(RealSegments) |-> Len(s)], [e \in RealSegments |-> 1])
    /\ IsWeight([s \in Seq(RealSegments) |-> Len(FlattenSeq(s))], [e \in RealSegments |-> Len(e)])
    /\ IsWeight([s \in Seq(RealSegments) |-> BytesOf(FlattenSeq(s))], [e \in RealSegments |-> BytesOf(e)])
<1>1. PICK z : z = << >> /\ z \in Seq(RealSegments) /\ Len(z) = 0
  BY EmptySeq
<1>2. FlattenSeq(z) = z /\ BytesOf(z) = 0
  BY <1>1, FlattenEmpty, BytesOfEmpty
<1>3. \A s \in Seq(RealSegments) : \A e \in RealSegments : Append(s, e) \in Seq(RealSegments)
  BY AppendProperties
<1>4. \A e \in RealSegments : Len(e) \in Nat /\ BytesOf(e) \in Nat
  BY LenProperties, BytesType DEF RealSegments
<1>5. IsWeight([s \in Seq(RealSegments) |-> Len(s)], [e \in RealSegments |-> 1])
  BY <1>1, <1>3, SegmentWeights DEF IsWeight
<1>6. IsWeight([s \in Seq(RealSegments) |-> Len(FlattenSeq(s))], [e \in RealSegments |-> Len(e)])
  BY <1>1, <1>2, <1>3, <1>4, SegmentWeights DEF IsWeight
<1>7. IsWeight([s \in Seq(RealSegments) |-> BytesOf(FlattenSeq(s))], [e \in RealSegments |-> BytesOf(e)])
  BY <1>1, <1>2, <1>3, <1>4, SegmentWeights DEF IsWeight
<1>8. QED
  BY <1>5, <1>6, <1>7

(* A bin has the blocks of its segments, each once. *)
Bins == [num_segments_ : Nat, num_blocks_ : Nat, size_ : Nat, dedup_size_ : Nat,
         blocks : SUBSET Block]

BinHas(bin, s) ==
    /\ bin \in Bins
    /\ bin.blocks = Range(FlattenSeq(s))
    /\ bin.dedup_size_ = SumFunctionOnSet(Size, bin.blocks)

LEMMA SizesSum ==
    ASSUME NEW A \in SUBSET Block, IsFiniteSet(A)
    PROVE  IsMeasure([S \in SUBSET A |-> SumFunctionOnSet(Size, S)], Size, A)
<1>1. \A x \in A : Size[x] \in Nat
  BY TraceAssumption
<1>2. PICK M : M = [S \in SUBSET A |-> SumFunctionOnSet(Size, S)]
  OBVIOUS
<1>3. IsMeasure(M, Size, A)
  BY <1>1, <1>2, SumMeasure
<1>4. QED
  BY <1>2, <1>3

LEMMA NewBinHas == BinHas(NewBin, << >>)
<1>1. NewBin \in Bins
  BY DEF NewBin, Bins
<1>2. NewBin.blocks = {} /\ NewBin.dedup_size_ = 0
  BY DEF NewBin
<1>3. QED
  BY <1>1, <1>2, FlattenEmpty, EmptyRange, SumEmpty DEF BinHas

LEMMA AddSegmentHas ==
    ASSUME NEW s \in Seq(Blocks), NEW e \in Seq(Block), NEW bin, BinHas(bin, s)
    PROVE  BinHas(AddSegment(bin, e), Append(s, e))
<1>1. PICK t : t = FlattenSeq(s) /\ t \in Seq(Block)
  BY FlattenType DEF Blocks
<1>2. FlattenSeq(Append(s, e)) = t \o e
  BY <1>1, FlattenAppend DEF Blocks
<1>3. Range(t \o e) = Range(t) \cup Range(e)
  BY <1>1, RangeConcat
<1>4. PICK R, T : R = Range(t) /\ T = Range(e)
  OBVIOUS
<1>5. IsFiniteSet(R) /\ IsFiniteSet(T) /\ R \in SUBSET Block /\ T \in SUBSET Block
  BY <1>1, <1>4, RangeFinite, RangeInBlock
<1>6. PICK N : N = T \ R
  OBVIOUS
<1>7. PICK A : A = R \cup T /\ IsFiniteSet(A) /\ A \in SUBSET Block
  BY <1>5, FS_Union
<1>8. PICK M : M = [S \in SUBSET A |-> SumFunctionOnSet(Size, S)] /\ IsMeasure(M, Size, A)
  BY <1>7, SizesSum
<1>9. R \in SUBSET A /\ N \in SUBSET (A \ R) /\ R \cup N = A /\ N \in SUBSET A /\ A \in SUBSET A
  BY <1>6, <1>7
<1>10. M[R \cup N] = M[R] + M[N]
  BY <1>8, <1>9, MeasureUnion
<1>11. SumFunctionOnSet(Size, A) = SumFunctionOnSet(Size, R) + SumFunctionOnSet(Size, N)
  BY <1>8, <1>9, <1>10
<1>12. SumFunctionOnSet(Size, N) \in Nat
  <2>1. M[N] \in Nat
    BY <1>8, <1>9 DEF IsMeasure
  <2>2. QED
    BY <1>8, <1>9, <2>1
<1>13. bin \in Bins /\ bin.blocks = R /\ bin.dedup_size_ = SumFunctionOnSet(Size, R)
  BY <1>1, <1>4 DEF BinHas
<1>14. Len(e) \in Nat /\ BytesOf(e) \in Nat
  BY LenProperties, BytesType
<1>15. PICK k \in Nat, l \in Nat, z \in Nat : k = Len(e) /\ l = BytesOf(e) /\ z = SumFunctionOnSet(Size, N)
  BY <1>12, <1>14
<1>16. AddSegment(bin, e) = [bin EXCEPT !.num_segments_ = @ + 1, !.num_blocks_ = @ + k,
                                        !.size_ = @ + l, !.dedup_size_ = @ + z, !.blocks = A]
  <2>1. Range(e) \ bin.blocks = N /\ bin.blocks \cup Range(e) = A
    BY <1>4, <1>6, <1>7, <1>13
  <2>2. QED
    BY <1>13, <1>15, <2>1 DEF AddSegment, Bins
<1>17. PICK q : q = AddSegment(bin, e)
  OBVIOUS
<1>18. q \in Bins /\ q.blocks = A /\ q.dedup_size_ = bin.dedup_size_ + z
  <2>1. PICK a \in Nat, b \in Nat, c \in Nat, d \in Nat :
            bin = [num_segments_ |-> a, num_blocks_ |-> b, size_ |-> c, dedup_size_ |-> d, blocks |-> R]
    BY <1>13 DEF Bins
  <2>2. q = [num_segments_ |-> a + 1, num_blocks_ |-> b + k, size_ |-> c + l, dedup_size_ |-> d + z,
             blocks |-> A]
    BY <1>16, <1>17, <2>1
  <2>3. a + 1 \in Nat /\ b + k \in Nat /\ c + l \in Nat /\ d + z \in Nat
    BY <1>15
  <2>4. QED
    BY <1>7, <2>1, <2>2, <2>3 DEF Bins
<1>19. q.dedup_size_ = SumFunctionOnSet(Size, A)
  BY <1>11, <1>13, <1>15, <1>18
<1>20. Range(FlattenSeq(Append(s, e))) = A
  BY <1>2, <1>3, <1>4, <1>7
<1>21. QED
  BY <1>17, <1>18, <1>19, <1>20 DEF BinHas

LEMMA BinOfHas ==
    ASSUME NEW segs \in Seq(Blocks)
    PROVE  BinHas(BinOf(segs), segs)
<1> DEFINE step == [p \in Bins \X (1..Len(segs)) |-> AddSegment(p[1], segs[p[2]])]
           Adds(f) == f = [n \in 0..Len(segs) |->
                              IF n = 0 THEN NewBin ELSE AddSegment(f[n - 1], segs[n])]
<1>0. Len(segs) \in Nat /\ \A n \in 1..Len(segs) : segs[n] \in Seq(Block)
  BY LenProperties, ElementOfSeq DEF Blocks
<1>1. PICK e : e = << >> /\ e \in Seq(Blocks) /\ e \o segs = segs
  BY EmptySeq, ConcatEmptySeq
<1>a. PICK t : AreOneByOne(t, e, segs)
  BY DEF AreOneByOne
<1>2. /\ t[0] = e /\ t[Len(segs)] = segs
      /\ \A n \in 1..Len(segs) : t[n - 1] \in Seq(Blocks) /\ t[n] = Append(t[n - 1], segs[n])
  <2>1. PICK T : T = Blocks
    OBVIOUS
  <2>2. e \in Seq(T) /\ segs \in Seq(T)
    BY <1>1, <2>1
  <2>3. t[0] = e /\ t[Len(segs)] = e \o segs
    BY <1>a, <2>2, OneByOne
  <2>4. \A n \in 1..Len(segs) : t[n - 1] \in Seq(T) /\ t[n] = Append(t[n - 1], segs[n])
    BY <1>a, <2>2, OneByOne
  <2>5. QED
    BY <1>1, <2>1, <2>3, <2>4
<1>3. PICK X : X = [n \in 0..Len(segs) |-> {x \in Bins : BinHas(x, t[n])}]
  OBVIOUS
<1>4. \A n \in 0..Len(segs) : \A x : x \in X[n] <=> BinHas(x, t[n])
  BY <1>3 DEF BinHas
<1>5. NewBin \in X[0]
  BY <1>0, <1>1, <1>2, <1>4, NewBinHas
<1>6. ASSUME NEW n \in 1..Len(segs), NEW x \in X[n - 1]
      PROVE  /\ step[<<x, n>>] = AddSegment(x, segs[n])
             /\ step[<<x, n>>] \in X[n]
  <2>1. n - 1 \in 0..Len(segs) /\ n \in 0..Len(segs)
    BY <1>0
  <2>2. BinHas(x, t[n - 1])
    BY <1>4, <1>6, <2>1
  <2>3. x \in Bins
    BY <2>2 DEF BinHas
  <2>4. step[<<x, n>>] = AddSegment(x, segs[n])
    BY <2>3
  <2>5. PICK u, w : u = t[n - 1] /\ w = segs[n]
    OBVIOUS
  <2>6. u \in Seq(Blocks) /\ w \in Seq(Block) /\ BinHas(x, u) /\ t[n] = Append(u, w)
    BY <1>0, <1>2, <2>2, <2>5
  <2>7. BinHas(AddSegment(x, w), Append(u, w))
    BY <2>6, AddSegmentHas
  <2> HIDE DEF step
  <2>8. QED
    BY <1>4, <2>1, <2>4, <2>5, <2>6, <2>7
<1> HIDE DEF step
<1>7. Leads(step, X, Len(segs))
  BY <1>6 DEF Leads
<1>8. PICK f : AreRun(f, X, NewBin, Len(segs), step)
  BY <1>0, <1>5, <1>7, RunExists
<1>b. f = [n \in 0..Len(segs) |-> f[n]] /\ f[0] = NewBin
  BY <1>8 DEF AreRun
<1>9. /\ \A n \in 0..Len(segs) : f[n] \in X[n]
      /\ \A n \in 1..Len(segs) : f[n] = step[<<f[n - 1], n>>]
  BY <1>8 DEF AreRun
<1>10. \A n \in 1..Len(segs) : f[n] = AddSegment(f[n - 1], segs[n])
  <2>1. \A n \in 1..Len(segs) : n - 1 \in 0..Len(segs)
    BY <1>0
  <2>2. QED
    BY <1>6, <1>9, <2>1
<1>11. Adds(f)
  <2>1. \A n \in 0..Len(segs) :
            f[n] = IF n = 0 THEN NewBin ELSE AddSegment(f[n - 1], segs[n])
    <3>1. \A n \in 0..Len(segs) : n # 0 => n \in 1..Len(segs)
      BY <1>0
    <3>2. QED
      BY <1>b, <1>10, <3>1
  <2>2. QED
    BY <1>b, <2>1
<1>12. PICK g : Adds(g) /\ BinOf(segs) = g[Len(segs)]
  <2>1. BinOf(segs) = (CHOOSE g : Adds(g))[Len(segs)]
    BY DEF BinOf
  <2> HIDE DEF Adds
  <2>2. QED
    BY <1>11, <2>1
<1>13. g[0] = NewBin /\ \A n \in 1..Len(segs) : g[n] = AddSegment(g[n - 1], segs[n])
  <2>1. g = [n \in 0..Len(segs) |-> IF n = 0 THEN NewBin ELSE AddSegment(g[n - 1], segs[n])]
    BY <1>12
  <2>2. 0 \in 0..Len(segs) /\ \A n \in 1..Len(segs) : n \in 0..Len(segs) /\ n # 0
    BY <1>0
  <2>3. g[0] = NewBin
    BY <2>1, <2>2
  <2>4. ASSUME NEW n \in 1..Len(segs)
        PROVE  g[n] = AddSegment(g[n - 1], segs[n])
    BY <2>1, <2>2
  <2>5. QED
    BY <2>3, <2>4
<1> HIDE DEF Adds
<1>14. Follows(g, X, Len(segs), step) /\ g[0] \in X[0]
  BY <1>5, <1>6, <1>13 DEF Follows
<1>15. \A n \in 0..Len(segs) : g[n] \in X[n]
  BY <1>0, <1>7, <1>14, RunStays
<1>16. g[Len(segs)] \in X[Len(segs)] /\ Len(segs) \in 0..Len(segs)
  BY <1>0, <1>15
<1>17. QED
  BY <1>2, <1>4, <1>12, <1>16

-----------------------------------------------------------------------------
(* Where segments and blocks go. *)
Parts == 0..(BIN_PARTITIONS - 1)

PartOfSegment(below) == [x \in RealSegments |-> MinHash(x, below) % BIN_PARTITIONS]

LEMMA PartsType ==
    /\ IsFiniteSet(Parts)
    /\ \A b \in Block : b % BIN_PARTITIONS \in Parts
<1>1. BIN_PARTITIONS \in Nat \ {0}
  BY BinningAssumption
<1>2. IsFiniteSet(Parts)
  <2>1. 0 \in Int /\ BIN_PARTITIONS - 1 \in Int
    BY <1>1
  <2>2. QED
    BY <2>1, FS_Interval DEF Parts
<1>3. \A x \in Nat, y \in Nat \ {0} : x % y \in 0..(y - 1)
  OBVIOUS
<1>4. QED
  BY <1>1, <1>2, <1>3, TraceAssumption DEF Parts

LEMMA MinHashIn ==
    ASSUME NEW seg \in RealSegments, NEW below
    PROVE  /\ MinHash(seg, below) \in Range(seg)
           /\ MinHash(seg, below) \in Block
           /\ PartOfSegment(below)[seg] = MinHash(seg, below) % BIN_PARTITIONS
           /\ PartOfSegment(below)[seg] \in Parts
<1>1. seg \in Seq(Block) /\ seg # << >>
  BY DEF RealSegments
<1>2. Len(seg) \in Nat /\ Len(seg) # 0 /\ DOMAIN seg = 1..Len(seg)
  BY <1>1, EmptySeq, LenProperties
<1>3. MinIdx(seg, below) \in DOMAIN seg
  BY <1>2 DEF MinIdx
<1>4. MinHash(seg, below) \in Range(seg)
  BY <1>3 DEF MinHash, Range
<1>5. MinHash(seg, below) \in Block
  BY <1>1, <1>4, RangeInBlock
<1>6. PartOfSegment(below)[seg] = MinHash(seg, below) % BIN_PARTITIONS
  BY DEF PartOfSegment
<1>7. QED
  BY <1>4, <1>5, <1>6, PartsType

LEMMA SegmentsOfType ==
    ASSUME NEW traces \in Seq(Blocks)
    PROVE  SegmentsOf(traces) \in Seq(RealSegments)
<1>1. Len(traces) \in Nat /\ DOMAIN traces = 1..Len(traces) /\ \A n \in 1..Len(traces) : traces[n] \in Blocks
  BY LenProperties, ElementOfSeq
<1>2. \A t \in Blocks : Segments(t) \in Seq(RealSegments)
  <2>1. ASSUME NEW t \in Blocks
        PROVE  Segments(t) \in Seq(RealSegments)
    <3>1. PICK s : s = Segments(t)
      OBVIOUS
    <3>2. s \in Seq(Blocks) /\ Len(s) \in Nat /\ \A n \in 1..Len(s) : s[n] \in Blocks /\ s[n] # << >>
      BY <3>1, SegmentsType
    <3>3. s = [n \in 1..Len(s) |-> s[n]]
      BY <3>2, LenProperties
    <3>4. \A n \in 1..Len(s) : s[n] \in RealSegments
      BY <3>2 DEF RealSegments, Blocks
    <3>5. QED
      BY <3>1, <3>2, <3>3, <3>4, FunctionIsSeq
  <2>2. QED
    BY <2>1
<1>3. PICK f : f = [n \in 1..Len(traces) |-> Segments(traces[n])]
  OBVIOUS
<1>4. \A n \in 1..Len(traces) : f[n] \in Seq(RealSegments)
  BY <1>1, <1>2, <1>3
<1>5. f \in Seq(Seq(RealSegments))
  BY <1>1, <1>3, <1>4, FunctionIsSeq
<1>6. SegmentsOf(traces) = FlattenSeq(f)
  BY <1>1, <1>3 DEF SegmentsOf, BinningSegments
<1>7. QED
  BY <1>5, <1>6, FlattenType

LEMMA RealSeq ==
    ASSUME NEW s \in Seq(RealSegments)
    PROVE  /\ s \in Seq(Blocks) /\ FlattenSeq(s) \in Seq(Block)
           /\ Range(s) \subseteq RealSegments /\ Len(s) \in Nat /\ DOMAIN s = 1..Len(s)
<1>1. Len(s) \in Nat /\ DOMAIN s = 1..Len(s) /\ s = [n \in 1..Len(s) |-> s[n]]
      /\ \A n \in 1..Len(s) : s[n] \in RealSegments
  BY LenProperties, ElementOfSeq
<1>2. \A n \in 1..Len(s) : s[n] \in Blocks
  BY <1>1 DEF RealSegments, Blocks
<1>3. s \in Seq(Blocks)
  BY <1>1, <1>2, FunctionIsSeq
<1>4. FlattenSeq(s) \in Seq(Block)
  BY <1>3, FlattenType DEF Blocks
<1>5. Range(s) \subseteq RealSegments
  BY <1>1 DEF Range
<1>6. QED
  BY <1>1, <1>3, <1>4, <1>5

(* The segments of a partition. *)
LEMMA OfPartitionIs ==
    ASSUME NEW traces, NEW all, all = SegmentsOf(traces), all \in Seq(RealSegments), NEW below, NEW p
    PROVE  OfPartition(traces, p, below) = Among(all, SegmentsWith(PartOfSegment(below), p))
<1>1. Range(all) \subseteq RealSegments
  BY RealSeq
<1>2. PICK S : S = {seg \in Range(all) : InPart(MinHash(seg, below), p)}
  OBVIOUS
<1>3. PICK T : T = SegmentsWith(PartOfSegment(below), p)
  OBVIOUS
<1>4. \A seg \in Range(all) : seg \in S <=> seg \in T
  BY <1>1, <1>2, <1>3, MinHashIn DEF SegmentsWith, InPart
<1>5. Range(all) \cap S = Range(all) \cap T
  BY <1>4
<1>6. Among(all, S) = Among(all, T)
  BY <1>5, AmongSameIn
<1>7. QED
  BY <1>2, <1>3, <1>6 DEF OfPartition

PartsWeigh(f, W, traces, below) == f = [p \in Parts |-> W[OfPartition(traces, p, below)]]

LEMMA PartitionsWeigh ==
    ASSUME NEW W, NEW w, IsWeight(W, w),
           NEW traces, NEW all, all = SegmentsOf(traces), all \in Seq(RealSegments), NEW below,
           NEW f, PartsWeigh(f, W, traces, below)
    PROVE  SumFunction(f) = W[all]
<1>1. PICK part : part = PartOfSegment(below)
  OBVIOUS
<1>2. \A x \in RealSegments : part[x] \in Parts
  BY <1>1, MinHashIn
<1>3. \A p : OfPartition(traces, p, below) = Among(all, SegmentsWith(part, p))
  BY <1>1, OfPartitionIs
<1>4. f = [p \in Parts |-> W[Among(all, SegmentsWith(part, p))]]
  BY <1>3 DEF PartsWeigh
<1>5. QED
  BY <1>2, <1>4, PartsType, WeightParts

(* What is loaded is in one partition or another, whatever the stack. *)
LEMMA TotalsRight ==
    ASSUME NEW traces, NEW all, all = SegmentsOf(traces), all \in Seq(RealSegments), NEW below
    PROVE  /\ Summary(traces, below).total_segments = Len(all)
           /\ Summary(traces, below).total_blocks = Len(FlattenSeq(all))
           /\ Summary(traces, below).total_size = BytesOf(FlattenSeq(all))
<1>1. \A p : OfPartition(traces, p, below) \in Seq(RealSegments)
  BY OfPartitionIs, AmongTypeIn
<1>2. PICK W, w : W = [s \in Seq(RealSegments) |-> Len(s)] /\ IsWeight(W, w)
  BY AreWeights
<1>3. PICK V, v : V = [s \in Seq(RealSegments) |-> Len(FlattenSeq(s))] /\ IsWeight(V, v)
  BY AreWeights
<1>4. PICK Z, z : Z = [s \in Seq(RealSegments) |-> BytesOf(FlattenSeq(s))] /\ IsWeight(Z, z)
  BY AreWeights
<1>5. PICK f : f = [p \in Parts |-> Len(OfPartition(traces, p, below))]
  OBVIOUS
<1>6. PICK g : g = [p \in Parts |-> Len(FlattenSeq(OfPartition(traces, p, below)))]
  OBVIOUS
<1>7. PICK h : h = [p \in Parts |-> BytesOf(FlattenSeq(OfPartition(traces, p, below)))]
  OBVIOUS
<1>8. SumFunction(f) = Len(all)
  <2>1. PartsWeigh(f, W, traces, below)
    BY <1>1, <1>2, <1>5 DEF PartsWeigh
  <2>2. SumFunction(f) = W[all]
    BY <1>2, <2>1, PartitionsWeigh
  <2>3. QED
    BY <1>2, <2>2
<1>9. SumFunction(g) = Len(FlattenSeq(all))
  <2>1. PartsWeigh(g, V, traces, below)
    BY <1>1, <1>3, <1>6 DEF PartsWeigh
  <2>2. SumFunction(g) = V[all]
    BY <1>3, <2>1, PartitionsWeigh
  <2>3. QED
    BY <1>3, <2>2
<1>10. SumFunction(h) = BytesOf(FlattenSeq(all))
  <2>1. PartsWeigh(h, Z, traces, below)
    BY <1>1, <1>4, <1>7 DEF PartsWeigh
  <2>2. SumFunction(h) = Z[all]
    BY <1>4, <2>1, PartitionsWeigh
  <2>3. QED
    BY <1>4, <2>2
<1>11. Summary(traces, below).total_segments = SumFunction(f)
  BY <1>5 DEF Summary, OverPartitions, Parts
<1>12. Summary(traces, below).total_blocks = SumFunction(g)
  BY <1>6 DEF Summary, OverPartitions, Parts
<1>13. Summary(traces, below).total_size = SumFunction(h)
  BY <1>7 DEF Summary, OverPartitions, Parts
<1>14. QED
  BY <1>8, <1>9, <1>10, <1>11, <1>12, <1>13

-----------------------------------------------------------------------------
(***************************************************************************)
(* The blocks of bins: pairs of the hash of a segment and a block of it.   *)
(***************************************************************************)
Left(all, below) ==
    UNION {{<<MinHash(seg, below), b>> : b \in Range(seg)} : seg \in Range(all)}

BlocksIn(all) == Range(FlattenSeq(all))

InLeft(all, below, h, b) == \E seg \in Range(all) : MinHash(seg, below) = h /\ b \in Range(seg)

LEMMA LeftIs ==
    ASSUME NEW all, NEW below
    PROVE  /\ \A h, b : <<h, b>> \in Left(all, below) <=> InLeft(all, below, h, b)
           /\ \A x \in Left(all, below) : x = <<x[1], x[2]>>
BY DEF Left, InLeft

LEMMA BlocksInIs ==
    ASSUME NEW all \in Seq(RealSegments)
    PROVE  /\ BlocksIn(all) \in SUBSET Block
           /\ IsFiniteSet(BlocksIn(all))
           /\ \A seg \in Range(all) : Range(seg) \subseteq BlocksIn(all)
           /\ \A b \in BlocksIn(all) : \E seg \in Range(all) : b \in Range(seg)
<1>1. FlattenSeq(all) \in Seq(Block) /\ all \in Seq(Blocks)
  BY RealSeq
<1>2. BlocksIn(all) \in SUBSET Block /\ IsFiniteSet(BlocksIn(all))
  BY <1>1, RangeFinite, RangeInBlock DEF BlocksIn
<1>3. BlocksIn(all) = UNION {Range(x) : x \in Range(all)}
  BY <1>1, FlattenUnion DEF BlocksIn
<1>4. QED
  BY <1>2, <1>3

LEMMA LeftType ==
    ASSUME NEW all \in Seq(RealSegments), NEW below
    PROVE  /\ Left(all, below) \subseteq BlocksIn(all) \X BlocksIn(all)
           /\ IsFiniteSet(Left(all, below))
<1>1. \A seg \in Range(all) : seg \in RealSegments
  BY RealSeq
<1>2. ASSUME NEW h, NEW b, InLeft(all, below, h, b)
      PROVE  h \in BlocksIn(all) /\ b \in BlocksIn(all)
  BY <1>1, <1>2, MinHashIn, BlocksInIs DEF InLeft
<1>3. Left(all, below) \subseteq BlocksIn(all) \X BlocksIn(all)
  BY <1>2, LeftIs
<1>4. IsFiniteSet(BlocksIn(all) \X BlocksIn(all))
  BY BlocksInIs, FS_Product
<1>5. QED
  BY <1>3, <1>4, FS_Subset

(* The pairs of a hash, and the hashes of a partition. *)
HashOfPair(left) == [x \in left |-> x[1]]

PartOfPair(left) == [x \in left |-> x[1] % BIN_PARTITIONS]

HashesOf(left) == {x[1] : x \in left}

HashesIn(left, p) == {h \in HashesOf(left) : h % BIN_PARTITIONS = p}

BlocksAt(left, h) == {b \in Block : <<h, b>> \in left}

LEMMA HashesAre ==
    ASSUME NEW all \in Seq(RealSegments), NEW below
    PROVE  /\ \A h : h \in HashesOf(Left(all, below)) <=> \E seg \in Range(all) : MinHash(seg, below) = h
           /\ HashesOf(Left(all, below)) \in SUBSET BlocksIn(all)
           /\ IsFiniteSet(HashesOf(Left(all, below)))
<1>1. \A seg \in Range(all) : seg \in RealSegments
  BY RealSeq
<1>2. PICK left : left = Left(all, below)
  OBVIOUS
<1>3. ASSUME NEW h \in HashesOf(left)
      PROVE  \E seg \in Range(all) : MinHash(seg, below) = h
  <2>1. PICK x \in left : x[1] = h
    BY DEF HashesOf
  <2>2. <<h, x[2]>> \in left
    BY <1>2, <2>1, LeftIs
  <2>3. QED
    BY <1>2, <2>2, LeftIs DEF InLeft
<1>4. ASSUME NEW seg \in Range(all)
      PROVE  MinHash(seg, below) \in HashesOf(left)
  <2>1. PICK h : h = MinHash(seg, below) /\ h \in Range(seg)
    BY <1>1, MinHashIn
  <2>2. <<h, h>> \in left
    BY <1>2, <2>1, LeftIs DEF InLeft
  <2>3. QED
    BY <2>1, <2>2 DEF HashesOf
<1>5. HashesOf(left) \in SUBSET BlocksIn(all)
  BY <1>2, LeftType DEF HashesOf
<1>6. IsFiniteSet(HashesOf(left))
  BY <1>5, BlocksInIs, FS_Subset
<1>7. QED
  BY <1>2, <1>3, <1>4, <1>5, <1>6

(* The bins of a partition are its hashes, and a bin has the blocks that are left there. *)
LEMMA BinMapIs ==
    ASSUME NEW traces, NEW all, all = SegmentsOf(traces), all \in Seq(RealSegments),
           NEW below, NEW p \in Parts, NEW left, left = Left(all, below)
    PROVE  /\ DOMAIN BinMap(traces, p, below) = HashesIn(left, p)
           /\ \A h \in HashesIn(left, p) :
                 /\ BinMap(traces, p, below)[h].blocks = BlocksAt(left, h)
                 /\ BinMap(traces, p, below)[h].dedup_size_ = SumFunctionOnSet(Size, BlocksAt(left, h))
<1>1. PICK segs : segs = OfPartition(traces, p, below)
  OBVIOUS
<1>2. /\ segs \in Seq(RealSegments)
      /\ Range(segs) = Range(all) \cap SegmentsWith(PartOfSegment(below), p)
  BY <1>1, OfPartitionIs, AmongTypeIn
<1>3. Range(all) \subseteq RealSegments
  BY RealSeq
<1>4. \A seg : seg \in Range(segs) <=> seg \in Range(all) /\ MinHash(seg, below) % BIN_PARTITIONS = p
  BY <1>2, <1>3, MinHashIn DEF SegmentsWith
<1>5. {MinHash(seg, below) : seg \in Range(segs)} = HashesIn(left, p)
  <2>1. \A h : h \in HashesOf(left) <=> \E seg \in Range(all) : MinHash(seg, below) = h
    BY HashesAre
  <2>2. QED
    BY <1>4, <2>1 DEF HashesIn
<1>6. BinMap(traces, p, below) =
          [h \in HashesIn(left, p) |->
              BinOf(Among(segs, {seg \in Range(segs) : MinHash(seg, below) = h}))]
  BY <1>1, <1>5 DEF BinMap
<1>7. ASSUME NEW h \in HashesIn(left, p)
      PROVE  /\ BinMap(traces, p, below)[h].blocks = BlocksAt(left, h)
             /\ BinMap(traces, p, below)[h].dedup_size_ = SumFunctionOnSet(Size, BlocksAt(left, h))
  <2>1. PICK S : S = {seg \in Range(segs) : MinHash(seg, below) = h}
    OBVIOUS
  <2>2. PICK r : r = Among(segs, S)
    OBVIOUS
  <2>3. r \in Seq(RealSegments) /\ Range(r) = S
    BY <1>2, <2>1, <2>2, AmongTypeIn
  <2>4. BinMap(traces, p, below)[h] = BinOf(r)
    BY <1>6, <2>1, <2>2
  <2>5. BinHas(BinOf(r), r) /\ Range(FlattenSeq(r)) \in SUBSET Block
    BY <2>3, BinOfHas, RealSeq, RangeInBlock
  <2>6. Range(FlattenSeq(r)) = UNION {Range(x) : x \in S}
    BY <2>3, FlattenUnion, RealSeq
  <2>7. h % BIN_PARTITIONS = p
    BY DEF HashesIn
  <2>8. \A b : b \in Range(FlattenSeq(r)) <=> InLeft(all, below, h, b)
    BY <1>4, <2>1, <2>6, <2>7 DEF InLeft
  <2>9. \A b : b \in Range(FlattenSeq(r)) <=> <<h, b>> \in left
    BY <2>8, LeftIs
  <2>10. Range(FlattenSeq(r)) = BlocksAt(left, h)
    BY <2>5, <2>9 DEF BlocksAt
  <2>11. QED
    BY <2>4, <2>5, <2>10 DEF BinHas
<1>8. QED
  BY <1>6, <1>7

(* The pairs of a hash are as many, and as large, as the blocks that are left there. *)
PairsOf(h, B) == {<<h, b>> : b \in B}

LEMMA MeasurePairs ==
    ASSUME NEW A, NEW M, NEW m, IsMeasure(M, m, A),
           NEW B, NEW W, NEW w, IsMeasure(W, w, B),
           NEW h, \A b \in B : <<h, b>> \in A /\ m[<<h, b>>] = w[b],
           NEW Q, Q = PairsOf(h, B)
    PROVE  M[Q] = W[B]
<1> DEFINE Pairs(S) == {<<h, b>> : b \in S}
           P == {S \in SUBSET B : M[Pairs(S)] = W[S]}
<1>0. IsFiniteSet(B) /\ M[{}] = 0 /\ W[{}] = 0
  BY DEF IsMeasure
<1>1. {} \in P
  BY <1>0
<1>2. ASSUME NEW S \in SUBSET B, NEW e \in B \ S, S \in P
      PROVE  S \cup {e} \in P
  <2>1. PICK q, x : q = Pairs(S) /\ x = <<h, e>>
    OBVIOUS
  <2>2. q \in SUBSET A /\ x \in A \ q /\ Pairs(S \cup {e}) = q \cup {x}
    BY <2>1
  <2>3. M[q \cup {x}] = M[q] + m[x]
    BY <2>2 DEF IsMeasure
  <2>4. W[S \cup {e}] = W[S] + w[e]
    BY DEF IsMeasure
  <2>5. M[q] = W[S] /\ m[x] = w[e]
    BY <1>2, <2>1
  <2>6. QED
    BY <2>2, <2>3, <2>4, <2>5
<1> HIDE DEF P
<1>3. SUBSET B \subseteq P
  BY <1>0, <1>1, <1>2, SetInduction
<1>4. QED
  BY <1>3 DEF P, PairsOf

LEMMA MeasureIn ==
    ASSUME NEW A, NEW M, NEW m, IsMeasure(M, m, A), NEW B \in SUBSET A
    PROVE  IsMeasure(M, m, B)
<1>1. IsFiniteSet(B)
  BY FS_Subset DEF IsMeasure
<1>2. M[{}] = 0
  BY DEF IsMeasure
<1>3. \A S \in SUBSET B : M[S] \in Nat
  BY DEF IsMeasure
<1>4. \A e \in B : m[e] \in Nat
  BY DEF IsMeasure
<1>5. \A S \in SUBSET B : \A e \in B \ S : M[S \cup {e}] = M[S] + m[e]
  BY DEF IsMeasure
<1>6. QED
  BY <1>1, <1>2, <1>3, <1>4, <1>5 DEF IsMeasure

(* What the bins of a partition have, and all the bins. *)
HasHashes(g, M, left, p) == g = [h \in HashesIn(left, p) |-> M[PartOf(left, HashOfPair(left), h)]]

LEMMA PartitionBins ==
    ASSUME NEW left, NEW M, NEW m, IsMeasure(M, m, left), IsFiniteSet(HashesOf(left)),
           NEW p, NEW g, HasHashes(g, M, left, p)
    PROVE  SumFunction(g) = M[PartOf(left, PartOfPair(left), p)]
<1>1. PICK A, D, part : /\ A = PartOf(left, PartOfPair(left), p)
                        /\ D = HashesIn(left, p) /\ part = HashOfPair(left)
  OBVIOUS
<1>2. A \in SUBSET left /\ IsFiniteSet(D)
  BY <1>1, FS_Subset DEF PartOf, HashesIn
<1>3. IsMeasure(M, m, A)
  BY <1>2, MeasureIn
<1>4. \A x \in left : part[x] = x[1] /\ PartOfPair(left)[x] = x[1] % BIN_PARTITIONS
  BY <1>1 DEF HashOfPair, PartOfPair
<1>5. \A x \in A : part[x] \in D
  BY <1>1, <1>4 DEF PartOf, HashesIn, HashesOf
<1>6. \A d \in D : PartOf(A, part, d) = PartOf(left, part, d)
  <2>1. ASSUME NEW d \in D, NEW x \in left, part[x] = d
        PROVE  x \in A
    BY <1>1, <1>4, <2>1 DEF PartOf, HashesIn
  <2>2. QED
    BY <1>2, <2>1 DEF PartOf
<1>7. PICK f : f = [d \in D |-> M[PartOf(A, part, d)]]
  OBVIOUS
<1>8. SumFunction(f) = M[A]
  BY <1>2, <1>3, <1>5, <1>7, MeasureParts
<1>9. g = f
  BY <1>1, <1>6, <1>7 DEF HasHashes
<1>10. QED
  BY <1>1, <1>8, <1>9

LEMMA AllBins ==
    ASSUME NEW left, NEW M, NEW m, IsMeasure(M, m, left), IsFiniteSet(HashesOf(left)),
           HashesOf(left) \in SUBSET Block,
           NEW f, f = [p \in Parts |-> f[p]],
           \A p \in Parts : \E g : HasHashes(g, M, left, p) /\ f[p] = SumFunction(g)
    PROVE  SumFunction(f) = M[left]
<1>1. \A p \in Parts : f[p] = M[PartOf(left, PartOfPair(left), p)]
  BY PartitionBins
<1>2. f = [p \in Parts |-> M[PartOf(left, PartOfPair(left), p)]]
  BY <1>1
<1>3. \A x \in left : PartOfPair(left)[x] \in Parts
  BY PartsType DEF PartOfPair, HashesOf
<1>4. QED
  BY <1>2, <1>3, PartsType, MeasureParts

(* No block of the partitions is missing in the bins. *)
LEMMA FewerBlocks ==
    ASSUME NEW all \in Seq(RealSegments), NEW below, NEW left, left = Left(all, below),
           NEW M, NEW m, IsMeasure(M, m, left),
           NEW B, B = BlocksIn(all), NEW W, NEW w, IsMeasure(W, w, B),
           \A x \in left : m[x] = w[x[2]]
    PROVE  W[B] <= M[left]
<1> DEFINE With(S) == {x \in left : x[2] \in S}
           P == {S \in SUBSET B : W[S] <= M[With(S)]}
<1>0. IsFiniteSet(B) /\ M[{}] = 0 /\ W[{}] = 0
  BY DEF IsMeasure
<1>1. {} \in P
  <2>1. With({}) = {}
    OBVIOUS
  <2> HIDE DEF With
  <2>2. M[With({})] = 0
    BY <1>0, <2>1
  <2>3. W[{}] <= M[With({})]
    BY <1>0, <2>2
  <2>4. QED
    BY <2>3
<1>2. ASSUME NEW S \in SUBSET B, NEW e \in B \ S, S \in P
      PROVE  S \cup {e} \in P
  <2>1. PICK seg \in Range(all) : e \in Range(seg)
    BY BlocksInIs
  <2>2. PICK x : x = <<MinHash(seg, below), e>>
    OBVIOUS
  <2>3. x \in left /\ x[2] = e
    BY <2>1, <2>2, LeftIs DEF InLeft
  <2>4. PICK q, r : q = With(S) /\ r = With(S \cup {e})
    OBVIOUS
  <2>5. q \in SUBSET left /\ r \in SUBSET left /\ x \in left \ q /\ q \cup {x} \in SUBSET r
    BY <2>3, <2>4
  <2>6. M[q \cup {x}] = M[q] + m[x]
    BY <2>5 DEF IsMeasure
  <2>7. M[q \cup {x}] <= M[r] /\ M[q \cup {x}] \in Nat /\ M[r] \in Nat
    BY <2>5, MeasureMonotone
  <2>8. W[S \cup {e}] = W[S] + w[e]
    BY DEF IsMeasure
  <2>9. W[S] \in Nat /\ w[e] \in Nat /\ M[q] \in Nat
    BY <2>5 DEF IsMeasure
  <2>10. W[S] <= M[q] /\ m[x] = w[e]
    BY <1>2, <2>3, <2>4
  <2>11. W[S \cup {e}] <= M[r]
    BY <2>6, <2>7, <2>8, <2>9, <2>10
  <2>12. QED
    BY <2>4, <2>11
<1> HIDE DEF P, With
<1>3. SUBSET B \subseteq P
  <2>1. PICK A, Q : A = B /\ Q = P
    OBVIOUS
  <2>2. IsFiniteSet(A) /\ {} \in Q
    BY <1>0, <1>1, <2>1
  <2>3. \A S \in SUBSET A : \A e \in A \ S : S \in Q => S \cup {e} \in Q
    BY <1>2, <2>1
  <2>4. SUBSET A \subseteq Q
    BY <2>2, <2>3, SetInduction
  <2>5. QED
    BY <2>1, <2>4
<1>a. With(B) \in SUBSET left
  BY DEF With
<1>4. W[B] <= M[With(B)] /\ With(B) \in SUBSET left
  BY <1>3, <1>a DEF P
<1>5. M[With(B)] <= M[left] /\ M[With(B)] \in Nat /\ M[left] \in Nat /\ W[B] \in Nat
  <2>1. PICK q : q = With(B)
    OBVIOUS
  <2>2. M[q] <= M[left] /\ M[q] \in Nat /\ M[left] \in Nat
    BY <1>4, <2>1, MeasureMonotone
  <2>3. W[B] \in Nat
    BY DEF IsMeasure
  <2>4. QED
    BY <2>1, <2>2, <2>3
<1>6. QED
  BY <1>4, <1>5

LEMMA BlocksAtIs ==
    ASSUME NEW all \in Seq(RealSegments), NEW below, NEW left, left = Left(all, below), NEW h
    PROVE  /\ BlocksAt(left, h) \in SUBSET BlocksIn(all)
           /\ IsFiniteSet(BlocksAt(left, h)) /\ BlocksAt(left, h) \in SUBSET Block
           /\ PartOf(left, HashOfPair(left), h) = PairsOf(h, BlocksAt(left, h))
<1>1. left \subseteq BlocksIn(all) \X BlocksIn(all) /\ \A x \in left : x = <<x[1], x[2]>>
  BY LeftType, LeftIs
<1>2. BlocksIn(all) \in SUBSET Block /\ IsFiniteSet(BlocksIn(all))
  BY BlocksInIs
<1>3. BlocksAt(left, h) \in SUBSET BlocksIn(all)
  BY <1>1 DEF BlocksAt
<1>4. IsFiniteSet(BlocksAt(left, h)) /\ BlocksAt(left, h) \in SUBSET Block
  BY <1>2, <1>3, FS_Subset
<1>5. \A x \in left : HashOfPair(left)[x] = x[1]
  BY DEF HashOfPair
<1>6. \A x \in PartOf(left, HashOfPair(left), h) : x \in {<<h, b>> : b \in BlocksAt(left, h)}
  <2>1. ASSUME NEW x \in left, x[1] = h
        PROVE  x \in {<<h, b>> : b \in BlocksAt(left, h)}
    <3>1. x = <<h, x[2]>> /\ x[2] \in Block
      BY <1>1, <1>2, <2>1
    <3>2. x[2] \in BlocksAt(left, h)
      BY <3>1 DEF BlocksAt
    <3>3. QED
      BY <3>1, <3>2
  <2>2. QED
    BY <1>5, <2>1 DEF PartOf
<1>7. \A b \in BlocksAt(left, h) : <<h, b>> \in PartOf(left, HashOfPair(left), h)
  <2>1. ASSUME NEW b \in BlocksAt(left, h)
        PROVE  <<h, b>> \in PartOf(left, HashOfPair(left), h)
    <3>1. PICK x : x = <<h, b>>
      OBVIOUS
    <3>2. x \in left /\ x[1] = h
      BY <3>1 DEF BlocksAt
    <3>3. QED
      BY <1>5, <3>1, <3>2 DEF PartOf
  <2>2. QED
    BY <2>1
<1>8. PICK S : S = {<<h, b>> : b \in BlocksAt(left, h)}
  OBVIOUS
<1>9. \A x \in S : x \in PartOf(left, HashOfPair(left), h)
  BY <1>7, <1>8
<1>10. PartOf(left, HashOfPair(left), h) = S
  BY <1>6, <1>8, <1>9
<1>11. QED
  BY <1>3, <1>4, <1>8, <1>10 DEF PairsOf

(* How many pairs there are, and how large their blocks are. *)
PairCount(left) == [S \in SUBSET left |-> Cardinality(S)]

SizeOfPair(left) == [x \in left |-> Size[x[2]]]

PairSize(left) == [S \in SUBSET left |-> SumFunctionOnSet(SizeOfPair(left), S)]

BlockCount(B) == [S \in SUBSET B |-> Cardinality(S)]

BlockSize(B) == [S \in SUBSET B |-> SumFunctionOnSet(Size, S)]

LEMMA PairMeasures ==
    ASSUME NEW all \in Seq(RealSegments), NEW below, NEW left, left = Left(all, below)
    PROVE  /\ IsMeasure(PairCount(left), [x \in left |-> 1], left)
           /\ IsMeasure(PairSize(left), SizeOfPair(left), left)
           /\ \A x \in left : x[2] \in BlocksIn(all) /\ SizeOfPair(left)[x] = Size[x[2]]
<1>1. left \subseteq BlocksIn(all) \X BlocksIn(all) /\ IsFiniteSet(left)
  BY LeftType
<1>2. \A x \in left : x[2] \in BlocksIn(all) /\ x[2] \in Block
  BY <1>1, BlocksInIs
<1>3. \A x \in left : SizeOfPair(left)[x] = Size[x[2]] /\ SizeOfPair(left)[x] \in Nat
  BY <1>2, TraceAssumption DEF SizeOfPair
<1>4. PICK M, m : M = PairCount(left) /\ m = [x \in left |-> 1]
  OBVIOUS
<1>5. IsMeasure(M, m, left)
  BY <1>1, <1>4, CountMeasure DEF PairCount
<1>6. PICK V, v : V = PairSize(left) /\ v = SizeOfPair(left)
  OBVIOUS
<1>7. IsMeasure(V, v, left)
  <2>1. V = [S \in SUBSET left |-> SumFunctionOnSet(v, S)]
    BY <1>6 DEF PairSize
  <2>2. \A x \in left : v[x] \in Nat
    BY <1>3, <1>6
  <2>3. QED
    BY <1>1, <2>1, <2>2, SumMeasure
<1>8. QED
  BY <1>2, <1>3, <1>4, <1>5, <1>6, <1>7

LEMMA BlockMeasures ==
    ASSUME NEW B \in SUBSET Block, IsFiniteSet(B)
    PROVE  /\ IsMeasure(BlockCount(B), [b \in B |-> 1], B)
           /\ IsMeasure(BlockSize(B), Size, B)
<1>1. PICK M, m : M = BlockCount(B) /\ m = [x \in B |-> 1]
  OBVIOUS
<1>2. IsMeasure(M, m, B)
  BY <1>1, CountMeasure DEF BlockCount
<1>3. QED
  BY <1>1, <1>2, SizesSum DEF BlockSize

LEMMA AtHash ==
    ASSUME NEW all \in Seq(RealSegments), NEW below, NEW left, left = Left(all, below), NEW h
    PROVE  /\ Cardinality(BlocksAt(left, h)) = PairCount(left)[PartOf(left, HashOfPair(left), h)]
           /\ SumFunctionOnSet(Size, BlocksAt(left, h))
              = PairSize(left)[PartOf(left, HashOfPair(left), h)]
<1>1. PICK B, Q : B = BlocksAt(left, h) /\ Q = PartOf(left, HashOfPair(left), h)
  OBVIOUS
<1>2. B \in SUBSET Block /\ IsFiniteSet(B) /\ Q = PairsOf(h, B)
  BY <1>1, BlocksAtIs
<1>3. \A b \in B : <<h, b>> \in left
  BY <1>1 DEF BlocksAt
<1>4. PICK M, m : M = PairCount(left) /\ m = [x \in left |-> 1] /\ IsMeasure(M, m, left)
  BY PairMeasures
<1>5. PICK W, w : W = BlockCount(B) /\ w = [b \in B |-> 1] /\ IsMeasure(W, w, B)
  BY <1>2, BlockMeasures
<1>6. \A b \in B : <<h, b>> \in left /\ m[<<h, b>>] = w[b]
  BY <1>3, <1>4, <1>5
<1>7. M[Q] = W[B]
  BY <1>2, <1>4, <1>5, <1>6, MeasurePairs
<1>8. PICK V, v : V = PairSize(left) /\ v = SizeOfPair(left) /\ IsMeasure(V, v, left)
  BY PairMeasures
<1>9. PICK U : U = BlockSize(B) /\ IsMeasure(U, Size, B)
  BY <1>2, BlockMeasures
<1>10. \A b \in B : <<h, b>> \in left /\ v[<<h, b>>] = Size[b]
  <2>1. ASSUME NEW b \in B
        PROVE  <<h, b>> \in left /\ v[<<h, b>>] = Size[b]
    <3>1. PICK x : x = <<h, b>>
      OBVIOUS
    <3>2. x \in left /\ x[2] = b
      BY <1>3, <3>1
    <3>3. SizeOfPair(left)[x] = Size[x[2]]
      BY <3>2 DEF SizeOfPair
    <3>4. QED
      BY <1>8, <3>1, <3>2, <3>3
  <2>2. QED
    BY <2>1
<1>11. V[Q] = U[B]
  BY <1>2, <1>8, <1>9, <1>10, MeasurePairs
<1>12. W[B] = Cardinality(B) /\ U[B] = SumFunctionOnSet(Size, B)
  BY <1>5, <1>9 DEF BlockCount, BlockSize
<1>13. QED
  BY <1>1, <1>4, <1>7, <1>8, <1>11, <1>12

(* What all the bins have: as many blocks, and as large ones, as there are pairs. *)
LEMMA DedupTotals ==
    ASSUME NEW traces, NEW all, all = SegmentsOf(traces), all \in Seq(RealSegments),
           NEW below, NEW left, left = Left(all, below)
    PROVE  /\ Summary(traces, below).total_dedup_blocks = PairCount(left)[left]
           /\ Summary(traces, below).total_dedup_size = PairSize(left)[left]
<1>1. IsFiniteSet(HashesOf(left)) /\ HashesOf(left) \in SUBSET Block
  BY HashesAre, BlocksInIs
<1>2. PICK f : f = [p \in Parts |-> SumFunction([h \in DOMAIN BinMap(traces, p, below) |->
                                        Cardinality(BinMap(traces, p, below)[h].blocks)])]
  OBVIOUS
<1>3. PICK k : k = [p \in Parts |-> SumFunction([h \in DOMAIN BinMap(traces, p, below) |->
                                        BinMap(traces, p, below)[h].dedup_size_])]
  OBVIOUS
<1>4. ASSUME NEW p \in Parts
      PROVE  /\ \E g : HasHashes(g, PairCount(left), left, p) /\ f[p] = SumFunction(g)
             /\ \E g : HasHashes(g, PairSize(left), left, p) /\ k[p] = SumFunction(g)
  <2>1. PICK map : map = BinMap(traces, p, below)
    OBVIOUS
  <2>2. /\ DOMAIN map = HashesIn(left, p)
        /\ \A h \in HashesIn(left, p) :
              /\ map[h].blocks = BlocksAt(left, h)
              /\ map[h].dedup_size_ = SumFunctionOnSet(Size, BlocksAt(left, h))
    BY <2>1, BinMapIs
  <2>3. PICK g, q : /\ g = [h \in HashesIn(left, p) |-> Cardinality(map[h].blocks)]
                    /\ q = [h \in HashesIn(left, p) |-> map[h].dedup_size_]
    OBVIOUS
  <2>4. f[p] = SumFunction(g) /\ k[p] = SumFunction(q)
    BY <1>2, <1>3, <2>1, <2>2, <2>3
  <2>5. ASSUME NEW h \in HashesIn(left, p)
        PROVE  /\ Cardinality(map[h].blocks) = PairCount(left)[PartOf(left, HashOfPair(left), h)]
               /\ map[h].dedup_size_ = PairSize(left)[PartOf(left, HashOfPair(left), h)]
    BY <2>2, AtHash
  <2>6. HasHashes(g, PairCount(left), left, p)
    BY <2>3, <2>5 DEF HasHashes
  <2>7. HasHashes(q, PairSize(left), left, p)
    BY <2>3, <2>5 DEF HasHashes
  <2>8. QED
    BY <2>4, <2>6, <2>7
<1>5. PICK M, m : M = PairCount(left) /\ m = [x \in left |-> 1] /\ IsMeasure(M, m, left)
  BY PairMeasures
<1>6. PICK V, v : V = PairSize(left) /\ v = SizeOfPair(left) /\ IsMeasure(V, v, left)
  BY PairMeasures
<1>7. f = [p \in Parts |-> f[p]] /\ k = [p \in Parts |-> k[p]]
  BY <1>2, <1>3
<1>8. SumFunction(f) = M[left]
  <2>1. \A p \in Parts : \E g : HasHashes(g, M, left, p) /\ f[p] = SumFunction(g)
    BY <1>4, <1>5
  <2>2. QED
    BY <1>1, <1>5, <1>7, <2>1, AllBins
<1>9. SumFunction(k) = V[left]
  <2>1. \A p \in Parts : \E g : HasHashes(g, V, left, p) /\ k[p] = SumFunction(g)
    BY <1>4, <1>6
  <2>2. QED
    BY <1>1, <1>6, <1>7, <2>1, AllBins
<1>10. Summary(traces, below).total_dedup_blocks = SumFunction(f)
  BY <1>2 DEF Summary, OverBins, OverPartitions, Parts
<1>11. Summary(traces, below).total_dedup_size = SumFunction(k)
  BY <1>3 DEF Summary, OverBins, OverPartitions, Parts
<1>12. QED
  BY <1>5, <1>6, <1>8, <1>9, <1>10, <1>11

(* A bin for each hash. *)
LEMMA BinsTotal ==
    ASSUME NEW traces, NEW all, all = SegmentsOf(traces), all \in Seq(RealSegments),
           NEW below, NEW left, left = Left(all, below)
    PROVE  Summary(traces, below).total_bins = Cardinality(HashesOf(left))
<1>1. PICK A : A = HashesOf(left) /\ A \in SUBSET Block /\ IsFiniteSet(A)
  BY HashesAre, BlocksInIs
<1>2. PICK M, m : M = BlockCount(A) /\ m = [b \in A |-> 1] /\ IsMeasure(M, m, A)
  BY <1>1, BlockMeasures
<1>3. PICK part : part = [h \in A |-> h % BIN_PARTITIONS]
  OBVIOUS
<1>4. \A h \in A : part[h] \in Parts
  BY <1>1, <1>3, PartsType
<1>5. PICK f : f = [p \in Parts |-> Cardinality(DOMAIN BinMap(traces, p, below))]
  OBVIOUS
<1>6. ASSUME NEW p \in Parts
      PROVE  f[p] = M[PartOf(A, part, p)]
  <2>1. PartOf(A, part, p) = HashesIn(left, p) /\ PartOf(A, part, p) \in SUBSET A
    BY <1>1, <1>3 DEF PartOf, HashesIn
  <2>2. DOMAIN BinMap(traces, p, below) = HashesIn(left, p)
    BY BinMapIs
  <2>3. M[PartOf(A, part, p)] = Cardinality(PartOf(A, part, p))
    BY <1>2, <2>1 DEF BlockCount
  <2>4. QED
    BY <1>5, <2>1, <2>2, <2>3
<1>7. f = [p \in Parts |-> M[PartOf(A, part, p)]]
  BY <1>5, <1>6
<1>8. SumFunction(f) = M[A]
  BY <1>2, <1>4, <1>7, PartsType, MeasureParts
<1>9. M[A] = Cardinality(A)
  BY <1>2 DEF BlockCount
<1>10. Summary(traces, below).total_bins = SumFunction(f)
  BY <1>5 DEF Summary, OverPartitions, Parts
<1>11. QED
  BY <1>1, <1>8, <1>9, <1>10

(* The theoretical index is all the blocks, each in one partition. *)
LEMMA TheoryTotals ==
    ASSUME NEW traces, NEW all, all = SegmentsOf(traces), all \in Seq(RealSegments),
           NEW below, NEW B, B = BlocksIn(all)
    PROVE  /\ Summary(traces, below).theory_dedup_blocks = BlockCount(B)[B]
           /\ Summary(traces, below).theory_dedup_size = BlockSize(B)[B]
<1>1. B \in SUBSET Block /\ IsFiniteSet(B)
  BY BlocksInIs
<1>2. PICK M, m : M = BlockCount(B) /\ m = [b \in B |-> 1] /\ IsMeasure(M, m, B)
  BY <1>1, BlockMeasures
<1>3. PICK V : V = BlockSize(B) /\ IsMeasure(V, Size, B)
  BY <1>1, BlockMeasures
<1>4. PICK part : part = [b \in B |-> b % BIN_PARTITIONS]
  OBVIOUS
<1>5. \A b \in B : part[b] \in Parts
  BY <1>1, <1>4, PartsType
<1>6. \A p : TheoreticalIndex(traces, p) = PartOf(B, part, p) /\ PartOf(B, part, p) \in SUBSET B
  BY <1>4 DEF TheoreticalIndex, PartOf, InPart, BlocksIn
<1>7. PICK f : f = [p \in Parts |-> Cardinality(TheoreticalIndex(traces, p))]
  OBVIOUS
<1>8. PICK g : g = [p \in Parts |-> SumFunctionOnSet(Size, TheoreticalIndex(traces, p))]
  OBVIOUS
<1>9. SumFunction(f) = M[B]
  <2>1. \A p \in Parts : f[p] = M[PartOf(B, part, p)]
    BY <1>2, <1>6, <1>7 DEF BlockCount
  <2>2. f = [p \in Parts |-> M[PartOf(B, part, p)]]
    BY <1>7, <2>1
  <2>3. QED
    BY <1>2, <1>5, <2>2, PartsType, MeasureParts
<1>10. SumFunction(g) = V[B]
  <2>1. \A p \in Parts : g[p] = V[PartOf(B, part, p)]
    BY <1>3, <1>6, <1>8 DEF BlockSize
  <2>2. g = [p \in Parts |-> V[PartOf(B, part, p)]]
    BY <1>8, <2>1
  <2>3. QED
    BY <1>3, <1>5, <2>2, PartsType, MeasureParts
<1>11. Summary(traces, below).theory_dedup_blocks = SumFunction(f)
  BY <1>7 DEF Summary, OverPartitions, Parts
<1>12. Summary(traces, below).theory_dedup_size = SumFunction(g)
  BY <1>8 DEF Summary, OverPartitions, Parts
<1>13. QED
  BY <1>2, <1>3, <1>9, <1>10, <1>11, <1>12

LEMMA VmsTraces ==
    ASSUME VmsOK
    PROVE  AllTraces \in Seq(Blocks)
<1>1. vms \in Seq(Vm)
  BY DEF VmsOK
<1>2. Len(vms) \in Nat /\ vms = [n \in 1..Len(vms) |-> vms[n]]
  BY <1>1, LenProperties
<1>3. \A n \in 1..Len(vms) : vms[n] \in Seq(Blocks)
  BY <1>1, ElementOfSeq DEF Vm
<1>4. vms \in Seq(Seq(Blocks))
  BY <1>2, <1>3, FunctionIsSeq
<1>5. QED
  BY <1>4, FlattenType DEF AllTraces

LEMMA VmsBinsRight == VmsOK => BinsRight
<1> SUFFICES ASSUME VmsOK, NEW below \in BOOLEAN
             PROVE  LET s == Summary(AllTraces, below)
                        all == SegmentsOf(AllTraces)
                        left == UNION {{<<MinHash(seg, below), b>> : b \in Range(seg)} : seg \in Range(all)}
                    IN  /\ s.total_segments = Len(all)
                        /\ s.total_blocks = Len(FlattenSeq(all))
                        /\ s.total_size = BytesOf(FlattenSeq(all))
                        /\ s.total_bins = Cardinality({x[1] : x \in left})
                        /\ s.total_dedup_blocks = Cardinality(left)
                        /\ s.total_dedup_size = SumFunction([x \in left |-> Size[x[2]]])
                        /\ s.theory_dedup_blocks <= s.total_dedup_blocks
                        /\ s.theory_dedup_size <= s.total_dedup_size
  BY DEF BinsRight
<1>1. PICK traces : traces = AllTraces /\ traces \in Seq(Blocks)
  BY VmsTraces
<1>2. PICK all : all = SegmentsOf(traces) /\ all \in Seq(RealSegments)
  BY <1>1, SegmentsOfType
<1>3. PICK left, B : left = Left(all, below) /\ B = BlocksIn(all)
  OBVIOUS
<1>4. PICK s : s = Summary(traces, below)
  OBVIOUS
<1>5. /\ s.total_segments = Len(all)
      /\ s.total_blocks = Len(FlattenSeq(all))
      /\ s.total_size = BytesOf(FlattenSeq(all))
  BY <1>2, <1>4, TotalsRight
<1>6. s.total_bins = Cardinality(HashesOf(left))
  BY <1>2, <1>3, <1>4, BinsTotal
<1>7. s.total_dedup_blocks = PairCount(left)[left] /\ s.total_dedup_size = PairSize(left)[left]
  BY <1>2, <1>3, <1>4, DedupTotals
<1>8. s.theory_dedup_blocks = BlockCount(B)[B] /\ s.theory_dedup_size = BlockSize(B)[B]
  BY <1>2, <1>3, <1>4, TheoryTotals
<1>9. PairCount(left)[left] = Cardinality(left)
  BY DEF PairCount
<1>10. PairSize(left)[left] = SumFunction([x \in left |-> Size[x[2]]])
  BY DEF PairSize, SizeOfPair, SumFunction
<1>11. B \in SUBSET Block /\ IsFiniteSet(B)
  BY <1>2, <1>3, BlocksInIs
<1>12. BlockCount(B)[B] <= PairCount(left)[left]
  <2>1. PICK M, m : M = PairCount(left) /\ m = [x \in left |-> 1] /\ IsMeasure(M, m, left)
    BY <1>2, <1>3, PairMeasures
  <2>2. PICK W, w : W = BlockCount(B) /\ w = [b \in B |-> 1] /\ IsMeasure(W, w, B)
    BY <1>11, BlockMeasures
  <2>3. \A x \in left : m[x] = w[x[2]]
    <3>1. ASSUME NEW x \in left
          PROVE  m[x] = w[x[2]]
      <4>1. m[x] = 1
        BY <2>1
      <4>2. x[2] \in B
        <5>1. left \subseteq B \X B
          BY <1>2, <1>3, LeftType
        <5>2. QED
          BY <5>1
      <4>3. QED
        BY <2>2, <4>1, <4>2
    <3>2. QED
      BY <3>1
  <2>4. W[B] <= M[left]
    BY <1>2, <1>3, <2>1, <2>2, <2>3, FewerBlocks
  <2>5. QED
    BY <2>1, <2>2, <2>4
<1>13. BlockSize(B)[B] <= PairSize(left)[left]
  <2>1. PICK M, m : M = PairSize(left) /\ m = SizeOfPair(left) /\ IsMeasure(M, m, left)
    BY <1>2, <1>3, PairMeasures
  <2>2. PICK W : W = BlockSize(B) /\ IsMeasure(W, Size, B)
    BY <1>11, BlockMeasures
  <2>3. \A x \in left : m[x] = Size[x[2]]
    BY <2>1 DEF SizeOfPair
  <2>4. W[B] <= M[left]
    BY <1>2, <1>3, <2>1, <2>2, <2>3, FewerBlocks
  <2>5. QED
    BY <2>1, <2>2, <2>4
<1>14. left = UNION {{<<MinHash(seg, below), b>> : b \in Range(seg)} : seg \in Range(all)}
       /\ HashesOf(left) = {x[1] : x \in left}
  BY <1>3 DEF Left, HashesOf
<1>15. QED
  BY <1>1, <1>2, <1>4, <1>5, <1>6, <1>7, <1>8, <1>9, <1>10, <1>12, <1>13, <1>14

LEMMA VmsIndexesRight == VmsOK => IndexesRight
<1> SUFFICES ASSUME VmsOK
             PROVE  IndexesRight
  OBVIOUS
<1>1. \A trace \in Range(AllTraces) : trace \in Blocks
  <2>1. PICK s : s = AllTraces /\ s \in Seq(Blocks)
    BY VmsTraces
  <2>2. Len(s) \in Nat /\ DOMAIN s = 1..Len(s) /\ \A n \in 1..Len(s) : s[n] \in Blocks
    BY <2>1, LenProperties, ElementOfSeq
  <2>3. QED
    BY <2>1, <2>2 DEF Range
<1>2. ASSUME NEW trace \in Blocks, NEW size \in CacheSizes
      PROVE  /\ LruRight(Segments(trace), size)
             /\ \A parent \in Blocks : SampledRight(trace, parent, size)
  <2>1. size \in Nat \ {0}
    BY OfflineAssumption
  <2>2. Segments(trace) \in Seq(Blocks)
    BY SegmentsType
  <2>3. PICK segs : segs = Segments(trace)
    OBVIOUS
  <2>4. LruRight(segs, size)
    BY <2>1, <2>2, <2>3, CacheRight
  <2>5. QED
    BY <2>1, <2>3, <2>4, SampledIsRight
<1>3. BinsRight
  BY VmsBinsRight
<1>4. QED
  BY <1>1, <1>2, <1>3 DEF IndexesRight

(* A cache has the blocks last used, whatever its size, and its chains have what its list has;
   the look-ups of a segment find every block that the index can give, once, and no other;
   and the partitions of the bins lose no segment, give each segment one bin, and keep of each
   block as many copies as there are bins that have it: never fewer than one.  Whatever the
   traces, the cache, the levels, the sampling, the partitions and where the stack is. *)
THEOREM IndexesAreRight == Spec => []IndexesRight
<1>1. VmsOK => IndexesRight
  BY VmsIndexesRight
<1>2. QED
  BY <1>1, TracesAreTraces, PTL
=============================================================================
