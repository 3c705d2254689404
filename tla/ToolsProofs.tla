----------------------------- MODULE ToolsProofs ------------------------------
(***************************************************************************)
(* The theorem about the tools of Offline: for every set of blocks, every  *)
(* CDS, every capacity and every limit, whatever the traces are.           *)
(***************************************************************************)
EXTENDS OfflineProofs

-----------------------------------------------------------------------------
(***************************************************************************)
(* The traces made for tests.                                              *)
(***************************************************************************)
LEMMA TestSizes ==
    /\ TEST_SEGMENT \in Nat \ {0} /\ TEST_SHIFT \in Nat \ {0} /\ TEST_SEGMENTS \in Nat \ {0}
    /\ TEST_SHIFT <= TEST_SEGMENT
BY TraceGenAssumption

(* Where a segment is in its trace. *)
LEMMA TestPlace ==
    ASSUME NEW s \in 1..TEST_SEGMENTS, NEW i \in 1..TEST_SEGMENT
    PROVE  /\ TEST_SEGMENT * (s - 1) \in Nat
           /\ TEST_SEGMENT * s = TEST_SEGMENT * (s - 1) + TEST_SEGMENT
           /\ TEST_SEGMENT * (s - 1) + i \in 1..(TEST_SEGMENT * TEST_SEGMENTS)
           /\ s = 1 => TEST_SEGMENT * (s - 1) = 0
           /\ s > 1 => TEST_SEGMENT * (s - 1) >= TEST_SEGMENT
<1> DEFINE G == TEST_SEGMENT
<1>1. G \in Nat \ {0} /\ TEST_SEGMENTS \in Nat \ {0}
  BY TestSizes
<1> HIDE DEF G
<1>2. s \in Nat /\ s - 1 \in Nat /\ s <= TEST_SEGMENTS
  BY <1>1
<1>3. /\ (s - 1) * G \in Nat /\ ((s - 1) + 1) * G = (s - 1) * G + G
      /\ s * G <= TEST_SEGMENTS * G /\ TEST_SEGMENTS * G \in Nat
  BY <1>1, <1>2, OneMore, TimesMonotone
<1>4. s > 1 => (s - 1) * G >= 1 * G
  BY <1>1, <1>2, TimesMonotone
<1>5. G * (s - 1) = (s - 1) * G /\ G * s = ((s - 1) + 1) * G /\ G * TEST_SEGMENTS = TEST_SEGMENTS * G
      /\ 1 * G = G
  BY <1>1, <1>2
<1>6. PICK a \in Nat, b \in Nat : a = (s - 1) * G /\ b = TEST_SEGMENTS * G /\ s * G = a + G
  BY <1>2, <1>3, <1>5
<1>7. a + i \in 1..b
  BY <1>1, <1>3, <1>6 DEF G
<1>8. s = 1 => a = 0
  BY <1>1, <1>6
<1>9. QED
  BY <1>1, <1>2, <1>3, <1>4, <1>5, <1>6, <1>7, <1>8 DEF G

(* Its blocks are one after the other. *)
TestFirst(k, s) == IF s = 1 THEN 0 ELSE TEST_SEGMENT * (s - 1) + TEST_SHIFT * (k - 1)

LEMMA TestSegmentIs ==
    ASSUME NEW k \in 1..4, NEW s \in 1..TEST_SEGMENTS
    PROVE  /\ TestFirst(k, s) \in Nat
           /\ TestSegment(k, s) = [i \in 1..TEST_SEGMENT |-> TestFirst(k, s) + i - 1]
<1>0. TEST_SEGMENT \in Nat \ {0} /\ TEST_SHIFT \in Nat \ {0} /\ TEST_SEGMENTS \in Nat \ {0}
  BY TestSizes
<1>1. PICK a \in Nat : a = TEST_SEGMENT * (s - 1)
  BY <1>0, TestPlace
<1>2. PICK h \in Nat : h = TEST_SHIFT * (k - 1)
  <2>1. (k - 1) * TEST_SHIFT \in Nat /\ TEST_SHIFT * (k - 1) = (k - 1) * TEST_SHIFT
    BY <1>0, TimesMonotone
  <2>2. QED
    BY <2>1
<1>3. PICK t : t = TestTrace(k)
  OBVIOUS
<1>4. /\ TEST_SEGMENT * s = a + TEST_SEGMENT
      /\ \A i \in 1..TEST_SEGMENT : a + i \in 1..(TEST_SEGMENT * TEST_SEGMENTS)
      /\ s = 1 => a = 0
      /\ s > 1 => a >= TEST_SEGMENT
  <2>1. 1 \in 1..TEST_SEGMENT
    BY <1>0
  <2>2. QED
    BY <1>1, <2>1, TestPlace
<1>5. ASSUME NEW i \in 1..TEST_SEGMENT
      PROVE  t[a + i] = TestFirst(k, s) + i - 1 /\ t[a + i] \in Nat
  <2>1. t[a + i] = IF a + i > TEST_SEGMENT THEN (a + i - 1) + h ELSE a + i - 1
    BY <1>2, <1>3, <1>4 DEF TestTrace
  <2>2. CASE s = 1
    <3>1. a = 0 /\ ~(a + i > TEST_SEGMENT)
      BY <1>0, <1>4, <2>2
    <3>2. QED
      BY <2>1, <2>2, <3>1 DEF TestFirst
  <2>3. CASE s # 1
    <3>1. s > 1 /\ a + i > TEST_SEGMENT
      BY <1>0, <1>4, <2>3
    <3>2. TestFirst(k, s) = a + h
      BY <1>1, <1>2, <2>3 DEF TestFirst
    <3>3. QED
      BY <2>1, <3>1, <3>2
  <2>4. QED
    BY <2>2, <2>3
<1>6. TestSegment(k, s) = SubSeq(t, a + 1, a + TEST_SEGMENT)
  BY <1>1, <1>3, <1>4 DEF TestSegment
<1>7. PICK m \in Int, n \in Int : m = a + 1 /\ n = a + TEST_SEGMENT
  BY <1>0
<1>8. \A i \in m..n : t[i] \in Nat
  <2>1. ASSUME NEW i \in m..n
        PROVE  t[i] \in Nat
    <3>1. i - a \in 1..TEST_SEGMENT /\ a + (i - a) = i
      BY <1>0, <1>7
    <3>2. QED
      BY <1>5, <3>1
  <2>2. QED
    BY <2>1
<1>9. PICK u : u = SubSeq(t, m, n)
  OBVIOUS
<1>10. /\ u \in Seq(Nat) /\ Len(u) = IF m <= n THEN n - m + 1 ELSE 0
       /\ \A i \in 1..(n - m + 1) : u[i] = t[m + i - 1]
  BY <1>8, <1>9, SubSeqProperties
<1>11. n - m + 1 = TEST_SEGMENT /\ m <= n
  BY <1>0, <1>7
<1>12. \A i \in 1..TEST_SEGMENT : m + i - 1 = a + i
  BY <1>0, <1>7
<1>a. DOMAIN u = 1..Len(u) /\ Len(u) = TEST_SEGMENT
  BY <1>10, <1>11, LenProperties
<1>13. DOMAIN u = 1..TEST_SEGMENT /\ \A i \in 1..TEST_SEGMENT : u[i] = TestFirst(k, s) + i - 1
  <2>1. \A i \in 1..TEST_SEGMENT : u[i] = t[m + i - 1] /\ t[m + i - 1] = t[a + i]
    BY <1>10, <1>11, <1>12
  <2>2. QED
    BY <1>5, <1>a, <2>1
<1>14. u = [i \in 1..TEST_SEGMENT |-> TestFirst(k, s) + i - 1]
  <2>1. u = [i \in DOMAIN u |-> u[i]]
    BY <1>10
  <2>2. QED
    BY <1>13, <2>1
<1>15. TestFirst(k, s) \in Nat
  BY <1>1, <1>2 DEF TestFirst
<1>16. QED
  BY <1>6, <1>7, <1>9, <1>14, <1>15

LEMMA TestTracesAreRight == TestTracesRight
<1> SUFFICES ASSUME NEW k \in 2..4
             PROVE  /\ TestSegment(k, 1) = TestSegment(k - 1, 1)
                    /\ \A s \in 2..TEST_SEGMENTS :
                          Cardinality(Range(TestSegment(k, s)) \cap Range(TestSegment(k - 1, s)))
                          = TEST_SEGMENT - TEST_SHIFT
  BY DEF TestTracesRight
<1>0. /\ TEST_SEGMENT \in Nat \ {0} /\ TEST_SHIFT \in Nat \ {0} /\ TEST_SEGMENTS \in Nat \ {0}
      /\ TEST_SHIFT <= TEST_SEGMENT
  BY TestSizes
<1>1. k \in 1..4 /\ k - 1 \in 1..4 /\ 1 \in 1..TEST_SEGMENTS
  BY <1>0
<1>2. TestSegment(k, 1) = TestSegment(k - 1, 1)
  <2>1. TestFirst(k, 1) = 0 /\ TestFirst(k - 1, 1) = 0
    BY DEF TestFirst
  <2>2. \A l \in 1..4 : TestSegment(l, 1) = [i \in 1..TEST_SEGMENT |-> TestFirst(l, 1) + i - 1]
    BY <1>1, TestSegmentIs
  <2>3. PICK l : l = k - 1
    OBVIOUS
  <2>4. l \in 1..4 /\ TestFirst(l, 1) = 0
    BY <1>1, <2>1, <2>3
  <2>5. TestSegment(k, 1) = TestSegment(l, 1)
    BY <1>1, <2>1, <2>2, <2>4
  <2>6. QED
    BY <2>3, <2>5
<1>3. ASSUME NEW s \in 2..TEST_SEGMENTS
      PROVE  Cardinality(Range(TestSegment(k, s)) \cap Range(TestSegment(k - 1, s)))
             = TEST_SEGMENT - TEST_SHIFT
  <2>1. s \in 1..TEST_SEGMENTS /\ s # 1
    BY <1>0
  <2>2. PICK x \in Nat, y \in Nat : x = TestFirst(k, s) /\ y = TestFirst(k - 1, s)
    BY <1>1, <2>1, TestSegmentIs
  <2>3. x = y + TEST_SHIFT
    <3>1. TEST_SHIFT * (k - 1) = TEST_SHIFT * ((k - 1) - 1) + TEST_SHIFT
      <4>1. (k - 2) \in Nat /\ (k - 2) + 1 = k - 1 /\ (k - 1) - 1 = k - 2
        OBVIOUS
      <4>2. ((k - 2) + 1) * TEST_SHIFT = (k - 2) * TEST_SHIFT + TEST_SHIFT
        BY <1>0, <4>1, OneMore
      <4>3. QED
        BY <1>0, <4>1, <4>2
    <3>2. PICK p \in Int, q \in Int, a \in Int : /\ p = TEST_SHIFT * (k - 1) /\ q = TEST_SHIFT * ((k - 1) - 1)
                                     /\ a = TEST_SEGMENT * (s - 1)
      BY <1>0, <2>1
    <3>3. x = a + p /\ y = a + q
      BY <2>1, <2>2, <3>2 DEF TestFirst
    <3>4. QED
      BY <1>0, <3>1, <3>2, <3>3
  <2>4. Range([i \in 1..TEST_SEGMENT |-> x + i - 1]) = x..(x + TEST_SEGMENT - 1)
    <3>1. \A v \in x..(x + TEST_SEGMENT - 1) : v - x + 1 \in 1..TEST_SEGMENT /\ x + (v - x + 1) - 1 = v
      BY <1>0
    <3>2. \A i \in 1..TEST_SEGMENT : x + i - 1 \in x..(x + TEST_SEGMENT - 1)
      BY <1>0
    <3>3. QED
      BY <3>1, <3>2 DEF Range
  <2>5. Range([i \in 1..TEST_SEGMENT |-> y + i - 1]) = y..(y + TEST_SEGMENT - 1)
    <3>1. \A v \in y..(y + TEST_SEGMENT - 1) : v - y + 1 \in 1..TEST_SEGMENT /\ y + (v - y + 1) - 1 = v
      BY <1>0
    <3>2. \A i \in 1..TEST_SEGMENT : y + i - 1 \in y..(y + TEST_SEGMENT - 1)
      BY <1>0
    <3>3. QED
      BY <3>1, <3>2 DEF Range
  <2>6. (x..(x + TEST_SEGMENT - 1)) \cap (y..(y + TEST_SEGMENT - 1)) = x..(y + TEST_SEGMENT - 1)
    BY <1>0, <2>3
  <2>7. Cardinality(x..(y + TEST_SEGMENT - 1)) = TEST_SEGMENT - TEST_SHIFT
    <3>1. PICK z \in Int : z = y + TEST_SEGMENT - 1
      BY <1>0
    <3>2. Cardinality(x..z) = IF x > z THEN 0 ELSE z - x + 1
      BY FS_Interval
    <3>3. QED
      BY <1>0, <2>3, <3>1, <3>2
  <2>8. \A l \in 1..4 : TestSegment(l, s) = [i \in 1..TEST_SEGMENT |-> TestFirst(l, s) + i - 1]
    BY <2>1, TestSegmentIs
  <2>9. PICK l : l = k - 1
    OBVIOUS
  <2>10. l \in 1..4 /\ TestFirst(l, s) = y
    BY <1>1, <2>2, <2>9
  <2>11. /\ TestSegment(k, s) = [i \in 1..TEST_SEGMENT |-> x + i - 1]
         /\ TestSegment(l, s) = [i \in 1..TEST_SEGMENT |-> y + i - 1]
    BY <1>1, <2>2, <2>8, <2>10
  <2>12. QED
    BY <2>4, <2>5, <2>6, <2>7, <2>9, <2>11
<1>4. QED
  BY <1>2, <1>3

-----------------------------------------------------------------------------
(***************************************************************************)
(* The dump of trace_stat.                                                 *)
(***************************************************************************)
LEMMA UpTo ==
    ASSUME NEW k \in Nat, NEW S, 0 \in S, \A n \in 1..k : n - 1 \in S => n \in S
    PROVE  0..k \subseteq S
<1> DEFINE P == {n \in Nat : n <= k => n \in S}
<1>1. 0 \in P
  OBVIOUS
<1>2. ASSUME NEW n \in Nat, n \in P
      PROVE  n + 1 \in P
  <2>1. n + 1 <= k => n \in S /\ n + 1 \in 1..k /\ (n + 1) - 1 = n
    BY <1>2
  <2>2. QED
    BY <2>1
<1> HIDE DEF P
<1>3. Nat \subseteq P
  BY <1>1, <1>2, NatSetInduction
<1>4. QED
  BY <1>3 DEF P

AllSegments(traces) == FlattenSeq([n \in DOMAIN traces |-> Segments(traces[n])])

LEMMA AllSegmentsType ==
    ASSUME NEW traces \in Seq(Blocks)
    PROVE  /\ AllSegments(traces) \in Seq(Blocks) /\ Len(AllSegments(traces)) \in Nat
           /\ \A n \in 1..Len(AllSegments(traces)) : AllSegments(traces)[n] \in Blocks
<1>1. DOMAIN traces = 1..Len(traces) /\ Len(traces) \in Nat
      /\ \A n \in 1..Len(traces) : traces[n] \in Blocks
  BY LenProperties, ElementOfSeq
<1>2. PICK f : f = [n \in 1..Len(traces) |-> Segments(traces[n])]
  OBVIOUS
<1>3. \A n \in 1..Len(traces) : f[n] \in Seq(Blocks)
  BY <1>1, <1>2, SegmentsType
<1>4. f = [n \in 1..Len(traces) |-> f[n]]
  BY <1>2
<1>5. f \in Seq(Seq(Blocks))
  BY <1>1, <1>3, <1>4, FunctionIsSeq
<1>6. AllSegments(traces) = FlattenSeq(f)
  BY <1>1, <1>2 DEF AllSegments
<1>7. AllSegments(traces) \in Seq(Blocks)
  BY <1>5, <1>6, FlattenType
<1>8. QED
  BY <1>7, LenProperties, ElementOfSeq

AreDumps(g, all, limits) ==
    /\ g[0] = << >>
    /\ \A n \in 0..Len(all) : g[n] \in Seq(Blocks)
    /\ \A n \in 1..Len(all) : g[n] = (IF LimitMet(g[n - 1], limits) THEN g[n - 1] ELSE Append(g[n - 1], all[n]))

LEMMA StatDumpIs ==
    ASSUME NEW traces \in Seq(Blocks), NEW limits, NEW all, all = AllSegments(traces)
    PROVE  \E g : AreDumps(g, all, limits) /\ StatDump(traces, limits) = g[Len(all)]
<1> DEFINE step == [p \in Seq(Blocks) \X (1..Len(all)) |-> (IF LimitMet(p[1], limits) THEN p[1] ELSE Append(p[1], all[p[2]]))]
           Goes(f) == f = [n \in 0..Len(all) |-> IF n = 0 THEN << >> ELSE (IF LimitMet(f[n - 1], limits) THEN f[n - 1] ELSE Append(f[n - 1], all[n]))]
<1>0. Len(all) \in Nat /\ << >> \in Seq(Blocks)
  BY AllSegmentsType, EmptySeq
<1>1. ASSUME NEW x \in Seq(Blocks), NEW n \in 1..Len(all)
      PROVE  step[<<x, n>>] = (IF LimitMet(x, limits) THEN x ELSE Append(x, all[n])) /\ step[<<x, n>>] \in Seq(Blocks)
  <2>1. all[n] \in Blocks
    BY AllSegmentsType
  <2>2. QED
    BY <2>1, AppendProperties
<1> HIDE DEF step
<1>2. PICK f : AreSteps(f, Seq(Blocks), << >>, Len(all), step)
  BY <1>0, <1>1, StepsExist
<1>3. Goes(f)
  <2>1. /\ f = [n \in 0..Len(all) |-> f[n]] /\ f[0] = << >>
        /\ \A n \in 0..Len(all) : f[n] \in Seq(Blocks)
        /\ \A n \in 1..Len(all) : f[n] = step[<<f[n - 1], n>>]
    BY <1>2 DEF AreSteps
  <2>2. \A n \in 0..Len(all) : f[n] = IF n = 0 THEN << >> ELSE (IF LimitMet(f[n - 1], limits) THEN f[n - 1] ELSE Append(f[n - 1], all[n]))
    <3>1. \A n \in 0..Len(all) : n # 0 => n \in 1..Len(all) /\ n - 1 \in 0..Len(all)
      BY <1>0
    <3>2. QED
      BY <1>1, <2>1, <3>1
  <2>3. QED
    BY <2>1, <2>2
<1>4. PICK g : Goes(g) /\ StatDump(traces, limits) = g[Len(all)]
  <2>1. StatDump(traces, limits) = (CHOOSE g : Goes(g))[Len(all)]
    BY DEF StatDump, StatSegments, AllSegments
  <2> HIDE DEF Goes
  <2>2. QED
    BY <1>3, <2>1
<1>5. g[0] = << >> /\ \A n \in 1..Len(all) : g[n] = (IF LimitMet(g[n - 1], limits) THEN g[n - 1] ELSE Append(g[n - 1], all[n]))
  <2>1. g = [n \in 0..Len(all) |-> IF n = 0 THEN << >> ELSE (IF LimitMet(g[n - 1], limits) THEN g[n - 1] ELSE Append(g[n - 1], all[n]))]
    BY <1>4
  <2>2. 0 \in 0..Len(all) /\ \A n \in 1..Len(all) : n \in 0..Len(all) /\ n # 0
    BY <1>0
  <2>3. QED
    BY <2>1, <2>2
<1> HIDE DEF Goes
<1>6. ASSUME NEW n \in 1..Len(all), g[n - 1] \in Seq(Blocks)
      PROVE  g[n] \in Seq(Blocks)
  <2>1. g[n] = step[<<g[n - 1], n>>] /\ step[<<g[n - 1], n>>] \in Seq(Blocks)
    BY <1>1, <1>5, <1>6
  <2>2. QED
    BY <2>1
<1>7. \A n \in 0..Len(all) : g[n] \in Seq(Blocks)
  <2>1. 0..Len(all) \subseteq {n \in 0..Len(all) : g[n] \in Seq(Blocks)}
    <3>1. 0 \in 0..Len(all) /\ \A n \in 1..Len(all) : n \in 0..Len(all)
      BY <1>0
    <3>2. QED
      BY <1>0, <1>5, <1>6, <3>1, UpTo, Zenon
  <2>2. QED
    BY <2>1
<1>8. QED
  BY <1>4, <1>5, <1>7 DEF AreDumps

(* The dump so far: what there is of the traces, until it met the limit. *)
DumpedTo(d, all, n, limits) ==
    /\ IsPrefix(d, all)
    /\ d = SubSeq(all, 1, n) \/ LimitMet(d, limits)
    /\ d # << >> => ~LimitMet(Front(d), limits)

LEMMA DumpIsRight ==
    ASSUME NEW traces \in Seq(Blocks), NEW limits
    PROVE  DumpedTo(StatDump(traces, limits), AllSegments(traces), Len(AllSegments(traces)), limits)
<1>1. PICK all : all = AllSegments(traces)
  OBVIOUS
<1>2. all \in Seq(Blocks) /\ Len(all) \in Nat
  BY <1>1, AllSegmentsType
<1>a. PICK g : AreDumps(g, all, limits) /\ StatDump(traces, limits) = g[Len(all)]
  BY <1>1, StatDumpIs
<1>3. /\ g[0] = << >> /\ StatDump(traces, limits) = g[Len(all)]
      /\ \A n \in 0..Len(all) : g[n] \in Seq(Blocks)
      /\ \A n \in 1..Len(all) : g[n] = (IF LimitMet(g[n - 1], limits) THEN g[n - 1]
                                        ELSE Append(g[n - 1], all[n]))
  BY <1>a DEF AreDumps
<1>4. DumpedTo(g[0], all, 0, limits)
  <2>1. SubSeq(all, 1, 0) = << >>
    BY SubSeqEmpty
  <2>2. Len(<< >>) = 0 /\ SubSeq(<< >>, 1, 0) = << >>
    BY SubSeqEmpty, EmptySeq
  <2>3. IsPrefix(<< >>, all)
    BY <1>2, <2>1, <2>2 DEF IsPrefix
  <2>4. QED
    BY <1>3, <2>1, <2>3 DEF DumpedTo
<1>5. ASSUME NEW n \in 1..Len(all), DumpedTo(g[n - 1], all, n - 1, limits)
      PROVE  DumpedTo(g[n], all, n, limits)
  <2>1. PICK d \in Seq(Blocks) : d = g[n - 1]
    <3>1. n - 1 \in 0..Len(all)
      BY <1>2
    <3>2. QED
      BY <1>3, <3>1
  <2>2. CASE LimitMet(d, limits)
    BY <1>3, <1>5, <2>1, <2>2 DEF DumpedTo
  <2>3. CASE ~LimitMet(d, limits)
    <3>1. d = SubSeq(all, 1, n - 1) /\ g[n] = Append(d, all[n])
      BY <1>3, <1>5, <2>1, <2>3 DEF DumpedTo
    <3>2. all[n] \in Blocks
      BY <1>2, ElementOfSeq
    <3>3. SubSeq(all, 1, n) = SubSeq(all, 1, n - 1) \o <<all[n]>>
      <4>1. 1 \in 1..Len(all) /\ n \in 1..Len(all)
        BY <1>2
      <4>2. QED
        BY <1>2, <4>1, SubSeqRecursiveSecond
    <3>4. g[n] = SubSeq(all, 1, n)
      BY <2>1, <3>1, <3>2, <3>3, AppendIsConcat
    <3>5. Front(g[n]) = d
      BY <2>1, <3>1, <3>2, FrontAppend
    <3>6. Len(g[n]) = n /\ g[n] \in Seq(Blocks)
      <4>1. n \in Int /\ \A i \in 1..n : all[i] \in Blocks
        BY <1>2, ElementOfSeq
      <4>2. Len(SubSeq(all, 1, n)) = n /\ SubSeq(all, 1, n) \in Seq(Blocks)
        BY <4>1, SubSeqProperties
      <4>3. QED
        BY <3>4, <4>2
    <3>7. IsPrefix(g[n], all)
      <4>1. SubSeq(g[n], 1, Len(g[n])) = g[n]
        BY <3>6, SubSeqFull
      <4>2. QED
        BY <1>2, <3>4, <3>6, <4>1 DEF IsPrefix
    <3>8. QED
      BY <2>3, <3>4, <3>5, <3>7 DEF DumpedTo
  <2>4. QED
    BY <2>2, <2>3
<1>6. 0..Len(all) \subseteq {n \in 0..Len(all) : DumpedTo(g[n], all, n, limits)}
  <2>1. 0 \in 0..Len(all) /\ \A n \in 1..Len(all) : n \in 0..Len(all)
    BY <1>2
  <2>2. QED
    BY <1>2, <1>4, <1>5, <2>1, UpTo
<1>7. Len(all) \in 0..Len(all)
  BY <1>2
<1>8. QED
  BY <1>1, <1>3, <1>6, <1>7

LEMMA VmsDumpRight ==
    ASSUME VmsOK, NEW limits
    PROVE  DumpRight(limits)
<1>1. PICK traces \in Seq(Blocks) : traces = AllTraces
  BY VmsTraces
<1>2. DumpedTo(StatDump(traces, limits), AllSegments(traces), Len(AllSegments(traces)), limits)
  BY DumpIsRight
<1>3. QED
  BY <1>1, <1>2 DEF DumpRight, DumpedTo, AllSegments

-----------------------------------------------------------------------------
(***************************************************************************)
(* Traces that are read with changes, and generated snapshots.             *)
(***************************************************************************)
SameShape(ss, uu) ==
    /\ ss \in Seq(Blocks) /\ uu \in Seq(Blocks) /\ Len(uu) = Len(ss)
    /\ \A n \in 1..Len(ss) : Len(uu[n]) = Len(ss[n]) /\ BytesOf(uu[n]) = BytesOf(ss[n])

(* A block more, of the same size in both. *)
LEMMA LoadSameShape ==
    ASSUME NEW ss, NEW uu, SameShape(ss, uu), NEW e \in Block, NEW f \in Block, Size[f] = Size[e]
    PROVE  SameShape(LoadFixSize(ss, e), LoadFixSize(uu, f))
<1>1. /\ ss \in Seq(Blocks) /\ uu \in Seq(Blocks) /\ Len(uu) = Len(ss) /\ Len(ss) \in Nat
      /\ \A n \in 1..Len(ss) : /\ ss[n] \in Blocks /\ uu[n] \in Blocks
                               /\ Len(uu[n]) = Len(ss[n]) /\ BytesOf(uu[n]) = BytesOf(ss[n])
  <2>1. /\ ss \in Seq(Blocks) /\ uu \in Seq(Blocks) /\ Len(uu) = Len(ss)
        /\ \A n \in 1..Len(ss) : Len(uu[n]) = Len(ss[n]) /\ BytesOf(uu[n]) = BytesOf(ss[n])
    BY DEF SameShape
  <2>2. Len(ss) \in Nat /\ \A n \in 1..Len(ss) : ss[n] \in Blocks /\ uu[n] \in Blocks
    BY <2>1, LenProperties, ElementOfSeq
  <2>3. QED
    BY <2>1, <2>2
<1>2. (ss = << >> <=> uu = << >>) /\ (ss # << >> => Len(ss) \in 1..Len(ss))
  BY <1>1, EmptySeq
<1>3. CASE Size[e] = 0
  BY <1>3 DEF LoadFixSize
<1>4. CASE Size[e] # 0 /\ (ss = << >> \/ BytesOf(ss[Len(ss)]) >= FIX_SEGMENT_SIZE)
  <2>1. PICK c, d : c = <<e>> /\ d = <<f>>
    OBVIOUS
  <2>2. c \in Blocks /\ d \in Blocks /\ Len(c) = Len(d) /\ BytesOf(c) = BytesOf(d)
    <3>1. c = Append(<< >>, e) /\ d = Append(<< >>, f) /\ << >> \in Seq(Block)
      BY <2>1, SingleIsAppend, EmptySeq
    <3>2. BytesOf(c) = BytesOf(<< >>) + Size[e] /\ BytesOf(d) = BytesOf(<< >>) + Size[f]
      BY <3>1, BytesOfAppend
    <3>3. Len(c) = 1 /\ Len(d) = 1
      BY <2>1
    <3>4. QED
      BY <3>1, <3>2, <3>3, AppendProperties DEF Blocks
  <2>3. LoadFixSize(ss, e) = Append(ss, c) /\ LoadFixSize(uu, f) = Append(uu, d)
    <3>1. uu = << >> \/ BytesOf(uu[Len(uu)]) >= FIX_SEGMENT_SIZE
      BY <1>1, <1>2, <1>4
    <3>2. QED
      BY <1>4, <2>1, <3>1 DEF LoadFixSize
  <2>4. /\ Append(ss, c) \in Seq(Blocks) /\ Len(Append(ss, c)) = Len(ss) + 1
        /\ Append(ss, c)[Len(ss) + 1] = c
        /\ \A n \in 1..Len(ss) : Append(ss, c)[n] = ss[n]
    BY <1>1, <2>2, AppendProperties
  <2>5. /\ Append(uu, d) \in Seq(Blocks) /\ Len(Append(uu, d)) = Len(uu) + 1
        /\ Append(uu, d)[Len(uu) + 1] = d
        /\ \A n \in 1..Len(uu) : Append(uu, d)[n] = uu[n]
    BY <1>1, <2>2, AppendProperties
  <2>6. \A n \in 1..(Len(ss) + 1) : n \in 1..Len(ss) \/ n = Len(ss) + 1
    BY <1>1
  <2>7. QED
    BY <1>1, <2>2, <2>3, <2>4, <2>5, <2>6 DEF SameShape
<1>5. CASE Size[e] # 0 /\ ~(ss = << >> \/ BytesOf(ss[Len(ss)]) >= FIX_SEGMENT_SIZE)
  <2>1. PICK k \in 1..Len(ss) : k = Len(ss)
    BY <1>2, <1>5
  <2>2. PICK c, d : c = Append(ss[k], e) /\ d = Append(uu[k], f)
    OBVIOUS
  <2>3. c \in Blocks /\ d \in Blocks /\ Len(d) = Len(c) /\ BytesOf(d) = BytesOf(c)
    BY <1>1, <2>1, <2>2, AppendProperties, BytesOfAppend DEF Blocks
  <2>4. LoadFixSize(ss, e) = [ss EXCEPT ![k] = c] /\ LoadFixSize(uu, f) = [uu EXCEPT ![k] = d]
    <3>1. ~(uu = << >> \/ BytesOf(uu[Len(uu)]) >= FIX_SEGMENT_SIZE)
      BY <1>1, <1>2, <1>5
    <3>2. LoadFixSize(ss, e) = [ss EXCEPT ![k] = Append(@, e)]
      BY <1>5, <2>1 DEF LoadFixSize
    <3>3. LoadFixSize(uu, f) = [uu EXCEPT ![k] = Append(@, f)]
      BY <1>1, <1>5, <2>1, <3>1 DEF LoadFixSize
    <3>4. QED
      BY <2>2, <3>2, <3>3
  <2>5. /\ [ss EXCEPT ![k] = c] \in Seq(Blocks) /\ Len([ss EXCEPT ![k] = c]) = Len(ss)
        /\ \A n \in 1..Len(ss) : [ss EXCEPT ![k] = c][n] = IF n = k THEN c ELSE ss[n]
    BY <1>1, <2>1, <2>3, ExceptSeq
  <2>6. /\ [uu EXCEPT ![k] = d] \in Seq(Blocks) /\ Len([uu EXCEPT ![k] = d]) = Len(uu)
        /\ \A n \in 1..Len(uu) : [uu EXCEPT ![k] = d][n] = IF n = k THEN d ELSE uu[n]
    BY <1>1, <2>1, <2>3, ExceptSeq
  <2>7. QED
    BY <1>1, <2>3, <2>4, <2>5, <2>6 DEF SameShape
<1>6. QED
  BY <1>3, <1>4, <1>5

SameSizes(s, t) == Len(t) = Len(s) /\ \A n \in 1..Len(s) : Size[t[n]] = Size[s[n]]

(* What segments are like depends on the sizes only. *)
LEMMA SegmentsSameShape ==
    ASSUME NEW s \in Blocks, NEW t \in Blocks, SameSizes(s, t)
    PROVE  SameShape(Segments(s), Segments(t))
<1> DEFINE P == {x \in Seq(Block) : \A y \in Seq(Block) :
                     SameSizes(x, y) => SameShape(Segments(x), Segments(y))}
<1>1. << >> \in P
  <2>1. ASSUME NEW y \in Seq(Block), SameSizes(<< >>, y)
        PROVE  SameShape(Segments(<< >>), Segments(y))
    <3>1. y = << >>
      BY <2>1, EmptySeq DEF SameSizes
    <3>2. SameShape(<< >>, << >>)
      BY EmptySeq DEF SameShape
    <3>3. QED
      BY <3>1, <3>2, SegmentsEmpty
  <2>2. QED
    BY <2>1, EmptySeq
<1>2. ASSUME NEW x \in Seq(Block), NEW e \in Block, x \in P
      PROVE  Append(x, e) \in P
  <2>1. ASSUME NEW y \in Seq(Block), SameSizes(Append(x, e), y)
        PROVE  SameShape(Segments(Append(x, e)), Segments(y))
    <3>1. Len(y) = Len(Append(x, e)) /\ \A n \in 1..Len(Append(x, e)) : Size[y[n]] = Size[Append(x, e)[n]]
      BY <2>1 DEF SameSizes
    <3>2. PICK u \in Seq(Block), f \in Block : Apart(y, u, f, x, e)
      BY <3>1, TakenApart
    <3>3. /\ y = Append(u, f) /\ Len(u) = Len(x)
          /\ \A i \in 1..Len(x) : y[i] = u[i] /\ Append(x, e)[i] = x[i]
          /\ y[Len(x) + 1] = f /\ Append(x, e)[Len(x) + 1] = e
          /\ 1..Len(Append(x, e)) = (1..Len(x)) \cup {Len(x) + 1}
      BY <3>2 DEF Apart
    <3>4. SameSizes(x, u) /\ Size[f] = Size[e]
      BY <3>1, <3>3 DEF SameSizes
    <3>5. SameShape(Segments(x), Segments(u))
      BY <1>2, <3>4
    <3>6. SameShape(LoadFixSize(Segments(x), e), LoadFixSize(Segments(u), f))
      BY <3>4, <3>5, LoadSameShape
    <3>7. QED
      BY <3>3, <3>6, SegmentsAppend
  <2>2. QED
    BY <2>1, AppendProperties
<1> HIDE DEF P
<1>3. Seq(Block) \subseteq P
  BY <1>1, <1>2, SeqSetInduction
<1>4. QED
  BY <1>3 DEF P, Blocks

(* Blocks without data leave no trace. *)
LEMMA SegmentsOfData ==
    ASSUME NEW s \in Blocks
    PROVE  Segments(Among(s, Data)) = Segments(s)
<1> DEFINE P == {x \in Seq(Block) : Segments(Among(x, Data)) = Segments(x)}
<1>1. << >> \in P
  BY EmptySeq, AmongEmpty
<1>2. ASSUME NEW x \in Seq(Block), NEW e \in Block, x \in P
      PROVE  Append(x, e) \in P
  <2>1. Segments(Append(x, e)) = LoadFixSize(Segments(x), e) /\ Append(x, e) \in Seq(Block)
    BY SegmentsAppend, AppendProperties
  <2>2. CASE e \in Data
    <3>1. Among(Append(x, e), Data) = Append(Among(x, Data), e) /\ Among(x, Data) \in Seq(Block)
      BY <2>2, AmongAppend, AmongType
    <3>2. QED
      BY <1>2, <2>1, <3>1, SegmentsAppend
  <2>3. CASE e \notin Data
    <3>1. Among(Append(x, e), Data) = Among(x, Data)
      BY <2>3, AmongAppend
    <3>2. Size[e] = 0
      BY <2>3, TraceAssumption DEF Data
    <3>3. LoadFixSize(Segments(x), e) = Segments(x)
      BY <3>2 DEF LoadFixSize
    <3>4. QED
      BY <1>2, <2>1, <3>1, <3>3
  <2>4. QED
    BY <2>2, <2>3
<1> HIDE DEF P
<1>3. Seq(Block) \subseteq P
  BY <1>1, <1>2, SeqSetInduction
<1>4. QED
  BY <1>3 DEF P, Blocks

Lengths(segs) == [n \in DOMAIN segs |-> Len(segs[n])]

LEMMA ChangedLengths ==
    ASSUME NEW trace \in Blocks, NEW t \in Changed(trace)
    PROVE  t \in Blocks /\ Lengths(Segments(t)) = Lengths(Segments(trace))
<1>1. DOMAIN trace = 1..Len(trace) /\ Len(trace) \in Nat
  BY LenProperties DEF Blocks
<1>2. t \in [1..Len(trace) -> Block] /\ \A n \in 1..Len(trace) : Size[t[n]] = Size[trace[n]]
  BY <1>1 DEF Changed
<1>3. t = [i \in 1..Len(trace) |-> t[i]] /\ \A i \in 1..Len(trace) : t[i] \in Block
  BY <1>2
<1>4. t \in Seq(Block) /\ Len(t) = Len(trace)
  BY <1>1, <1>3, FunctionIsSeq
<1>5. SameShape(Segments(trace), Segments(t))
  BY <1>2, <1>4, SegmentsSameShape DEF Blocks, SameSizes
<1>6. /\ Len(Segments(t)) = Len(Segments(trace))
      /\ \A n \in 1..Len(Segments(trace)) : Len(Segments(t)[n]) = Len(Segments(trace)[n])
  BY <1>5 DEF SameShape
<1>7. DOMAIN Segments(t) = DOMAIN Segments(trace) /\ DOMAIN Segments(trace) = 1..Len(Segments(trace))
  BY <1>4, <1>6, SegmentsType DEF Blocks
<1>8. QED
  BY <1>4, <1>6, <1>7 DEF Lengths, Blocks

(* The files of a run of two loops. *)
LEMMA OutputsCount ==
    ASSUME NEW v \in Nat, v <= LOOP_STRIDE, NEW k \in Nat
    PROVE  Cardinality(Outputs(2, v, k)) = 2 * v * k
<1>1. PICK L \in Nat : L = LOOP_STRIDE
  BY TraceGenAssumption
<1>2. PICK A, B, S : A = L..(L + v - 1) /\ B = (L + L)..(L + L + v - 1) /\ S = 0..(k - 1)
  OBVIOUS
<1>3. PICK I : I = A \cup B
  OBVIOUS
<1>4. /\ IsFiniteSet(A) /\ Cardinality(A) = v /\ IsFiniteSet(B) /\ Cardinality(B) = v
      /\ IsFiniteSet(S) /\ Cardinality(S) = k
  <2>1. PICK a \in Int, b \in Int, c \in Int, d \in Int, e \in Int :
            a = L /\ b = L + v - 1 /\ c = L + L /\ d = L + L + v - 1 /\ e = k - 1
    OBVIOUS
  <2>2. IsFiniteSet(a..b) /\ Cardinality(a..b) = IF a > b THEN 0 ELSE b - a + 1
    BY FS_Interval
  <2>3. IsFiniteSet(c..d) /\ Cardinality(c..d) = IF c > d THEN 0 ELSE d - c + 1
    BY FS_Interval
  <2>4. IsFiniteSet(0..e) /\ Cardinality(0..e) = IF 0 > e THEN 0 ELSE e - 0 + 1
    BY FS_Interval
  <2>5. QED
    BY <1>2, <2>1, <2>2, <2>3, <2>4
<1>5. A \cap B = {}
  BY <1>1, <1>2
<1>6. IsFiniteSet(I) /\ Cardinality(I) = v + v
  <2>1. Cardinality(I) = Cardinality(A) + Cardinality(B) - Cardinality(A \cap B) /\ IsFiniteSet(I)
    BY <1>3, <1>4, FS_Union
  <2>2. QED
    BY <1>4, <1>5, <2>1, FS_EmptySet
<1>7. Cardinality(I \X S) = (v + v) * k
  BY <1>4, <1>6, FS_Product
<1>8. Outputs(2, v, k) = I \X S
  <2>1. \A l \in 0..(2 - 1) : l = 0 \/ l = 1
    OBVIOUS
  <2>2. \A x : VmId(0, x) = L * (0 + 1) + x /\ VmId(1, x) = L * (1 + 1) + x
    BY <1>1 DEF VmId
  <2>3. L * (0 + 1) = L /\ L * (1 + 1) = L + L
    BY <1>1
  <2>4. \A x : VmId(0, x) = L + x /\ VmId(1, x) = L + L + x
    BY <2>2, <2>3
  <2>5. \A i \in I : \E l \in 0..(2 - 1), x \in 0..(v - 1) : i = VmId(l, x)
    <3>1. ASSUME NEW i \in A
          PROVE  \E l \in 0..(2 - 1), x \in 0..(v - 1) : i = VmId(l, x)
      <4>1. i - L \in 0..(v - 1) /\ i = L + (i - L)
        BY <1>1, <1>2, <3>1
      <4>2. i = VmId(0, i - L)
        BY <2>4, <4>1
      <4>3. QED
        BY <4>1, <4>2
    <3>2. ASSUME NEW i \in B
          PROVE  \E l \in 0..(2 - 1), x \in 0..(v - 1) : i = VmId(l, x)
      <4>1. i - (L + L) \in 0..(v - 1) /\ i = L + L + (i - (L + L))
        BY <1>1, <1>2, <3>2
      <4>2. i = VmId(1, i - (L + L))
        BY <2>4, <4>1
      <4>3. QED
        BY <4>1, <4>2
    <3>3. QED
      BY <1>3, <3>1, <3>2
  <2>6. \A l \in 0..(2 - 1), x \in 0..(v - 1) : VmId(l, x) \in I
    <3>1. \A x \in 0..(v - 1) : L + x \in A /\ L + L + x \in B
      BY <1>1, <1>2
    <3>2. QED
      BY <1>3, <2>1, <2>4, <3>1
  <2>7. Outputs(2, v, k) \subseteq I \X S
    BY <1>2, <2>6 DEF Outputs
  <2>8. I \X S \subseteq Outputs(2, v, k)
    <3>1. ASSUME NEW i \in I, NEW s \in S
          PROVE  <<i, s>> \in Outputs(2, v, k)
      <4>1. PICK l \in 0..(2 - 1), x \in 0..(v - 1) : i = VmId(l, x)
        BY <2>5
      <4>2. QED
        BY <1>2, <4>1 DEF Outputs
    <3>2. QED
      BY <3>1
  <2>9. QED
    BY <2>7, <2>8
<1>9. (v + v) * k = 2 * v * k
  BY <1>1
<1>10. QED
  BY <1>7, <1>8, <1>9

LEMMA VmsGeneratedRight ==
    ASSUME VmsOK, NEW trace \in Blocks
    PROVE  GeneratedRight(trace)
<1>1. ASSUME NEW segs \in {Segments(t) : t \in Changed(trace)}
      PROVE  Lengths(segs) = Lengths(Segments(trace))
  BY <1>1, ChangedLengths
<1>2. ASSUME NEW segs \in {Segments(t) : t \in Generated(trace, 1, 1)}
      PROVE  Lengths(segs) = Lengths(Segments(trace))
  <2>1. PICK g \in Generated(trace, 1, 1) : segs = Segments(g)
    BY <1>2
  <2>2. PICK t \in Changed(trace) : g = FlattenSeq(Segments(t))
    BY <2>1 DEF Generated, TracegenRandSegments, Saved
  <2>3. t \in Blocks /\ Lengths(Segments(t)) = Lengths(Segments(trace))
    BY <2>2, ChangedLengths
  <2>4. g = Among(t, Data)
    BY <2>2, <2>3, SegmentsType
  <2>5. QED
    BY <2>1, <2>3, <2>4, SegmentsOfData
<1>3. /\ load_rand_segment(trace) = {Segments(t) : t \in Changed(trace)}
      /\ FreqRandSegments(trace) = {Segments(t) : t \in Changed(trace)}
      /\ BinningRandSegments(trace) = {Segments(t) : t \in Changed(trace)}
      /\ StatRandSegments(trace) = {Segments(t) : t \in Changed(trace)}
  BY DEF load_rand_segment, FreqRandSegments, BinningRandSegments, StatRandSegments
<1>4. Generated(trace, 0, 1) = {FlattenSeq(Segments(trace))}
  BY DEF Generated, TracegenRandSegments, TracegenSegments, Saved
<1>5. PICK v \in Nat, k \in Nat : v = Min({Len(vms), LOOP_STRIDE}) /\ v <= LOOP_STRIDE /\ k = Len(Last(vms))
  <2>1. Len(vms) \in Nat /\ LOOP_STRIDE \in Nat
    BY VmsAt, TraceGenAssumption
  <2>2. Last(vms) \in Vm
    BY FrontLast DEF VmsOK
  <2>3. Len(Last(vms)) \in Nat
    BY <2>2, LenProperties DEF Vm
  <2>4. PICK m \in Nat : m = Min({Len(vms), LOOP_STRIDE}) /\ m <= LOOP_STRIDE
    BY <2>1, MinOfTwo
  <2>5. QED
    BY <2>3, <2>4
<1>6. Cardinality(Outputs(2, v, k)) = 2 * v * k
  BY <1>5, OutputsCount
<1>7. \A segs \in {Segments(t) : t \in Generated(trace, 1, 1)} \cup load_rand_segment(trace)
                  \cup FreqRandSegments(trace) \cup BinningRandSegments(trace)
                  \cup StatRandSegments(trace) : Lengths(segs) = Lengths(Segments(trace))
  BY <1>1, <1>2, <1>3
<1>8. QED
  BY <1>4, <1>5, <1>6, <1>7 DEF GeneratedRight, Lengths

-----------------------------------------------------------------------------
(***************************************************************************)
(* Containers.                                                             *)
(***************************************************************************)
(* Maps from some of a set. *)
FiniteSubsets(S) == {s \in SUBSET S : IsFiniteSet(s)}

Maps(K, V) == UNION {[S -> V] : S \in FiniteSubsets(K)}

IsMap(m, K, V) ==
    /\ DOMAIN m \in SUBSET K /\ IsFiniteSet(DOMAIN m)
    /\ \A x \in DOMAIN m : m[x] \in V
    /\ m = [x \in DOMAIN m |-> m[x]]

LEMMA MapIs ==
    ASSUME NEW K, NEW V, NEW m
    PROVE  m \in Maps(K, V) <=> IsMap(m, K, V)
<1>1. ASSUME m \in Maps(K, V)
      PROVE  IsMap(m, K, V)
  <2>1. PICK S \in FiniteSubsets(K) : m \in [S -> V]
    BY <1>1 DEF Maps
  <2>2. QED
    BY <2>1 DEF FiniteSubsets, IsMap
<1>2. ASSUME IsMap(m, K, V)
      PROVE  m \in Maps(K, V)
  <2>1. PICK S : S = DOMAIN m
    OBVIOUS
  <2>2. S \in FiniteSubsets(K) /\ m \in [S -> V]
    BY <1>2, <2>1 DEF FiniteSubsets, IsMap
  <2>3. QED
    BY <2>2 DEF Maps
<1>3. QED
  BY <1>1, <1>2

LEMMA EmptyMap ==
    ASSUME NEW K, NEW V
    PROVE  IsMap(<< >>, K, V) /\ DOMAIN << >> = {}
<1>1. DOMAIN << >> = {} /\ IsFiniteSet({})
  BY FS_EmptySet
<1>2. QED
  BY <1>1 DEF IsMap

Offsets == 0..(CAPACITY - 1)

ContainerStates ==
    [container_index : Maps(Block, Int),
     vm_containers : FiniteSubsets(Int), cds_containers : Nat,
     container_num : Nat, container_offset : Offsets,
     cds_container_num : Int, cds_container_offset : Offsets]

Held(index, n) == {b \in DOMAIN index : index[b] = n}

(* The containers before the open one are full, it has the blocks that its offset says,
   and there are none behind it. *)
Filling(index, num, offset) ==
    \A n \in Nat : Cardinality(Held(index, n)) =
        IF n < num THEN CAPACITY ELSE IF n = num THEN offset ELSE 0

CdsFilling(index, num, offset) ==
    \A n \in Int \ Nat : Cardinality(Held(index, n)) =
        IF n > num THEN CAPACITY ELSE IF n = num THEN offset ELSE 0

OfOneKind(index, cds) ==
    \A n \in Int : IF n < 0 THEN Held(index, n) \subseteq cds ELSE Held(index, n) \cap cds = {}

ContainersOK(cds) ==
    {c \in ContainerStates :
        /\ c.cds_container_num < 0
        /\ Filling(c.container_index, c.container_num, c.container_offset)
        /\ CdsFilling(c.container_index, c.cds_container_num, c.cds_container_offset)
        /\ OfOneKind(c.container_index, cds)
        /\ c.cds_containers = Cardinality({n \in c.vm_containers : n < 0})}

LEMMA CapacityType ==
    /\ CAPACITY \in Nat \ {0}
    /\ 0 \in Offsets
    /\ \A o \in Offsets : /\ o \in Nat /\ (o + 1) % CAPACITY \in Offsets
                          /\ (o + 1) % CAPACITY = IF o + 1 >= CAPACITY THEN 0 ELSE o + 1
                          /\ o + 1 >= CAPACITY => o + 1 = CAPACITY
<1>1. CAPACITY \in Nat \ {0}
  BY SamplingAssumption
<1>2. ASSUME NEW C \in Nat \ {0}, NEW o \in 0..(C - 1)
      PROVE  (o + 1) % C = IF o + 1 >= C THEN 0 ELSE o + 1
  <2>1. CASE o + 1 >= C
    <3>1. o + 1 = C
      BY <2>1
    <3>2. C % C = 0
      OBVIOUS
    <3>3. QED
      BY <2>1, <3>1, <3>2
  <2>2. CASE ~(o + 1 >= C)
    <3>1. o + 1 \in 0..(C - 1)
      BY <2>2
    <3>2. (o + 1) % C = o + 1
      BY <3>1
    <3>3. QED
      BY <2>2, <3>2
  <2>3. QED
    BY <2>1, <2>2
<1>3. \A o \in Offsets : (o + 1) % CAPACITY = IF o + 1 >= CAPACITY THEN 0 ELSE o + 1
  BY <1>1, <1>2 DEF Offsets
<1>4. QED
  BY <1>1, <1>3 DEF Offsets

(* A block that is put into a container. *)
Put(index, b, n) == [x \in DOMAIN index \cup {b} |-> IF x = b THEN n ELSE index[x]]

IndexOK(index) == IsMap(index, Block, Int)

LEMMA PutIs ==
    ASSUME NEW index, IndexOK(index), NEW b \in Block, b \notin DOMAIN index, NEW m \in Int
    PROVE  /\ IndexOK(Put(index, b, m))
           /\ Held(Put(index, b, m), m) = Held(index, m) \cup {b}
           /\ Cardinality(Held(Put(index, b, m), m)) = Cardinality(Held(index, m)) + 1
           /\ \A n : n # m => Held(Put(index, b, m), n) = Held(index, n)
<1>1. PICK p : p = Put(index, b, m)
  OBVIOUS
<1>2. /\ DOMAIN p = DOMAIN index \cup {b} /\ p[b] = m
      /\ \A x \in DOMAIN index : p[x] = index[x]
      /\ p = [x \in DOMAIN p |-> p[x]]
  BY <1>1 DEF Put
<1>3. IndexOK(p)
  <2>1. IsFiniteSet(DOMAIN p)
    BY <1>2, FS_AddElement DEF IndexOK, IsMap
  <2>2. QED
    BY <1>2, <2>1 DEF IndexOK, IsMap
<1>4. Held(p, m) = Held(index, m) \cup {b} /\ b \notin Held(index, m)
  BY <1>2 DEF Held
<1>5. \A n : n # m => Held(p, n) = Held(index, n)
  BY <1>2 DEF Held
<1>6. IsFiniteSet(Held(index, m))
  <2>1. Held(index, m) \in SUBSET DOMAIN index
    BY DEF Held
  <2>2. QED
    BY <2>1, FS_Subset DEF IndexOK, IsMap
<1>7. Cardinality(Held(p, m)) = Cardinality(Held(index, m)) + 1
  BY <1>4, <1>6, FS_AddElement
<1>8. QED
  BY <1>1, <1>3, <1>4, <1>5, <1>7

LEMMA PutNonCds ==
    ASSUME NEW index, IndexOK(index), NEW b \in Block, b \notin DOMAIN index,
           NEW num \in Nat, NEW offset \in Offsets, Filling(index, num, offset),
           NEW m \in Nat, m = IF offset + 1 >= CAPACITY THEN num + 1 ELSE num
    PROVE  Filling(Put(index, b, num), m, (offset + 1) % CAPACITY)
<1>1. PICK p : p = Put(index, b, num)
  OBVIOUS
<1>2. /\ Cardinality(Held(p, num)) = Cardinality(Held(index, num)) + 1
      /\ \A n : n # num => Held(p, n) = Held(index, n)
  BY <1>1, PutIs
<1>3. PICK o \in Nat : /\ o = (offset + 1) % CAPACITY
                       /\ o = IF offset + 1 >= CAPACITY THEN 0 ELSE offset + 1
                       /\ offset + 1 >= CAPACITY => offset + 1 = CAPACITY
                       /\ CAPACITY \in Nat /\ offset \in Nat
  BY CapacityType
<1>4. ASSUME NEW n \in Nat
      PROVE  Cardinality(Held(p, n)) = IF n < m THEN CAPACITY ELSE IF n = m THEN o ELSE 0
  <2>1. Cardinality(Held(index, n)) = IF n < num THEN CAPACITY ELSE IF n = num THEN offset ELSE 0
    BY DEF Filling
  <2>2. CASE n = num
    <3>1. Cardinality(Held(p, n)) = offset + 1
      BY <1>2, <1>3, <2>1, <2>2
    <3>2. QED
      BY <1>3, <2>2, <3>1
  <2>3. CASE n # num
    <3>1. Cardinality(Held(p, n)) = Cardinality(Held(index, n))
      BY <1>2, <2>3
    <3>2. QED
      BY <1>3, <2>1, <2>3, <3>1
  <2>4. QED
    BY <2>2, <2>3
<1>5. QED
  BY <1>1, <1>3, <1>4 DEF Filling

LEMMA PutCds ==
    ASSUME NEW index, IndexOK(index), NEW b \in Block, b \notin DOMAIN index,
           NEW num \in Int \ Nat, NEW offset \in Offsets, CdsFilling(index, num, offset),
           NEW m \in Int \ Nat, m = IF offset + 1 >= CAPACITY THEN num - 1 ELSE num
    PROVE  CdsFilling(Put(index, b, num), m, (offset + 1) % CAPACITY)
<1>1. PICK p : p = Put(index, b, num)
  OBVIOUS
<1>2. /\ Cardinality(Held(p, num)) = Cardinality(Held(index, num)) + 1
      /\ \A n : n # num => Held(p, n) = Held(index, n)
  BY <1>1, PutIs
<1>3. PICK o \in Nat : /\ o = (offset + 1) % CAPACITY
                       /\ o = IF offset + 1 >= CAPACITY THEN 0 ELSE offset + 1
                       /\ offset + 1 >= CAPACITY => offset + 1 = CAPACITY
                       /\ CAPACITY \in Nat /\ offset \in Nat
  BY CapacityType
<1>4. ASSUME NEW n \in Int \ Nat
      PROVE  Cardinality(Held(p, n)) = IF n > m THEN CAPACITY ELSE IF n = m THEN o ELSE 0
  <2>1. Cardinality(Held(index, n)) = IF n > num THEN CAPACITY ELSE IF n = num THEN offset ELSE 0
    BY DEF CdsFilling
  <2>2. CASE n = num
    <3>1. Cardinality(Held(p, n)) = offset + 1
      BY <1>2, <1>3, <2>1, <2>2
    <3>2. QED
      BY <1>3, <2>2, <3>1
  <2>3. CASE n # num
    <3>1. Cardinality(Held(p, n)) = Cardinality(Held(index, n))
      BY <1>2, <2>3
    <3>2. QED
      BY <1>3, <2>1, <2>3, <3>1
  <2>4. QED
    BY <2>2, <2>3
<1>5. QED
  BY <1>1, <1>3, <1>4 DEF CdsFilling

(* What a state has, field by field. *)
ContainersAre(c, cds) ==
    /\ IndexOK(c.container_index)
    /\ c.vm_containers \in FiniteSubsets(Int) /\ c.cds_containers \in Nat
    /\ c.container_num \in Nat /\ c.container_offset \in Offsets
    /\ c.cds_container_num \in Int \ Nat /\ c.cds_container_offset \in Offsets
    /\ Filling(c.container_index, c.container_num, c.container_offset)
    /\ CdsFilling(c.container_index, c.cds_container_num, c.cds_container_offset)
    /\ OfOneKind(c.container_index, cds)
    /\ c.cds_containers = Cardinality({n \in c.vm_containers : n < 0})

LEMMA ContainersFields ==
    ASSUME NEW cds, NEW c \in ContainersOK(cds)
    PROVE  /\ ContainersAre(c, cds)
           /\ c = [container_index |-> c.container_index, vm_containers |-> c.vm_containers,
                   cds_containers |-> c.cds_containers,
                   container_num |-> c.container_num, container_offset |-> c.container_offset,
                   cds_container_num |-> c.cds_container_num,
                   cds_container_offset |-> c.cds_container_offset]
<1>1. /\ c \in ContainerStates /\ c.cds_container_num < 0
      /\ Filling(c.container_index, c.container_num, c.container_offset)
      /\ CdsFilling(c.container_index, c.cds_container_num, c.cds_container_offset)
      /\ OfOneKind(c.container_index, cds)
      /\ c.cds_containers = Cardinality({n \in c.vm_containers : n < 0})
  BY DEF ContainersOK
<1>2. IndexOK(c.container_index)
  <2>1. c.container_index \in Maps(Block, Int)
    BY <1>1 DEF ContainerStates
  <2>2. QED
    BY <2>1, MapIs DEF IndexOK
<1>3. c.cds_container_num \in Int \ Nat
  BY <1>1 DEF ContainerStates
<1>4. QED
  BY <1>1, <1>2, <1>3 DEF ContainersAre, ContainerStates

LEMMA ContainersMade ==
    ASSUME NEW cds, NEW index, NEW vmc, NEW k, NEW num, NEW offset, NEW cnum, NEW coffset, NEW c,
           c = [container_index |-> index, vm_containers |-> vmc, cds_containers |-> k,
                container_num |-> num, container_offset |-> offset,
                cds_container_num |-> cnum, cds_container_offset |-> coffset],
           ContainersAre(c, cds)
    PROVE  c \in ContainersOK(cds)
<1>1. /\ c.container_index = index /\ c.vm_containers = vmc /\ c.cds_containers = k
      /\ c.container_num = num /\ c.container_offset = offset
      /\ c.cds_container_num = cnum /\ c.cds_container_offset = coffset
  OBVIOUS
<1>2. index \in Maps(Block, Int)
  BY <1>1, MapIs DEF ContainersAre, IndexOK
<1>3. c \in ContainerStates
  <2>1. /\ vmc \in FiniteSubsets(Int) /\ k \in Nat /\ num \in Nat /\ offset \in Offsets
        /\ cnum \in Int /\ coffset \in Offsets
    BY <1>1 DEF ContainersAre
  <2>2. QED
    BY <1>2, <2>1 DEF ContainerStates
<1>4. cnum < 0
  BY <1>1 DEF ContainersAre
<1>5. QED
  BY <1>1, <1>3, <1>4 DEF ContainersOK, ContainersAre

(* A state is its fields. *)
StateOf(r, index, vmc, k, num, offset, cnum, coffset) ==
    /\ r = [x \in DOMAIN r |-> r[x]]
    /\ DOMAIN r = {"container_index", "vm_containers", "cds_containers", "container_num",
                   "container_offset", "cds_container_num", "cds_container_offset"}
    /\ r.container_index = index /\ r.vm_containers = vmc /\ r.cds_containers = k
    /\ r.container_num = num /\ r.container_offset = offset
    /\ r.cds_container_num = cnum /\ r.cds_container_offset = coffset

LEMMA StateIs ==
    ASSUME NEW index, NEW vmc, NEW k, NEW num, NEW offset, NEW cnum, NEW coffset, NEW r,
           StateOf(r, index, vmc, k, num, offset, cnum, coffset)
    PROVE  r = [container_index |-> index, vm_containers |-> vmc, cds_containers |-> k,
                container_num |-> num, container_offset |-> offset,
                cds_container_num |-> cnum, cds_container_offset |-> coffset]
BY DEF StateOf

LEMMA PlacedOK ==
    ASSUME NEW cds, NEW c \in ContainersOK(cds), NEW b \in Block
    PROVE  /\ Placed(c, b, cds) \in ContainersOK(cds)
           /\ b \in DOMAIN Placed(c, b, cds).container_index
<1>1. PICK index, vmc, k, num, offset, cnum, coffset :
          c = [container_index |-> index, vm_containers |-> vmc, cds_containers |-> k,
               container_num |-> num, container_offset |-> offset,
               cds_container_num |-> cnum, cds_container_offset |-> coffset]
  BY ContainersFields
<1>2. /\ c.container_index = index /\ c.vm_containers = vmc /\ c.cds_containers = k
      /\ c.container_num = num /\ c.container_offset = offset
      /\ c.cds_container_num = cnum /\ c.cds_container_offset = coffset
  BY <1>1
<1>3. /\ IndexOK(index) /\ vmc \in FiniteSubsets(Int) /\ k \in Nat
      /\ num \in Nat /\ offset \in Offsets /\ cnum \in Int \ Nat /\ coffset \in Offsets
      /\ Filling(index, num, offset) /\ CdsFilling(index, cnum, coffset)
      /\ OfOneKind(index, cds) /\ k = Cardinality({n \in vmc : n < 0})
  BY <1>2, ContainersFields DEF ContainersAre
<1>4. CASE b \in DOMAIN index
  BY <1>2, <1>4 DEF Placed
<1>5. CASE b \notin DOMAIN index /\ b \in cds
  <2>1. PICK p, m, o : /\ p = Put(index, b, cnum) /\ o = (coffset + 1) % CAPACITY
                       /\ m = IF coffset + 1 >= CAPACITY THEN cnum - 1 ELSE cnum
    OBVIOUS
  <2>2. PICK q : q = [container_index |-> p, vm_containers |-> vmc, cds_containers |-> k,
                      container_num |-> num, container_offset |-> offset,
                      cds_container_num |-> m, cds_container_offset |-> o]
    OBVIOUS
  <2>3. Placed(c, b, cds) = q
    <3>1. PICK r : r = Placed(c, b, cds)
      OBVIOUS
    <3>2. r = [c EXCEPT !.container_index = p, !.cds_container_num = m, !.cds_container_offset = o]
      BY <1>2, <1>5, <2>1, <3>1 DEF Placed, Put
    <3>3. StateOf(r, p, vmc, k, num, offset, m, o)
      BY <1>1, <3>2 DEF StateOf
    <3>4. QED
      BY <2>2, <3>1, <3>3, StateIs
  <2>4. m \in Int \ Nat /\ o \in Offsets
    BY <1>3, <2>1, CapacityType
  <2>5. CdsFilling(p, m, o)
    BY <1>3, <1>5, <2>1, <2>4, PutCds
  <2>6. /\ IndexOK(p) /\ Held(p, cnum) = Held(index, cnum) \cup {b}
        /\ \A n : n # cnum => Held(p, n) = Held(index, n)
    BY <1>3, <1>5, <2>1, PutIs
  <2>7. Filling(p, num, offset)
    <3>1. \A n \in Nat : n # cnum
      BY <1>3
    <3>2. QED
      BY <1>3, <2>6, <3>1 DEF Filling
  <2>8. OfOneKind(p, cds)
    BY <1>3, <1>5, <2>6 DEF OfOneKind
  <2>9. ContainersAre(q, cds)
    BY <1>3, <2>2, <2>4, <2>5, <2>6, <2>7, <2>8 DEF ContainersAre
  <2>10. b \in DOMAIN p
    BY <2>1 DEF Put
  <2>11. QED
    BY <2>2, <2>3, <2>9, <2>10, ContainersMade
<1>6. CASE b \notin DOMAIN index /\ b \notin cds
  <2>1. PICK p, m, o : /\ p = Put(index, b, num) /\ o = (offset + 1) % CAPACITY
                       /\ m = IF offset + 1 >= CAPACITY THEN num + 1 ELSE num
    OBVIOUS
  <2>2. PICK q : q = [container_index |-> p, vm_containers |-> vmc, cds_containers |-> k,
                      container_num |-> m, container_offset |-> o,
                      cds_container_num |-> cnum, cds_container_offset |-> coffset]
    OBVIOUS
  <2>3. Placed(c, b, cds) = q
    <3>1. PICK r : r = Placed(c, b, cds)
      OBVIOUS
    <3>2. r = [c EXCEPT !.container_index = p, !.container_num = m, !.container_offset = o]
      BY <1>2, <1>6, <2>1, <3>1 DEF Placed, Put
    <3>3. StateOf(r, p, vmc, k, m, o, cnum, coffset)
      BY <1>1, <3>2 DEF StateOf
    <3>4. QED
      BY <2>2, <3>1, <3>3, StateIs
  <2>4. m \in Nat /\ o \in Offsets
    BY <1>3, <2>1, CapacityType
  <2>5. Filling(p, m, o)
    BY <1>3, <1>6, <2>1, <2>4, PutNonCds
  <2>6. /\ IndexOK(p) /\ Held(p, num) = Held(index, num) \cup {b}
        /\ \A n : n # num => Held(p, n) = Held(index, n)
    BY <1>3, <1>6, <2>1, PutIs
  <2>7. CdsFilling(p, cnum, coffset)
    <3>1. \A n \in Int \ Nat : n # num
      BY <1>3
    <3>2. QED
      BY <1>3, <2>6, <3>1 DEF CdsFilling
  <2>8. OfOneKind(p, cds)
    BY <1>3, <1>6, <2>6 DEF OfOneKind
  <2>9. ContainersAre(q, cds)
    BY <1>3, <2>2, <2>4, <2>5, <2>6, <2>7, <2>8 DEF ContainersAre
  <2>10. b \in DOMAIN p
    BY <2>1 DEF Put
  <2>11. QED
    BY <2>2, <2>3, <2>9, <2>10, ContainersMade
<1>7. QED
  BY <1>4, <1>5, <1>6

LEMMA UsedOK ==
    ASSUME NEW cds, NEW c \in ContainersOK(cds), NEW m \in Int
    PROVE  Used(c, m) \in ContainersOK(cds)
<1>1. PICK index, vmc, k, num, offset, cnum, coffset :
          c = [container_index |-> index, vm_containers |-> vmc, cds_containers |-> k,
               container_num |-> num, container_offset |-> offset,
               cds_container_num |-> cnum, cds_container_offset |-> coffset]
  BY ContainersFields
<1>2. /\ c.container_index = index /\ c.vm_containers = vmc /\ c.cds_containers = k
      /\ c.container_num = num /\ c.container_offset = offset
      /\ c.cds_container_num = cnum /\ c.cds_container_offset = coffset
  BY <1>1
<1>3. /\ IndexOK(index) /\ vmc \in FiniteSubsets(Int) /\ k \in Nat
      /\ num \in Nat /\ offset \in Offsets /\ cnum \in Int \ Nat /\ coffset \in Offsets
      /\ Filling(index, num, offset) /\ CdsFilling(index, cnum, coffset)
      /\ OfOneKind(index, cds) /\ k = Cardinality({n \in vmc : n < 0})
  BY <1>2, ContainersFields DEF ContainersAre
<1>4. CASE m \in vmc
  BY <1>2, <1>4 DEF Used
<1>5. CASE m \notin vmc
  <2>1. PICK V, K : V = vmc \cup {m} /\ K = IF m < 0 THEN k + 1 ELSE k
    OBVIOUS
  <2>2. PICK q : q = [container_index |-> index, vm_containers |-> V, cds_containers |-> K,
                      container_num |-> num, container_offset |-> offset,
                      cds_container_num |-> cnum, cds_container_offset |-> coffset]
    OBVIOUS
  <2>3. Used(c, m) = q
    <3>1. PICK r : r = Used(c, m)
      OBVIOUS
    <3>2. r = [c EXCEPT !.vm_containers = V, !.cds_containers = K]
      BY <1>2, <1>5, <2>1, <3>1 DEF Used
    <3>3. StateOf(r, index, V, K, num, offset, cnum, coffset)
      BY <1>1, <3>2 DEF StateOf
    <3>4. QED
      BY <2>2, <3>1, <3>3, StateIs
  <2>4. IsFiniteSet(vmc) /\ vmc \in SUBSET Int
    BY <1>3 DEF FiniteSubsets
  <2>5. V \in FiniteSubsets(Int)
    BY <2>1, <2>4, FS_AddElement DEF FiniteSubsets
  <2>6. PICK N : N = {n \in vmc : n < 0}
    OBVIOUS
  <2>7. IsFiniteSet(N) /\ m \notin N
    BY <1>5, <2>4, <2>6, FS_Subset
  <2>8. {n \in V : n < 0} = IF m < 0 THEN N \cup {m} ELSE N
    BY <2>1, <2>6
  <2>a. Cardinality(N \cup {m}) = Cardinality(N) + 1
    BY <2>7, FS_AddElement
  <2>9. K = Cardinality({n \in V : n < 0}) /\ K \in Nat
    BY <1>3, <2>1, <2>6, <2>8, <2>a
  <2>10. ContainersAre(q, cds)
    BY <1>3, <2>2, <2>5, <2>9 DEF ContainersAre
  <2>11. QED
    BY <2>2, <2>3, <2>10, ContainersMade
<1>6. QED
  BY <1>4, <1>5

LEMMA ContainBlockOK ==
    ASSUME NEW cds, NEW c \in ContainersOK(cds), NEW b \in Block
    PROVE  ContainBlock(c, b, cds) \in ContainersOK(cds)
<1>1. PICK p : p = Placed(c, b, cds)
  OBVIOUS
<1>2. p \in ContainersOK(cds) /\ b \in DOMAIN p.container_index
  BY <1>1, PlacedOK
<1>3. p.container_index[b] \in Int
  <2>1. IndexOK(p.container_index)
    BY <1>2, ContainersFields DEF ContainersAre
  <2>2. QED
    BY <1>2, <2>1 DEF IndexOK, IsMap
<1>4. Used(p, p.container_index[b]) \in ContainersOK(cds)
  BY <1>2, <1>3, UsedOK
<1>5. QED
  BY <1>1, <1>4 DEF ContainBlock

LEMMA NewVmOK ==
    ASSUME NEW cds, NEW c \in ContainersOK(cds)
    PROVE  [c EXCEPT !.vm_containers = {}, !.cds_containers = 0] \in ContainersOK(cds)
<1>1. PICK index, vmc, k, num, offset, cnum, coffset :
          c = [container_index |-> index, vm_containers |-> vmc, cds_containers |-> k,
               container_num |-> num, container_offset |-> offset,
               cds_container_num |-> cnum, cds_container_offset |-> coffset]
  BY ContainersFields
<1>2. /\ c.container_index = index /\ c.vm_containers = vmc /\ c.cds_containers = k
      /\ c.container_num = num /\ c.container_offset = offset
      /\ c.cds_container_num = cnum /\ c.cds_container_offset = coffset
  BY <1>1
<1>3. /\ IndexOK(index) /\ num \in Nat /\ offset \in Offsets /\ cnum \in Int \ Nat /\ coffset \in Offsets
      /\ Filling(index, num, offset) /\ CdsFilling(index, cnum, coffset) /\ OfOneKind(index, cds)
  BY <1>2, ContainersFields DEF ContainersAre
<1>4. PICK q : q = [container_index |-> index, vm_containers |-> {}, cds_containers |-> 0,
                    container_num |-> num, container_offset |-> offset,
                    cds_container_num |-> cnum, cds_container_offset |-> coffset]
  OBVIOUS
<1>5. [c EXCEPT !.vm_containers = {}, !.cds_containers = 0] = q
  <2>1. PICK r : r = [c EXCEPT !.vm_containers = {}, !.cds_containers = 0]
    OBVIOUS
  <2>2. StateOf(r, index, {}, 0, num, offset, cnum, coffset)
    BY <1>1, <2>1 DEF StateOf
  <2>3. QED
    BY <1>4, <2>1, <2>2, StateIs
<1>6. {} \in FiniteSubsets(Int) /\ Cardinality({n \in {} : n < 0}) = 0
  <2>1. {n \in {} : n < 0} = {}
    OBVIOUS
  <2>2. QED
    BY <2>1, FS_EmptySet DEF FiniteSubsets
<1>7. ContainersAre(q, cds)
  BY <1>3, <1>4, <1>6 DEF ContainersAre
<1>8. QED
  BY <1>4, <1>5, <1>7, ContainersMade

LEMMA NoContainersOK ==
    ASSUME NEW cds
    PROVE  NoContainers \in ContainersOK(cds)
<1>1. PICK e : e = << >> /\ DOMAIN e = {}
  BY EmptySeq
<1>2. \A n : Held(e, n) = {}
  BY <1>1 DEF Held
<1>3. Cardinality({}) = 0 /\ IsFiniteSet({})
  BY FS_EmptySet
<1>4. IndexOK(e)
  BY <1>1, EmptyMap DEF IndexOK
<1>5. Filling(e, 0, 0) /\ CdsFilling(e, -1, 0) /\ OfOneKind(e, cds)
  <2>1. \A n \in Nat : ~(n < 0)
    OBVIOUS
  <2>2. \A n \in Int \ Nat : ~(n > -1)
    OBVIOUS
  <2>3. Filling(e, 0, 0)
    BY <1>2, <1>3, <2>1 DEF Filling
  <2>4. CdsFilling(e, -1, 0)
    BY <1>2, <1>3, <2>2 DEF CdsFilling
  <2>5. OfOneKind(e, cds)
    BY <1>2 DEF OfOneKind
  <2>6. QED
    BY <2>3, <2>4, <2>5
<1>6. PICK q : q = [container_index |-> e, vm_containers |-> {}, cds_containers |-> 0,
                    container_num |-> 0, container_offset |-> 0,
                    cds_container_num |-> -1, cds_container_offset |-> 0]
  OBVIOUS
<1>7. {} \in FiniteSubsets(Int) /\ Cardinality({n \in {} : n < 0}) = 0
  <2>1. {n \in {} : n < 0} = {}
    OBVIOUS
  <2>2. QED
    BY <1>3, <2>1 DEF FiniteSubsets
<1>8. 0 \in Offsets /\ 0 \in Nat /\ -1 \in Int \ Nat
  BY CapacityType
<1>9. ContainersAre(q, cds)
  BY <1>4, <1>5, <1>6, <1>7, <1>8 DEF ContainersAre
<1>10. QED
  BY <1>1, <1>6, <1>9, ContainersMade DEF NoContainers

AreContained(g, c, blocks, cds) ==
    /\ g[0] = c
    /\ \A n \in 0..Len(blocks) : g[n] \in ContainersOK(cds)
    /\ \A n \in 1..Len(blocks) : g[n] = ContainBlock(g[n - 1], blocks[n], cds)

LEMMA ContainedIs ==
    ASSUME NEW cds, NEW c \in ContainersOK(cds), NEW blocks \in Blocks
    PROVE  \E g : AreContained(g, c, blocks, cds) /\ do_container_freq(c, blocks, cds) = g[Len(blocks)]
<1> DEFINE step == [p \in ContainersOK(cds) \X (1..Len(blocks)) |-> ContainBlock(p[1], blocks[p[2]], cds)]
           Goes(f) == f = [n \in 0..Len(blocks) |-> IF n = 0 THEN c ELSE ContainBlock(f[n - 1], blocks[n], cds)]
<1>0. Len(blocks) \in Nat /\ c \in ContainersOK(cds)
  BY LenProperties DEF Blocks
<1>1. ASSUME NEW x \in ContainersOK(cds), NEW n \in 1..Len(blocks)
      PROVE  step[<<x, n>>] = ContainBlock(x, blocks[n], cds) /\ step[<<x, n>>] \in ContainersOK(cds)
  <2>1. blocks[n] \in Block
    BY ElementOfSeq DEF Blocks
  <2>2. QED
    BY <2>1, ContainBlockOK
<1> HIDE DEF step
<1>2. PICK f : AreSteps(f, ContainersOK(cds), c, Len(blocks), step)
  BY <1>0, <1>1, StepsExist
<1>3. Goes(f)
  <2>1. /\ f = [n \in 0..Len(blocks) |-> f[n]] /\ f[0] = c
        /\ \A n \in 0..Len(blocks) : f[n] \in ContainersOK(cds)
        /\ \A n \in 1..Len(blocks) : f[n] = step[<<f[n - 1], n>>]
    BY <1>2 DEF AreSteps
  <2>2. \A n \in 0..Len(blocks) : f[n] = IF n = 0 THEN c ELSE ContainBlock(f[n - 1], blocks[n], cds)
    <3>1. \A n \in 0..Len(blocks) : n # 0 => n \in 1..Len(blocks) /\ n - 1 \in 0..Len(blocks)
      BY <1>0
    <3>2. QED
      BY <1>1, <2>1, <3>1
  <2>3. QED
    BY <2>1, <2>2
<1>4. PICK g : Goes(g) /\ do_container_freq(c, blocks, cds) = g[Len(blocks)]
  <2>1. do_container_freq(c, blocks, cds) = (CHOOSE g : Goes(g))[Len(blocks)]
    BY DEF do_container_freq
  <2> HIDE DEF Goes
  <2>2. QED
    BY <1>3, <2>1
<1>5. g[0] = c /\ \A n \in 1..Len(blocks) : g[n] = ContainBlock(g[n - 1], blocks[n], cds)
  <2>1. g = [n \in 0..Len(blocks) |-> IF n = 0 THEN c ELSE ContainBlock(g[n - 1], blocks[n], cds)]
    BY <1>4
  <2>2. 0 \in 0..Len(blocks) /\ \A n \in 1..Len(blocks) : n \in 0..Len(blocks) /\ n # 0
    BY <1>0
  <2>3. QED
    BY <2>1, <2>2
<1> HIDE DEF Goes
<1>6. ASSUME NEW n \in 1..Len(blocks), g[n - 1] \in ContainersOK(cds)
      PROVE  g[n] \in ContainersOK(cds)
  <2>1. g[n] = step[<<g[n - 1], n>>] /\ step[<<g[n - 1], n>>] \in ContainersOK(cds)
    BY <1>1, <1>5, <1>6
  <2>2. QED
    BY <2>1
<1>7. \A n \in 0..Len(blocks) : g[n] \in ContainersOK(cds)
  <2>1. 0..Len(blocks) \subseteq {n \in 0..Len(blocks) : g[n] \in ContainersOK(cds)}
    <3>1. 0 \in 0..Len(blocks) /\ \A n \in 1..Len(blocks) : n \in 0..Len(blocks)
      BY <1>0
    <3>2. QED
      BY <1>0, <1>5, <1>6, <3>1, UpTo
  <2>2. QED
    BY <2>1
<1>8. QED
  BY <1>4, <1>5, <1>7 DEF AreContained

LEMMA LoadsType ==
    ASSUME NEW vm \in Seq(Blocks)
    PROVE  LoadsOf(vm) \in Blocks
<1>1. DOMAIN vm = 1..Len(vm) /\ Len(vm) \in Nat /\ \A n \in 1..Len(vm) : vm[n] \in Blocks
  BY LenProperties, ElementOfSeq
<1>2. PICK f : f = [n \in 1..Len(vm) |-> FlattenSeq(Segments(vm[n]))]
  OBVIOUS
<1>3. \A n \in 1..Len(vm) : f[n] \in Blocks
  <2>1. ASSUME NEW n \in 1..Len(vm)
        PROVE  FlattenSeq(Segments(vm[n])) \in Blocks
    <3>1. Segments(vm[n]) \in Seq(Blocks)
      BY <1>1, SegmentsType
    <3>2. QED
      BY <3>1, FlattenType DEF Blocks
  <2>2. QED
    BY <1>2, <2>1
<1>4. f = [n \in 1..Len(vm) |-> f[n]]
  BY <1>2
<1>5. FlattenSeq(f) \in Blocks
  BY <1>1, <1>3, <1>4, BlocksFunction
<1>6. QED
  BY <1>1, <1>2, <1>5 DEF LoadsOf, BlocksOf, FreqSegments

LEMMA ContainersOfVmOK ==
    ASSUME NEW cds, NEW c \in ContainersOK(cds), NEW vm \in Seq(Blocks)
    PROVE  ContainersOfVm(c, vm, cds) \in ContainersOK(cds)
<1>1. PICK d \in ContainersOK(cds) : d = [c EXCEPT !.vm_containers = {}, !.cds_containers = 0]
  BY NewVmOK
<1>2. PICK blocks \in Blocks : blocks = LoadsOf(vm)
  BY LoadsType
<1>3. PICK g : AreContained(g, d, blocks, cds) /\ do_container_freq(d, blocks, cds) = g[Len(blocks)]
  BY ContainedIs
<1>4. Len(blocks) \in 0..Len(blocks)
  BY LenProperties DEF Blocks
<1>5. g[Len(blocks)] \in ContainersOK(cds)
  BY <1>3, <1>4 DEF AreContained
<1>6. QED
  BY <1>1, <1>2, <1>3, <1>5 DEF ContainersOfVm

AreContainers(g, list, cds) ==
    /\ g[0] = NoContainers
    /\ \A n \in 0..Len(list) : g[n] \in ContainersOK(cds)
    /\ \A n \in 1..Len(list) : g[n] = ContainersOfVm(g[n - 1], list[n], cds)

LEMMA ContainersIs ==
    ASSUME NEW cds, NEW list \in Seq(Seq(Blocks))
    PROVE  \E g : AreContainers(g, list, cds) /\ ContainerFreqs(list, cds) = g[Len(list)]
<1> DEFINE step == [p \in ContainersOK(cds) \X (1..Len(list)) |-> ContainersOfVm(p[1], list[p[2]], cds)]
           Goes(f) == f = [n \in 0..Len(list) |-> IF n = 0 THEN NoContainers ELSE ContainersOfVm(f[n - 1], list[n], cds)]
<1>0. Len(list) \in Nat /\ NoContainers \in ContainersOK(cds)
  BY LenProperties, NoContainersOK
<1>1. ASSUME NEW x \in ContainersOK(cds), NEW n \in 1..Len(list)
      PROVE  step[<<x, n>>] = ContainersOfVm(x, list[n], cds) /\ step[<<x, n>>] \in ContainersOK(cds)
  <2>1. list[n] \in Seq(Blocks)
    BY ElementOfSeq
  <2>2. QED
    BY <2>1, ContainersOfVmOK
<1> HIDE DEF step
<1>2. PICK f : AreSteps(f, ContainersOK(cds), NoContainers, Len(list), step)
  BY <1>0, <1>1, StepsExist
<1>3. Goes(f)
  <2>1. /\ f = [n \in 0..Len(list) |-> f[n]] /\ f[0] = NoContainers
        /\ \A n \in 0..Len(list) : f[n] \in ContainersOK(cds)
        /\ \A n \in 1..Len(list) : f[n] = step[<<f[n - 1], n>>]
    BY <1>2 DEF AreSteps
  <2>2. \A n \in 0..Len(list) : f[n] = IF n = 0 THEN NoContainers ELSE ContainersOfVm(f[n - 1], list[n], cds)
    <3>1. \A n \in 0..Len(list) : n # 0 => n \in 1..Len(list) /\ n - 1 \in 0..Len(list)
      BY <1>0
    <3>2. QED
      BY <1>1, <2>1, <3>1
  <2>3. QED
    BY <2>1, <2>2
<1>4. PICK g : Goes(g) /\ ContainerFreqs(list, cds) = g[Len(list)]
  <2>1. ContainerFreqs(list, cds) = (CHOOSE g : Goes(g))[Len(list)]
    BY DEF ContainerFreqs
  <2> HIDE DEF Goes
  <2>2. QED
    BY <1>3, <2>1
<1>5. g[0] = NoContainers /\ \A n \in 1..Len(list) : g[n] = ContainersOfVm(g[n - 1], list[n], cds)
  <2>1. g = [n \in 0..Len(list) |-> IF n = 0 THEN NoContainers ELSE ContainersOfVm(g[n - 1], list[n], cds)]
    BY <1>4
  <2>2. 0 \in 0..Len(list) /\ \A n \in 1..Len(list) : n \in 0..Len(list) /\ n # 0
    BY <1>0
  <2>3. QED
    BY <2>1, <2>2
<1> HIDE DEF Goes
<1>6. ASSUME NEW n \in 1..Len(list), g[n - 1] \in ContainersOK(cds)
      PROVE  g[n] \in ContainersOK(cds)
  <2>1. g[n] = step[<<g[n - 1], n>>] /\ step[<<g[n - 1], n>>] \in ContainersOK(cds)
    BY <1>1, <1>5, <1>6
  <2>2. QED
    BY <2>1
<1>7. \A n \in 0..Len(list) : g[n] \in ContainersOK(cds)
  <2>1. 0..Len(list) \subseteq {n \in 0..Len(list) : g[n] \in ContainersOK(cds)}
    <3>1. 0 \in 0..Len(list) /\ \A n \in 1..Len(list) : n \in 0..Len(list)
      BY <1>0
    <3>2. QED
      BY <1>0, <1>5, <1>6, <3>1, UpTo
  <2>2. QED
    BY <2>1
<1>8. QED
  BY <1>4, <1>5, <1>7 DEF AreContainers

LEMMA VmsContainersRight ==
    ASSUME VmsOK, NEW cds
    PROVE  ContainersRight(cds)
<1>1. PICK c : c = ContainerFreqs(vms, cds)
  OBVIOUS
<1>2. c \in ContainersOK(cds)
  <2>1. vms \in Seq(Seq(Blocks))
    <3>1. Vm \subseteq Seq(Blocks) /\ vms \in Seq(Vm)
      BY DEF Vm, VmsOK
    <3>2. QED
      BY <3>1, SeqMonotonic
  <2>2. PICK g : AreContainers(g, vms, cds) /\ c = g[Len(vms)]
    BY <1>1, <2>1, ContainersIs
  <2>3. Len(vms) \in 0..Len(vms)
    BY <2>1, LenProperties
  <2>4. QED
    BY <2>2, <2>3 DEF AreContainers
<1>3. PICK index, num, offset, cnum, coffset :
          /\ index = c.container_index /\ num = c.container_num /\ offset = c.container_offset
          /\ cnum = c.cds_container_num /\ coffset = c.cds_container_offset
  OBVIOUS
<1>4. /\ IndexOK(index) /\ num \in Nat /\ offset \in Offsets /\ cnum \in Int \ Nat /\ coffset \in Offsets
      /\ Filling(index, num, offset) /\ CdsFilling(index, cnum, coffset) /\ OfOneKind(index, cds)
      /\ c.cds_containers = Cardinality({n \in c.vm_containers : n < 0})
  BY <1>2, <1>3, ContainersFields DEF ContainersAre
<1>5. CAPACITY \in Nat \ {0} /\ offset \in Nat /\ coffset \in Nat /\ offset < CAPACITY /\ coffset < CAPACITY
  BY <1>4, CapacityType DEF Offsets
<1>6. \A n : n \in Range(index) <=> Held(index, n) # {}
  BY DEF Range, Held
<1>7. \A n \in Range(index) : n \in Int
  BY <1>4 DEF IndexOK, IsMap, Range
<1>8. \A n : IsFiniteSet(Held(index, n)) /\ (Cardinality(Held(index, n)) = 0 <=> Held(index, n) = {})
  <2>1. \A n : Held(index, n) \in SUBSET DOMAIN index
    BY DEF Held
  <2>2. QED
    BY <1>4, <2>1, FS_Subset, FS_EmptySet DEF IndexOK, IsMap
<1>9. \A n \in Range(index) : Cardinality(Held(index, n)) <= CAPACITY
  <2>1. ASSUME NEW n \in Range(index)
        PROVE  Cardinality(Held(index, n)) <= CAPACITY
    <3>1. CASE n \in Nat
      <4>1. Cardinality(Held(index, n)) = IF n < num THEN CAPACITY ELSE IF n = num THEN offset ELSE 0
        BY <1>4, <3>1 DEF Filling
      <4>2. QED
        BY <1>5, <4>1
    <3>2. CASE n \notin Nat
      <4>1. Cardinality(Held(index, n)) = IF n > cnum THEN CAPACITY ELSE IF n = cnum THEN coffset ELSE 0
        BY <1>4, <1>7, <3>2 DEF CdsFilling
      <4>2. QED
        BY <1>5, <4>1
    <3>3. QED
      BY <3>1, <3>2
  <2>2. QED
    BY <2>1
<1>10. \A n \in Range(index) : IF n < 0 THEN Held(index, n) \subseteq cds ELSE Held(index, n) \cap cds = {}
  BY <1>4, <1>7 DEF OfOneKind
<1>11. Cardinality({n \in Range(index) : n >= 0}) = num + (IF offset > 0 THEN 1 ELSE 0)
  <2>1. \A n \in Nat : n \in Range(index) <=> (n < num \/ (n = num /\ offset > 0))
    <3>1. ASSUME NEW n \in Nat
          PROVE  n \in Range(index) <=> (n < num \/ (n = num /\ offset > 0))
      <4>1. Cardinality(Held(index, n)) = IF n < num THEN CAPACITY ELSE IF n = num THEN offset ELSE 0
        BY <1>4 DEF Filling
      <4>2. n \in Range(index) <=> Cardinality(Held(index, n)) # 0
        BY <1>6, <1>8
      <4>3. QED
        BY <1>5, <4>1, <4>2
    <3>2. QED
      BY <3>1
  <2>2. PICK m \in Int : m = IF offset > 0 THEN num ELSE num - 1
    BY <1>4
  <2>3. {n \in Range(index) : n >= 0} = 0..m
    BY <1>4, <1>7, <2>1, <2>2
  <2>4. Cardinality(0..m) = m + 1
    <3>1. Cardinality(0..m) = IF 0 > m THEN 0 ELSE m - 0 + 1
      BY FS_Interval
    <3>2. 0 > m => m + 1 = 0
      BY <1>4, <2>2
    <3>3. QED
      BY <3>1, <3>2
  <2>5. m + 1 = num + (IF offset > 0 THEN 1 ELSE 0)
    BY <1>4, <1>5, <2>2
  <2>6. QED
    BY <2>3, <2>4, <2>5
<1>12. Cardinality({n \in Range(index) : n < 0}) = -cnum - 1 + (IF coffset > 0 THEN 1 ELSE 0)
  <2>1. \A n \in Int \ Nat : n \in Range(index) <=> (n > cnum \/ (n = cnum /\ coffset > 0))
    <3>1. ASSUME NEW n \in Int \ Nat
          PROVE  n \in Range(index) <=> (n > cnum \/ (n = cnum /\ coffset > 0))
      <4>1. Cardinality(Held(index, n)) = IF n > cnum THEN CAPACITY ELSE IF n = cnum THEN coffset ELSE 0
        BY <1>4 DEF CdsFilling
      <4>2. n \in Range(index) <=> Cardinality(Held(index, n)) # 0
        BY <1>6, <1>8
      <4>3. QED
        BY <1>5, <4>1, <4>2
    <3>2. QED
      BY <3>1
  <2>2. PICK m \in Int : m = IF coffset > 0 THEN cnum ELSE cnum + 1
    BY <1>4
  <2>3. {n \in Range(index) : n < 0} = m..(-1)
    BY <1>4, <1>7, <2>1, <2>2
  <2>4. Cardinality(m..(-1)) = -m
    <3>1. Cardinality(m..(-1)) = IF m > -1 THEN 0 ELSE -1 - m + 1
      BY FS_Interval
    <3>2. m > -1 => m = 0
      BY <1>4, <2>2
    <3>3. QED
      BY <3>1, <3>2
  <2>5. -m = -cnum - 1 + (IF coffset > 0 THEN 1 ELSE 0)
    BY <1>4, <1>5, <2>2
  <2>6. QED
    BY <2>3, <2>4, <2>5
<1>13. QED
  BY <1>1, <1>3, <1>4, <1>9, <1>10, <1>11, <1>12
     DEF ContainersRight, NonCdsContainers, CdsContainers, Held

-----------------------------------------------------------------------------
(***************************************************************************)
(* Counters.                                                               *)
(***************************************************************************)
OneMoreOf(d, c, e, K) ==
    /\ IsMap(d, K, Nat)
    /\ DOMAIN d = DOMAIN c \cup {e}
    /\ d[e] = (IF e \in DOMAIN c THEN c[e] ELSE 0) + 1
    /\ \A x \in DOMAIN c \ {e} : d[x] = c[x]

LEMMA IncrementedIs ==
    ASSUME NEW K, NEW c, IsMap(c, K, Nat), NEW e \in K
    PROVE  OneMoreOf(Incremented(c, e), c, e, K)
<1>1. PICK d : d = Incremented(c, e)
  OBVIOUS
<1>2. d = [x \in DOMAIN c \cup {e} |->
              IF x # e THEN c[x] ELSE IF e \in DOMAIN c THEN c[e] + 1 ELSE 1]
  BY <1>1 DEF Incremented
<1>3. /\ DOMAIN c \in SUBSET K /\ IsFiniteSet(DOMAIN c) /\ \A x \in DOMAIN c : c[x] \in Nat
  BY DEF IsMap
<1>4. DOMAIN d = DOMAIN c \cup {e} /\ d = [x \in DOMAIN d |-> d[x]]
  BY <1>2
<1>5. d[e] = (IF e \in DOMAIN c THEN c[e] ELSE 0) + 1 /\ d[e] \in Nat
  BY <1>2, <1>3
<1>6. \A x \in DOMAIN c \ {e} : d[x] = c[x]
  BY <1>2
<1>7. IsFiniteSet(DOMAIN d) /\ DOMAIN d \in SUBSET K
  BY <1>3, <1>4, FS_AddElement
<1>8. \A x \in DOMAIN d : d[x] \in Nat
  BY <1>3, <1>4, <1>5, <1>6
<1>9. IsMap(d, K, Nat)
  BY <1>4, <1>7, <1>8 DEF IsMap
<1>10. QED
  BY <1>1, <1>4, <1>5, <1>6, <1>9 DEF OneMoreOf

(* A sum of which one term has grown, or is new. *)
Changes(f, g, D, e, k) ==
    /\ \A x \in D : f[x] \in Nat
    /\ \A x \in D \ {e} : g[x] = f[x]
    /\ g[e] = (IF e \in D THEN f[e] ELSE 0) + k

LEMMA SumChanged ==
    ASSUME NEW D, IsFiniteSet(D), NEW f, NEW e, NEW k \in Nat, NEW g, Changes(f, g, D, e, k)
    PROVE  SumFunctionOnSet(g, D \cup {e}) = SumFunctionOnSet(f, D) + k
<1>0. /\ \A x \in D : f[x] \in Nat
      /\ \A x \in D \ {e} : g[x] = f[x]
      /\ g[e] = (IF e \in D THEN f[e] ELSE 0) + k
  BY DEF Changes
<1>1. CASE e \in D
  <2>1. D \cup {e} = D /\ g[e] = f[e] + k
    BY <1>0, <1>1
  <2>2. QED
    BY <1>0, <1>1, <2>1, SumGrows
<1>2. CASE e \notin D
  <2>1. g[e] = k /\ \A x \in D : f[x] = g[x]
    BY <1>0, <1>2
  <2>2. \A x \in D \cup {e} : g[x] \in Nat
    BY <1>0, <2>1
  <2>3. SumFunctionOnSet(g, D \cup {e}) = g[e] + SumFunctionOnSet(f, D)
    <3>1. SumFunctionOnSet(g, D \cup {e}) = g[e] + SumFunctionOnSet(g, D)
      BY <1>2, <2>2, SumAdd
    <3>2. SumFunctionOnSet(g, D) = SumFunctionOnSet(f, D)
      BY <1>0, <2>1, SumSame
    <3>3. QED
      BY <3>1, <3>2
  <2>4. SumFunctionOnSet(f, D) \in Nat
    BY <1>0, SumType
  <2>5. QED
    BY <2>1, <2>3, <2>4
<1>3. QED
  BY <1>1, <1>2

LEMMA IncrementedSum ==
    ASSUME NEW K, NEW c, IsMap(c, K, Nat), NEW e \in K
    PROVE  /\ SumFunction(c) \in Nat
           /\ SumFunction(Incremented(c, e)) = SumFunction(c) + 1
<1>1. IsFiniteSet(DOMAIN c) /\ \A x \in DOMAIN c : c[x] \in Nat
  BY DEF IsMap
<1>2. PICK d : d = Incremented(c, e)
  OBVIOUS
<1>3. /\ DOMAIN d = DOMAIN c \cup {e}
      /\ d[e] = (IF e \in DOMAIN c THEN c[e] ELSE 0) + 1
      /\ \A x \in DOMAIN c \ {e} : d[x] = c[x]
  <2>1. OneMoreOf(Incremented(c, e), c, e, K)
    BY IncrementedIs
  <2>2. QED
    BY <1>2, <2>1 DEF OneMoreOf
<1>4. SumFunctionOnSet(d, DOMAIN c \cup {e}) = SumFunctionOnSet(c, DOMAIN c) + 1
  <2>1. Changes(c, d, DOMAIN c, e, 1)
    BY <1>1, <1>3 DEF Changes
  <2>2. QED
    BY <1>1, <2>1, SumChanged
<1>5. SumFunctionOnSet(c, DOMAIN c) \in Nat
  BY <1>1, SumType
<1>6. QED
  BY <1>2, <1>3, <1>4, <1>5 DEF SumFunction

(* The look-ups of runs, from the counts of their lengths. *)
Weighted(lens) == [n \in DOMAIN lens |-> n * lens[n]]

LEMMA TerminatedSum ==
    ASSUME NEW lens, IsMap(lens, Nat, Nat), NEW k \in Nat
    PROVE  /\ IsMap(Terminated(lens, k), Nat, Nat)
           /\ SumFunction(Weighted(lens)) \in Nat
           /\ SumFunction(Weighted(Terminated(lens, k))) = SumFunction(Weighted(lens)) + k
<1>1. PICK D : D = DOMAIN lens /\ IsFiniteSet(D) /\ D \in SUBSET Nat /\ \A x \in D : lens[x] \in Nat
  BY DEF IsMap
<1>2. PICK f : f = Weighted(lens)
  OBVIOUS
<1>3. DOMAIN f = D /\ \A x \in D : f[x] = x * lens[x] /\ f[x] \in Nat
  <2>1. DOMAIN f = D /\ \A x \in D : f[x] = x * lens[x]
    BY <1>1, <1>2 DEF Weighted
  <2>2. \A x \in D : x * lens[x] \in Nat
    BY <1>1, OneMore
  <2>3. QED
    BY <2>1, <2>2
<1>4. SumFunction(f) = SumFunctionOnSet(f, D) /\ SumFunctionOnSet(f, D) \in Nat
  BY <1>1, <1>3, SumType DEF SumFunction
<1>5. CASE k = 0
  <2>1. Terminated(lens, k) = lens
    BY <1>5 DEF Terminated
  <2>2. QED
    BY <1>2, <1>4, <1>5, <2>1
<1>6. CASE k # 0
  <2>1. PICK d : d = Terminated(lens, k) /\ d = Incremented(lens, k)
    BY <1>6 DEF Terminated
  <2>2. /\ IsMap(d, Nat, Nat) /\ DOMAIN d = D \cup {k}
        /\ d[k] = (IF k \in D THEN lens[k] ELSE 0) + 1
        /\ \A x \in D \ {k} : d[x] = lens[x]
    <3>1. OneMoreOf(Incremented(lens, k), lens, k, Nat)
      BY IncrementedIs
    <3>2. QED
      BY <1>1, <2>1, <3>1 DEF OneMoreOf
  <2>3. PICK g : g = Weighted(d)
    OBVIOUS
  <2>4. DOMAIN g = D \cup {k} /\ \A x \in D \cup {k} : g[x] = x * d[x]
    BY <2>2, <2>3 DEF Weighted
  <2>5. \A x \in D \ {k} : g[x] = f[x]
    BY <1>3, <2>2, <2>4
  <2>6. g[k] = (IF k \in D THEN f[k] ELSE 0) + k
    <3>1. PICK m \in Nat : m = IF k \in D THEN lens[k] ELSE 0
      BY <1>1
    <3>2. g[k] = k * (m + 1)
      BY <2>2, <2>4, <3>1
    <3>3. k * (m + 1) = k * m + k /\ k * 0 = 0
      <4>1. (m + 1) * k = m * k + k /\ 0 * k = 0
        BY <3>1, OneMore
      <4>2. k * (m + 1) = (m + 1) * k /\ k * m = m * k /\ k * 0 = 0 * k
        BY <3>1
      <4>3. QED
        BY <4>1, <4>2
    <3>4. k * m = IF k \in D THEN f[k] ELSE 0
      BY <1>3, <3>1, <3>3
    <3>5. QED
      BY <3>2, <3>3, <3>4
  <2>7. SumFunctionOnSet(g, D \cup {k}) = SumFunctionOnSet(f, D) + k
    <3>1. Changes(f, g, D, k, k)
      BY <1>3, <2>5, <2>6 DEF Changes
    <3>2. QED
      BY <1>1, <3>1, SumChanged
  <2>8. QED
    BY <1>2, <1>4, <2>1, <2>2, <2>3, <2>4, <2>7 DEF SumFunction
<1>7. QED
  BY <1>5, <1>6

(* A map after some blocks have been counted. *)
Added(u, t) == [b \in DOMAIN u \cup Range(t) |-> (IF b \in DOMAIN u THEN u[b] ELSE 0) + CountOf(t, b)]

LEMMA AddedEmpty ==
    ASSUME NEW u, IsMap(u, Block, Nat)
    PROVE  Added(u, << >>) = u
<1>1. Range(<< >>) = {} /\ \A b : CountOf(<< >>, b) = 0
  BY EmptyRange, CountEmpty
<1>2. /\ \A x \in DOMAIN u : u[x] \in Nat
      /\ u = [x \in DOMAIN u |-> u[x]]
  BY DEF IsMap
<1>3. Added(u, << >>) = [b \in DOMAIN u |-> u[b] + 0]
  BY <1>1 DEF Added
<1>4. QED
  BY <1>2, <1>3

LEMMA AddedAppend ==
    ASSUME NEW u, IsMap(u, Block, Nat), NEW t \in Seq(Block), NEW e \in Block
    PROVE  Incremented(Added(u, t), e) = Added(u, Append(t, e))
<1>1. PICK c, d, a : c = Added(u, t) /\ d = Incremented(c, e) /\ a = Added(u, Append(t, e))
  OBVIOUS
<1>2. \A x \in DOMAIN u : u[x] \in Nat
  BY DEF IsMap
<1>3. Range(Append(t, e)) = Range(t) \cup {e}
  BY RangeAppend
<1>4. \A b : CountOf(t, b) \in Nat /\ CountOf(Append(t, e), b) = CountOf(t, b) + (IF e = b THEN 1 ELSE 0)
  BY CountAppend
<1>5. \A b : b \notin Range(t) => CountOf(t, b) = 0
  <2>1. ASSUME NEW b, b \notin Range(t)
        PROVE  CountOf(t, b) = 0
    <3>1. {n \in DOMAIN t : t[n] = b} = {}
      BY <2>1 DEF Range
    <3>2. QED
      BY <3>1, FS_EmptySet DEF CountOf
  <2>2. QED
    BY <2>1
<1>6. DOMAIN c = DOMAIN u \cup Range(t)
      /\ \A b \in DOMAIN c : c[b] = (IF b \in DOMAIN u THEN u[b] ELSE 0) + CountOf(t, b)
  BY <1>1 DEF Added
<1>7. d = [x \in DOMAIN c \cup {e} |-> IF x # e THEN c[x] ELSE IF e \in DOMAIN c THEN c[e] + 1 ELSE 1]
  BY <1>1 DEF Incremented
<1>8. a = [b \in DOMAIN u \cup (Range(t) \cup {e}) |->
              (IF b \in DOMAIN u THEN u[b] ELSE 0) + CountOf(Append(t, e), b)]
  BY <1>1, <1>3 DEF Added
<1>9. DOMAIN d = DOMAIN a
  BY <1>6, <1>7, <1>8
<1>10. ASSUME NEW b \in DOMAIN a
       PROVE  d[b] = a[b]
  <2>1. PICK m \in Nat, k \in Nat : m = (IF b \in DOMAIN u THEN u[b] ELSE 0) /\ k = CountOf(t, b)
    BY <1>2, <1>4
  <2>2. a[b] = m + (k + IF e = b THEN 1 ELSE 0)
    BY <1>4, <1>8, <2>1
  <2>3. CASE b # e
    <3>1. d[b] = c[b] /\ b \in DOMAIN c
      BY <1>6, <1>7, <1>8, <2>3
    <3>2. QED
      BY <1>6, <2>1, <2>2, <2>3, <3>1
  <2>4. CASE b = e /\ e \in DOMAIN c
    <3>1. d[b] = c[b] + 1 /\ c[b] = m + k
      BY <1>6, <1>7, <1>8, <2>1, <2>4
    <3>2. QED
      BY <2>1, <2>2, <2>4, <3>1
  <2>5. CASE b = e /\ e \notin DOMAIN c
    <3>1. d[b] = 1 /\ m = 0 /\ k = 0
      BY <1>5, <1>6, <1>7, <1>8, <2>1, <2>5
    <3>2. QED
      BY <2>2, <2>5, <3>1
  <2>6. QED
    BY <2>3, <2>4, <2>5
<1>11. d = [b \in DOMAIN d |-> d[b]] /\ a = [b \in DOMAIN a |-> a[b]]
  BY <1>7, <1>8
<1>12. d = a
  BY <1>9, <1>10, <1>11
<1>13. QED
  BY <1>1, <1>12

-----------------------------------------------------------------------------
(***************************************************************************)
(* Lengths of runs.                                                        *)
(***************************************************************************)
RunStates ==
    [hits : Nat, misses : Nat, hit_lens : Maps(Nat, Nat), miss_lens : Maps(Nat, Nat)]

LookUpsOf(lens) == SumFunction(Weighted(lens))

(* After q look-ups, m of them misses. *)
RunOK(r, q, m) ==
    /\ r.hits \in Nat /\ r.misses \in Nat
    /\ IsMap(r.hit_lens, Nat, Nat) /\ IsMap(r.miss_lens, Nat, Nat)
    /\ r.hits = 0 \/ r.misses = 0
    /\ LookUpsOf(r.hit_lens) + LookUpsOf(r.miss_lens) + r.hits + r.misses = q
    /\ LookUpsOf(r.miss_lens) + r.misses = m

LEMMA RunFields ==
    ASSUME NEW r
    PROVE  r \in RunStates <=>
              /\ r = [hits |-> r.hits, misses |-> r.misses, hit_lens |-> r.hit_lens,
                      miss_lens |-> r.miss_lens]
              /\ r.hits \in Nat /\ r.misses \in Nat
              /\ IsMap(r.hit_lens, Nat, Nat) /\ IsMap(r.miss_lens, Nat, Nat)
<1>1. \A l : l \in Maps(Nat, Nat) <=> IsMap(l, Nat, Nat)
  BY MapIs
<1>2. QED
  BY <1>1 DEF RunStates

LEMMA RunMade ==
    ASSUME NEW r, r = [x \in DOMAIN r |-> r[x]],
           DOMAIN r = {"hits", "misses", "hit_lens", "miss_lens"}
    PROVE  r = [hits |-> r.hits, misses |-> r.misses, hit_lens |-> r.hit_lens,
                miss_lens |-> r.miss_lens]
OBVIOUS

LEMMA CounterHit ==
    ASSUME NEW r \in RunStates, NEW q \in Nat, NEW m \in Nat, RunOK(r, q, m)
    PROVE  /\ save_counter(r, TRUE) \in RunStates
           /\ RunOK(save_counter(r, TRUE), q + 1, m)
<1>1. PICK a, b, h, l : r = [hits |-> a, misses |-> b, hit_lens |-> h, miss_lens |-> l]
  BY RunFields
<1>2. /\ a \in Nat /\ b \in Nat /\ IsMap(h, Nat, Nat) /\ IsMap(l, Nat, Nat) /\ (a = 0 \/ b = 0)
      /\ LookUpsOf(h) + LookUpsOf(l) + a + b = q /\ LookUpsOf(l) + b = m
  BY <1>1 DEF RunOK
<1>3. PICK B, L : B = (IF a = 0 THEN 0 ELSE b) /\ L = (IF a = 0 THEN Terminated(l, b) ELSE l)
  OBVIOUS
<1>4. PICK x : x = save_counter(r, TRUE)
  OBVIOUS
<1>5. x = [r EXCEPT !.hits = a + 1, !.misses = B, !.miss_lens = L]
  BY <1>1, <1>3, <1>4 DEF save_counter
<1>6. /\ x = [i \in DOMAIN x |-> x[i]] /\ DOMAIN x = {"hits", "misses", "hit_lens", "miss_lens"}
      /\ x.hits = a + 1 /\ x.misses = B /\ x.hit_lens = h /\ x.miss_lens = L
  BY <1>1, <1>5
<1>7. PICK u \in Nat, v \in Nat, w \in Nat : u = LookUpsOf(h) /\ v = LookUpsOf(l) /\ w = LookUpsOf(L)
  <2>1. LookUpsOf(h) \in Nat /\ LookUpsOf(l) \in Nat
    BY <1>2, TerminatedSum DEF LookUpsOf
  <2>2. LookUpsOf(Terminated(l, b)) = LookUpsOf(l) + b
    BY <1>2, TerminatedSum DEF LookUpsOf
  <2>3. LookUpsOf(L) \in Nat
    BY <1>2, <1>3, <2>1, <2>2
  <2>4. QED
    BY <2>1, <2>3
<1>8. w + B = v + b
  <2>1. CASE a = 0
    <3>1. LookUpsOf(Terminated(l, b)) = LookUpsOf(l) + b
      BY <1>2, TerminatedSum DEF LookUpsOf
    <3>2. QED
      BY <1>2, <1>3, <1>7, <2>1, <3>1
  <2>2. CASE a # 0
    BY <1>3, <1>7, <2>2
  <2>3. QED
    BY <2>1, <2>2
<1>9. B = 0 /\ IsMap(L, Nat, Nat)
  BY <1>2, <1>3, TerminatedSum
<1>10. u + w + (a + 1) + B = q + 1 /\ w + B = m
  BY <1>2, <1>7, <1>8, <1>9
<1>11. RunOK(x, q + 1, m)
  BY <1>2, <1>6, <1>7, <1>9, <1>10 DEF RunOK
<1>12. x \in RunStates
  <2>1. a + 1 \in Nat /\ B \in Nat
    BY <1>2, <1>9
  <2>2. QED
    BY <1>2, <1>6, <1>9, <2>1, RunMade, RunFields
<1>13. QED
  BY <1>4, <1>11, <1>12

LEMMA CounterMiss ==
    ASSUME NEW r \in RunStates, NEW q \in Nat, NEW m \in Nat, RunOK(r, q, m)
    PROVE  /\ save_counter(r, FALSE) \in RunStates
           /\ RunOK(save_counter(r, FALSE), q + 1, m + 1)
<1>1. PICK a, b, h, l : r = [hits |-> a, misses |-> b, hit_lens |-> h, miss_lens |-> l]
  BY RunFields
<1>2. /\ a \in Nat /\ b \in Nat /\ IsMap(h, Nat, Nat) /\ IsMap(l, Nat, Nat) /\ (a = 0 \/ b = 0)
      /\ LookUpsOf(h) + LookUpsOf(l) + a + b = q /\ LookUpsOf(l) + b = m
  BY <1>1 DEF RunOK
<1>3. PICK A, H : A = (IF b = 0 THEN 0 ELSE a) /\ H = (IF b = 0 THEN Terminated(h, a) ELSE h)
  OBVIOUS
<1>4. PICK x : x = save_counter(r, FALSE)
  OBVIOUS
<1>5. x = [r EXCEPT !.misses = b + 1, !.hits = A, !.hit_lens = H]
  BY <1>1, <1>3, <1>4 DEF save_counter
<1>6. /\ x = [i \in DOMAIN x |-> x[i]] /\ DOMAIN x = {"hits", "misses", "hit_lens", "miss_lens"}
      /\ x.hits = A /\ x.misses = b + 1 /\ x.hit_lens = H /\ x.miss_lens = l
  BY <1>1, <1>5
<1>7. PICK u \in Nat, v \in Nat, w \in Nat : u = LookUpsOf(h) /\ v = LookUpsOf(l) /\ w = LookUpsOf(H)
  <2>1. LookUpsOf(h) \in Nat /\ LookUpsOf(l) \in Nat
    BY <1>2, TerminatedSum DEF LookUpsOf
  <2>2. LookUpsOf(Terminated(h, a)) = LookUpsOf(h) + a
    BY <1>2, TerminatedSum DEF LookUpsOf
  <2>3. LookUpsOf(H) \in Nat
    BY <1>2, <1>3, <2>1, <2>2
  <2>4. QED
    BY <2>1, <2>3
<1>8. w + A = u + a
  <2>1. CASE b = 0
    <3>1. LookUpsOf(Terminated(h, a)) = LookUpsOf(h) + a
      BY <1>2, TerminatedSum DEF LookUpsOf
    <3>2. QED
      BY <1>2, <1>3, <1>7, <2>1, <3>1
  <2>2. CASE b # 0
    BY <1>3, <1>7, <2>2
  <2>3. QED
    BY <2>1, <2>2
<1>9. A = 0 /\ IsMap(H, Nat, Nat)
  BY <1>2, <1>3, TerminatedSum
<1>10. w + v + A + (b + 1) = q + 1 /\ v + (b + 1) = m + 1
  BY <1>2, <1>7, <1>8, <1>9
<1>11. RunOK(x, q + 1, m + 1)
  BY <1>2, <1>6, <1>7, <1>9, <1>10 DEF RunOK
<1>12. x \in RunStates
  <2>1. b + 1 \in Nat /\ A \in Nat
    BY <1>2, <1>9
  <2>2. QED
    BY <1>2, <1>6, <1>9, <2>1, RunMade, RunFields
<1>13. QED
  BY <1>4, <1>11, <1>12

HitStates == [ublks : Maps(Block, Nat), runs : RunStates, segRuns : RunStates]

(* After the look-ups of the blocks t, in k segments. *)
HitOK(s, store, t, k) ==
    /\ s \in HitStates
    /\ s.ublks = Added(store, t)
    /\ SumFunction(s.ublks) = SumFunction(store) + Len(t)
    /\ IsFiniteSet(DOMAIN s.ublks \ DOMAIN store)
    /\ RunOK(s.runs, Len(t), Cardinality(DOMAIN s.ublks \ DOMAIN store))
    /\ \E m \in Nat : RunOK(s.segRuns, k, m)

LEMMA HitFields ==
    ASSUME NEW s \in HitStates
    PROVE  /\ s = [ublks |-> s.ublks, runs |-> s.runs, segRuns |-> s.segRuns]
           /\ IsMap(s.ublks, Block, Nat) /\ s.runs \in RunStates /\ s.segRuns \in RunStates
<1>1. s.ublks \in Maps(Block, Nat)
  BY DEF HitStates
<1>2. IsMap(s.ublks, Block, Nat)
  BY <1>1, MapIs
<1>3. QED
  BY <1>2 DEF HitStates

LEMMA HitMade ==
    ASSUME NEW s, s = [x \in DOMAIN s |-> s[x]], DOMAIN s = {"ublks", "runs", "segRuns"},
           IsMap(s.ublks, Block, Nat), s.runs \in RunStates, s.segRuns \in RunStates
    PROVE  s \in HitStates
<1>1. s.ublks \in Maps(Block, Nat)
  BY MapIs
<1>2. s = [ublks |-> s.ublks, runs |-> s.runs, segRuns |-> s.segRuns]
  OBVIOUS
<1>3. QED
  BY <1>1, <1>2 DEF HitStates

LEMMA HitOrMissOK ==
    ASSUME NEW store, IsMap(store, Block, Nat), NEW t \in Blocks, NEW k, NEW s, HitOK(s, store, t, k),
           NEW b \in Block
    PROVE  HitOK(HitOrMiss(s, b), store, Append(t, b), k)
<1>1. PICK u, r, w : s = [ublks |-> u, runs |-> r, segRuns |-> w]
  BY HitFields DEF HitOK
<1>2. /\ IsMap(u, Block, Nat) /\ r \in RunStates /\ w \in RunStates /\ u = Added(store, t)
      /\ SumFunction(u) = SumFunction(store) + Len(t)
      /\ IsFiniteSet(DOMAIN u \ DOMAIN store)
      /\ RunOK(r, Len(t), Cardinality(DOMAIN u \ DOMAIN store))
      /\ \E m \in Nat : RunOK(w, k, m)
  BY <1>1, HitFields DEF HitOK
<1>3. /\ Len(t) \in Nat /\ Len(Append(t, b)) = Len(t) + 1 /\ t \in Seq(Block)
      /\ SumFunction(store) \in Nat
  <2>1. t \in Seq(Block)
    BY DEF Blocks
  <2>2. QED
    BY <2>1, LenProperties, AppendProperties, IncrementedSum
<1>4. PICK U : U = Incremented(u, b)
  OBVIOUS
<1>5. /\ IsMap(U, Block, Nat) /\ DOMAIN U = DOMAIN u \cup {b} /\ U = Added(store, Append(t, b))
      /\ SumFunction(U) = SumFunction(store) + Len(Append(t, b))
  <2>1. OneMoreOf(U, u, b, Block)
    BY <1>2, <1>4, IncrementedIs
  <2>2. U = Added(store, Append(t, b))
    BY <1>2, <1>3, <1>4, AddedAppend
  <2>3. SumFunction(U) = SumFunction(u) + 1
    BY <1>2, <1>4, IncrementedSum
  <2>4. QED
    BY <1>2, <1>3, <2>1, <2>2, <2>3 DEF OneMoreOf
<1>6. DOMAIN store \subseteq DOMAIN u
  BY <1>2 DEF Added
<1>7. PICK N, M : N = DOMAIN u \ DOMAIN store /\ M = DOMAIN U \ DOMAIN store
  OBVIOUS
<1>8. PICK m \in Nat : m = Cardinality(N)
  BY <1>2, <1>7, FS_CardinalityType
<1>9. PICK x : x = HitOrMiss(s, b)
  OBVIOUS
<1>10. PICK R : R = save_counter(r, b \in DOMAIN u)
  OBVIOUS
<1>11. x = [s EXCEPT !.ublks = U, !.runs = R]
  BY <1>1, <1>4, <1>9, <1>10 DEF HitOrMiss
<1>12. /\ x = [i \in DOMAIN x |-> x[i]] /\ DOMAIN x = {"ublks", "runs", "segRuns"}
       /\ x.ublks = U /\ x.runs = R /\ x.segRuns = w
  BY <1>1, <1>11
<1>13. R \in RunStates /\ IsFiniteSet(M) /\ RunOK(R, Len(t) + 1, Cardinality(M))
  <2>1. CASE b \in DOMAIN u
    <3>1. R = save_counter(r, TRUE)
      BY <1>10, <2>1 DEF save_counter
    <3>2. M = N
      BY <1>5, <1>7, <2>1
    <3>3. R \in RunStates /\ RunOK(R, Len(t) + 1, m)
      BY <1>2, <1>3, <1>7, <1>8, <3>1, CounterHit
    <3>4. QED
      BY <1>2, <1>7, <1>8, <3>2, <3>3
  <2>2. CASE b \notin DOMAIN u
    <3>1. R = save_counter(r, FALSE)
      BY <1>10, <2>2 DEF save_counter
    <3>2. M = N \cup {b} /\ b \notin N
      BY <1>5, <1>6, <1>7, <2>2
    <3>3. R \in RunStates /\ RunOK(R, Len(t) + 1, m + 1)
      BY <1>2, <1>3, <1>7, <1>8, <3>1, CounterMiss
    <3>4. IsFiniteSet(N)
      BY <1>2, <1>7
    <3>5. IsFiniteSet(M) /\ Cardinality(M) = m + 1
      BY <1>8, <3>2, <3>4, FS_AddElement
    <3>6. QED
      BY <3>3, <3>5
  <2>3. QED
    BY <2>1, <2>2
<1>14. x \in HitStates
  BY <1>2, <1>5, <1>12, <1>13, HitMade
<1>15. HitOK(x, store, Append(t, b), k)
  BY <1>2, <1>3, <1>5, <1>7, <1>12, <1>13, <1>14 DEF HitOK
<1>16. QED
  BY <1>9, <1>15

(* All the states of a run that began with the store. *)
HitsFrom(store) == {s \in HitStates : \E t \in Blocks, k \in Nat : HitOK(s, store, t, k)}

AreHits(g, s, store, seg) ==
    /\ g[0] = s
    /\ \A n \in 0..Len(seg) : g[n] \in HitsFrom(store)
    /\ \A n \in 1..Len(seg) : g[n] = HitOrMiss(g[n - 1], seg[n])

LEMMA HitsOrMissesIs ==
    ASSUME NEW store, IsMap(store, Block, Nat), NEW s \in HitsFrom(store), NEW seg \in Blocks
    PROVE  \E g : AreHits(g, s, store, seg) /\ HitsOrMisses(s, seg) = g[Len(seg)]
<1> DEFINE step == [p \in HitsFrom(store) \X (1..Len(seg)) |-> HitOrMiss(p[1], seg[p[2]])]
           Goes(f) == f = [n \in 0..Len(seg) |-> IF n = 0 THEN s ELSE HitOrMiss(f[n - 1], seg[n])]
<1>0. Len(seg) \in Nat /\ s \in HitsFrom(store)
  BY LenProperties DEF Blocks
<1>1. ASSUME NEW x \in HitsFrom(store), NEW n \in 1..Len(seg)
      PROVE  step[<<x, n>>] = HitOrMiss(x, seg[n]) /\ step[<<x, n>>] \in HitsFrom(store)
  <2>1. PICK b \in Block : b = seg[n]
    BY ElementOfSeq DEF Blocks
  <2>2. PICK t \in Blocks, k \in Nat : HitOK(x, store, t, k)
    BY <1>1 DEF HitsFrom
  <2>3. HitOK(HitOrMiss(x, b), store, Append(t, b), k)
    BY <2>2, HitOrMissOK
  <2>4. Append(t, b) \in Blocks
    BY AppendProperties DEF Blocks
  <2>5. HitOrMiss(x, b) \in HitsFrom(store)
    BY <2>3, <2>4 DEF HitsFrom, HitOK
  <2>6. QED
    BY <2>1, <2>5
<1> HIDE DEF step
<1>2. PICK f : AreSteps(f, HitsFrom(store), s, Len(seg), step)
  BY <1>0, <1>1, StepsExist
<1>3. Goes(f)
  <2>1. /\ f = [n \in 0..Len(seg) |-> f[n]] /\ f[0] = s
        /\ \A n \in 0..Len(seg) : f[n] \in HitsFrom(store)
        /\ \A n \in 1..Len(seg) : f[n] = step[<<f[n - 1], n>>]
    BY <1>2 DEF AreSteps
  <2>2. \A n \in 0..Len(seg) : f[n] = IF n = 0 THEN s ELSE HitOrMiss(f[n - 1], seg[n])
    <3>1. \A n \in 0..Len(seg) : n # 0 => n \in 1..Len(seg) /\ n - 1 \in 0..Len(seg)
      BY <1>0
    <3>2. QED
      BY <1>1, <2>1, <3>1
  <2>3. QED
    BY <2>1, <2>2
<1>4. PICK g : Goes(g) /\ HitsOrMisses(s, seg) = g[Len(seg)]
  <2>1. HitsOrMisses(s, seg) = (CHOOSE g : Goes(g))[Len(seg)]
    BY DEF HitsOrMisses
  <2> HIDE DEF Goes
  <2>2. QED
    BY <1>3, <2>1
<1>5. g[0] = s /\ \A n \in 1..Len(seg) : g[n] = HitOrMiss(g[n - 1], seg[n])
  <2>1. g = [n \in 0..Len(seg) |-> IF n = 0 THEN s ELSE HitOrMiss(g[n - 1], seg[n])]
    BY <1>4
  <2>2. 0 \in 0..Len(seg) /\ \A n \in 1..Len(seg) : n \in 0..Len(seg) /\ n # 0
    BY <1>0
  <2>3. QED
    BY <2>1, <2>2
<1> HIDE DEF Goes
<1>6. ASSUME NEW n \in 1..Len(seg), g[n - 1] \in HitsFrom(store)
      PROVE  g[n] \in HitsFrom(store)
  <2>1. g[n] = step[<<g[n - 1], n>>] /\ step[<<g[n - 1], n>>] \in HitsFrom(store)
    BY <1>1, <1>5, <1>6
  <2>2. QED
    BY <2>1
<1>7. \A n \in 0..Len(seg) : g[n] \in HitsFrom(store)
  <2>1. 0..Len(seg) \subseteq {n \in 0..Len(seg) : g[n] \in HitsFrom(store)}
    <3>1. 0 \in 0..Len(seg) /\ \A n \in 1..Len(seg) : n \in 0..Len(seg)
      BY <1>0
    <3>2. QED
      BY <1>0, <1>5, <1>6, <3>1, UpTo
  <2>2. QED
    BY <2>1
<1>8. QED
  BY <1>4, <1>5, <1>7 DEF AreHits

LEMMA HitsOrMissesOK ==
    ASSUME NEW store, IsMap(store, Block, Nat), NEW t \in Blocks, NEW k \in Nat,
           NEW s, HitOK(s, store, t, k), NEW seg \in Blocks
    PROVE  HitOK(HitsOrMisses(s, seg), store, t \o seg, k)
<1>0. Len(seg) \in Nat /\ t \in Seq(Block) /\ seg \in Seq(Block)
  BY LenProperties DEF Blocks
<1>1. PICK g : AreHits(g, s, store, seg) /\ HitsOrMisses(s, seg) = g[Len(seg)]
  <2>1. s \in HitsFrom(store)
    BY DEF HitsFrom, HitOK
  <2>2. QED
    BY <2>1, HitsOrMissesIs
<1>2. PICK T : AreOneByOne(T, t, seg)
  BY DEF AreOneByOne
<1>3. /\ T[0] = t /\ T[Len(seg)] = t \o seg
      /\ \A n \in 1..Len(seg) : T[n - 1] \in Seq(Block) /\ T[n] = Append(T[n - 1], seg[n])
  BY <1>0, <1>2, OneByOne
<1>4. HitOK(g[0], store, T[0], k)
  BY <1>1, <1>3 DEF AreHits
<1>5. ASSUME NEW n \in 1..Len(seg), HitOK(g[n - 1], store, T[n - 1], k)
      PROVE  HitOK(g[n], store, T[n], k)
  <2>1. PICK b \in Block : b = seg[n]
    BY <1>0, ElementOfSeq
  <2>2. PICK p, x : p = T[n - 1] /\ x = g[n - 1]
    OBVIOUS
  <2>3. p \in Blocks /\ T[n] = Append(p, b) /\ g[n] = HitOrMiss(x, b) /\ HitOK(x, store, p, k)
    BY <1>1, <1>3, <1>5, <2>1, <2>2 DEF AreHits, Blocks
  <2>4. HitOK(HitOrMiss(x, b), store, Append(p, b), k)
    BY <2>3, HitOrMissOK
  <2>5. QED
    BY <2>3, <2>4
<1>6. 0..Len(seg) \subseteq {n \in 0..Len(seg) : HitOK(g[n], store, T[n], k)}
  <2>1. 0 \in 0..Len(seg) /\ \A n \in 1..Len(seg) : n \in 0..Len(seg)
    BY <1>0
  <2>2. QED
    BY <1>0, <1>4, <1>5, <2>1, UpTo
<1>7. Len(seg) \in 0..Len(seg)
  BY <1>0
<1>8. QED
  BY <1>1, <1>3, <1>6, <1>7

LEMMA SegmentHitsOK ==
    ASSUME NEW store, IsMap(store, Block, Nat), NEW t \in Blocks, NEW k \in Nat,
           NEW s, HitOK(s, store, t, k), NEW seg \in Blocks, NEW same
    PROVE  HitOK(SegmentHits(s, seg, same), store, IF same THEN t ELSE t \o seg, k + 1)
<1>1. PICK u, r, w : s = [ublks |-> u, runs |-> r, segRuns |-> w]
  BY HitFields DEF HitOK
<1>2. /\ s \in HitStates /\ IsMap(u, Block, Nat) /\ r \in RunStates /\ w \in RunStates
  BY <1>1, HitFields DEF HitOK
<1>3. PICK m \in Nat : RunOK(w, k, m)
  BY <1>1 DEF HitOK
<1>4. ASSUME NEW W \in RunStates, NEW i \in Nat, RunOK(W, k + 1, i),
             NEW x, x = [s EXCEPT !.segRuns = W]
      PROVE  HitOK(x, store, t, k + 1)
  <2>1. /\ x = [j \in DOMAIN x |-> x[j]] /\ DOMAIN x = {"ublks", "runs", "segRuns"}
        /\ x.ublks = u /\ x.runs = r /\ x.segRuns = W
    BY <1>1, <1>4
  <2>2. x \in HitStates
    BY <1>2, <2>1, HitMade
  <2>3. s.ublks = u /\ s.runs = r
    BY <1>1
  <2>4. QED
    BY <1>4, <2>1, <2>2, <2>3 DEF HitOK
<1>5. CASE same
  <2>1. PICK W \in RunStates : W = save_counter(w, TRUE) /\ RunOK(W, k + 1, m)
    BY <1>2, <1>3, CounterHit
  <2>2. SegmentHits(s, seg, same) = [s EXCEPT !.segRuns = W]
    BY <1>1, <1>5, <2>1 DEF SegmentHits
  <2>3. QED
    BY <1>4, <1>5, <2>1, <2>2
<1>6. CASE ~same
  <2>1. PICK W \in RunStates : W = save_counter(w, FALSE) /\ RunOK(W, k + 1, m + 1)
    BY <1>2, <1>3, CounterMiss
  <2>2. PICK x : x = [s EXCEPT !.segRuns = W]
    OBVIOUS
  <2>3. SegmentHits(s, seg, same) = HitsOrMisses(x, seg)
    BY <1>1, <1>6, <2>1, <2>2 DEF SegmentHits
  <2>4. HitOK(x, store, t, k + 1)
    <3>1. m + 1 \in Nat /\ RunOK(W, k + 1, m + 1)
      <4>1. m + 1 \in Nat
        BY <1>3
      <4>2. RunOK(W, k + 1, m + 1)
        BY <2>1
      <4>3. QED
        BY <4>1, <4>2
    <3>2. QED
      BY <1>4, <2>1, <2>2, <3>1
  <2>5. HitOK(HitsOrMisses(x, seg), store, t \o seg, k + 1)
    BY <2>4, HitsOrMissesOK
  <2>6. QED
    BY <1>6, <2>3, <2>5
<1>7. QED
  BY <1>5, <1>6

LEMMA OneByOneFromNone ==
    ASSUME NEW S, NEW q \in Seq(S), NEW T, AreOneByOne(T, << >>, q)
    PROVE  /\ T[0] = << >> /\ T[Len(q)] = q
           /\ \A n \in 1..Len(q) : T[n - 1] \in Seq(S) /\ T[n] = Append(T[n - 1], q[n])
<1>1. PICK e \in Seq(S) : e = << >>
  BY EmptySeq
<1>2. AreOneByOne(T, e, q)
  BY <1>1
<1>3. /\ T[0] = e /\ T[Len(q)] = e \o q
      /\ \A n \in 1..Len(q) : T[n - 1] \in Seq(S) /\ T[n] = Append(T[n - 1], q[n])
  BY <1>2, OneByOne
<1>4. e \o q = q
  BY <1>1, ConcatEmptySeq
<1>5. QED
  BY <1>1, <1>3, <1>4

(* The blocks that are looked up: those of the segments that are not the parent's. *)
PieceOf(vm, j, n) == IF SameSegment(vm, j, n) THEN << >> ELSE SegmentAt(vm[j], n)

Pieces(vm, j) == [n \in DOMAIN Segments(vm[j]) |-> PieceOf(vm, j, n)]

Looked(vm, j) == FlattenSeq(Pieces(vm, j))

LEMMA PiecesType ==
    ASSUME NEW vm \in Seq(Blocks), NEW j \in 1..Len(vm)
    PROVE  /\ vm[j] \in Blocks
           /\ DOMAIN Segments(vm[j]) = 1..Len(Segments(vm[j])) /\ Len(Segments(vm[j])) \in Nat
           /\ Pieces(vm, j) \in Seq(Blocks) /\ Len(Pieces(vm, j)) = Len(Segments(vm[j]))
           /\ \A n \in 1..Len(Segments(vm[j])) :
                 SegmentAt(vm[j], n) \in Blocks /\ Pieces(vm, j)[n] = PieceOf(vm, j, n)
           /\ Looked(vm, j) \in Blocks
<1>1. vm[j] \in Blocks
  BY ElementOfSeq
<1>2. DOMAIN Segments(vm[j]) = 1..Len(Segments(vm[j])) /\ Len(Segments(vm[j])) \in Nat
  BY <1>1, SegmentsType
<1>3. \A n \in 1..Len(Segments(vm[j])) : SegmentAt(vm[j], n) \in Blocks
  BY <1>1, SegmentAtType
<1>4. PICK f : f = Pieces(vm, j)
  OBVIOUS
<1>5. \A n \in 1..Len(Segments(vm[j])) : f[n] = PieceOf(vm, j, n)
  BY <1>2, <1>4 DEF Pieces
<1>6. << >> \in Blocks
  BY DEF Blocks
<1>7. \A n \in 1..Len(Segments(vm[j])) : f[n] \in Blocks
  BY <1>3, <1>5, <1>6 DEF PieceOf
<1>8. f = [n \in 1..Len(Segments(vm[j])) |-> f[n]]
  BY <1>2, <1>4 DEF Pieces
<1>9. f \in Seq(Blocks) /\ Len(f) = Len(Segments(vm[j])) /\ FlattenSeq(f) \in Blocks
  BY <1>2, <1>7, <1>8, BlocksFunction
<1>10. QED
  BY <1>1, <1>2, <1>3, <1>4, <1>5, <1>9 DEF Looked

LEMMA NoLookUps == RunOK(Run, 0, 0) /\ Run \in RunStates
<1>1. IsMap(<< >>, Nat, Nat) /\ DOMAIN << >> = {}
  BY EmptyMap
<1>2. LookUpsOf(<< >>) = 0
  <2>1. PICK f : f = Weighted(<< >>)
    OBVIOUS
  <2>2. DOMAIN f = {}
    BY <1>1, <2>1 DEF Weighted
  <2>3. SumFunction(f) = 0
    BY <2>2, SumEmpty DEF SumFunction
  <2>4. QED
    BY <2>1, <2>3 DEF LookUpsOf
<1>3. PICK r : r = Run
  OBVIOUS
<1>4. /\ r = [x \in DOMAIN r |-> r[x]] /\ DOMAIN r = {"hits", "misses", "hit_lens", "miss_lens"}
      /\ r.hits = 0 /\ r.misses = 0 /\ r.hit_lens = << >> /\ r.miss_lens = << >>
  BY <1>3 DEF Run
<1>5. RunOK(r, 0, 0)
  BY <1>1, <1>2, <1>4 DEF RunOK
<1>6. r \in RunStates
  <2>1. r.hits \in Nat /\ r.misses \in Nat
    BY <1>4
  <2>2. QED
    BY <1>1, <1>4, <2>1, RunMade, RunFields
<1>7. QED
  BY <1>3, <1>5, <1>6

HitsBegin(store) == [ublks |-> store, runs |-> Run, segRuns |-> Run]

LEMMA HitsBeginOK ==
    ASSUME NEW store, IsMap(store, Block, Nat)
    PROVE  HitOK(HitsBegin(store), store, << >>, 0) /\ HitsBegin(store) \in HitsFrom(store)
<1>1. PICK s : s = HitsBegin(store)
  OBVIOUS
<1>2. /\ s = [x \in DOMAIN s |-> s[x]] /\ DOMAIN s = {"ublks", "runs", "segRuns"}
      /\ s.ublks = store /\ s.runs = Run /\ s.segRuns = Run
  BY <1>1 DEF HitsBegin
<1>3. s \in HitStates
  BY <1>2, NoLookUps, HitMade
<1>4. Len(<< >>) = 0 /\ << >> \in Blocks
  BY DEF Blocks
<1>5. SumFunction(store) \in Nat
  <2>1. IsFiniteSet(DOMAIN store) /\ \A x \in DOMAIN store : store[x] \in Nat
    BY DEF IsMap
  <2>2. QED
    BY <2>1, SumType DEF SumFunction
<1>6. DOMAIN store \ DOMAIN store = {} /\ IsFiniteSet({}) /\ Cardinality({}) = 0
  BY FS_EmptySet
<1>7. \E m \in Nat : RunOK(Run, 0, m)
  BY NoLookUps
<1>8. SumFunction(s.ublks) = SumFunction(store) + Len(<< >>)
  BY <1>2, <1>4, <1>5
<1>9. RunOK(s.runs, Len(<< >>), Cardinality(DOMAIN s.ublks \ DOMAIN store))
  BY <1>2, <1>4, <1>6, NoLookUps
<1>10. s.ublks = Added(store, << >>)
  BY <1>2, AddedEmpty
<1>11. HitOK(s, store, << >>, 0)
  BY <1>2, <1>3, <1>6, <1>7, <1>8, <1>9, <1>10 DEF HitOK
<1>12. s \in HitsFrom(store)
  BY <1>3, <1>4, <1>11 DEF HitsFrom
<1>13. QED
  BY <1>1, <1>11, <1>12

AreSegmentHits(g, vm, j, store, k) ==
    /\ g[0] = HitsBegin(store)
    /\ \A n \in 0..k : g[n] \in HitsFrom(store)
    /\ \A n \in 1..k : g[n] = SegmentHits(g[n - 1], SegmentAt(vm[j], n), SameSegment(vm, j, n))

LEMMA HitLengthsIs ==
    ASSUME NEW store, IsMap(store, Block, Nat), NEW vm \in Seq(Blocks), NEW j \in 1..Len(vm),
           NEW k, k = Len(Segments(vm[j]))
    PROVE  \E g : AreSegmentHits(g, vm, j, store, k) /\ HitLengths(vm, j, store) = g[k]
<1> DEFINE step == [p \in HitsFrom(store) \X (1..k) |-> SegmentHits(p[1], SegmentAt(vm[j], p[2]), SameSegment(vm, j, p[2]))]
           Goes(f) == f = [n \in 0..k |-> IF n = 0 THEN HitsBegin(store) ELSE SegmentHits(f[n - 1], SegmentAt(vm[j], n), SameSegment(vm, j, n))]
<1>0. k \in Nat /\ HitsBegin(store) \in HitsFrom(store)
  BY PiecesType, HitsBeginOK
<1>1. ASSUME NEW x \in HitsFrom(store), NEW n \in 1..k
      PROVE  step[<<x, n>>] = SegmentHits(x, SegmentAt(vm[j], n), SameSegment(vm, j, n)) /\ step[<<x, n>>] \in HitsFrom(store)
  <2>1. PICK seg \in Blocks : seg = SegmentAt(vm[j], n)
    BY PiecesType
  <2>2. PICK t \in Blocks, i \in Nat : HitOK(x, store, t, i)
    BY <1>1 DEF HitsFrom
  <2>a. PICK same : same = SameSegment(vm, j, n)
    OBVIOUS
  <2>3. PICK t2 : t2 = IF same THEN t ELSE t \o seg
    OBVIOUS
  <2>4. HitOK(SegmentHits(x, seg, same), store, t2, i + 1)
    BY <2>2, <2>3, SegmentHitsOK
  <2>5. t2 \in Blocks /\ i + 1 \in Nat
    BY <2>3, ConcatProperties DEF Blocks
  <2>6. SegmentHits(x, seg, same) \in HitsFrom(store)
    BY <2>4, <2>5 DEF HitsFrom, HitOK
  <2>7. QED
    BY <2>1, <2>a, <2>6
<1> HIDE DEF step
<1>2. PICK f : AreSteps(f, HitsFrom(store), HitsBegin(store), k, step)
  BY <1>0, <1>1, StepsExist
<1>3. Goes(f)
  <2>1. /\ f = [n \in 0..k |-> f[n]] /\ f[0] = HitsBegin(store)
        /\ \A n \in 0..k : f[n] \in HitsFrom(store)
        /\ \A n \in 1..k : f[n] = step[<<f[n - 1], n>>]
    BY <1>2 DEF AreSteps
  <2>2. \A n \in 0..k : f[n] = IF n = 0 THEN HitsBegin(store) ELSE SegmentHits(f[n - 1], SegmentAt(vm[j], n), SameSegment(vm, j, n))
    <3>1. \A n \in 0..k : n # 0 => n \in 1..k /\ n - 1 \in 0..k
      BY <1>0
    <3>2. QED
      BY <1>1, <2>1, <3>1
  <2>3. QED
    BY <2>1, <2>2
<1>4. PICK g : Goes(g) /\ HitLengths(vm, j, store) = g[k]
  <2>1. HitLengths(vm, j, store) = (CHOOSE g : Goes(g))[k]
    BY DEF HitLengths, HitsBegin
  <2> HIDE DEF Goes
  <2>2. QED
    BY <1>3, <2>1
<1>5. g[0] = HitsBegin(store) /\ \A n \in 1..k : g[n] = SegmentHits(g[n - 1], SegmentAt(vm[j], n), SameSegment(vm, j, n))
  <2>1. g = [n \in 0..k |-> IF n = 0 THEN HitsBegin(store) ELSE SegmentHits(g[n - 1], SegmentAt(vm[j], n), SameSegment(vm, j, n))]
    BY <1>4
  <2>2. 0 \in 0..k /\ \A n \in 1..k : n \in 0..k /\ n # 0
    BY <1>0
  <2>3. QED
    BY <2>1, <2>2
<1> HIDE DEF Goes
<1>6. \A n \in 1..k : g[n - 1] \in HitsFrom(store) => g[n] \in HitsFrom(store)
  BY <1>1, <1>5
<1>7. \A n \in 0..k : g[n] \in HitsFrom(store)
  <2>1. 0..k \subseteq {n \in 0..k : g[n] \in HitsFrom(store)}
    <3>1. 0 \in 0..k /\ \A n \in 1..k : n \in 0..k
      BY <1>0
    <3>2. g[0] \in HitsFrom(store)
      BY <1>0, <1>5
    <3>3. QED
      BY <1>0, <1>6, <3>1, <3>2, UpTo
  <2>2. QED
    BY <2>1
<1>8. QED
  BY <1>4, <1>5, <1>7 DEF AreSegmentHits

LEMMA HitLengthsOK ==
    ASSUME NEW store, IsMap(store, Block, Nat), NEW vm \in Seq(Blocks), NEW j \in 1..Len(vm)
    PROVE  HitOK(HitLengths(vm, j, store), store, Looked(vm, j), Len(Segments(vm[j])))
<1>0. PICK k \in Nat, q \in Seq(Blocks) : k = Len(Segments(vm[j])) /\ q = Pieces(vm, j)
  BY PiecesType
<1>1. Len(q) = k /\ \A n \in 1..k : SegmentAt(vm[j], n) \in Blocks /\ q[n] = PieceOf(vm, j, n)
  BY <1>0, PiecesType
<1>2. PICK g : AreSegmentHits(g, vm, j, store, k) /\ HitLengths(vm, j, store) = g[k]
  BY <1>0, HitLengthsIs
<1>3. /\ g[0] = HitsBegin(store)
      /\ \A n \in 1..k : g[n] = SegmentHits(g[n - 1], SegmentAt(vm[j], n), SameSegment(vm, j, n))
  BY <1>0, <1>2 DEF AreSegmentHits
<1>5. PICK T : AreOneByOne(T, << >>, q)
  BY DEF AreOneByOne
<1>6. /\ T[0] = << >> /\ T[k] = q
      /\ \A n \in 1..k : T[n - 1] \in Seq(Blocks) /\ T[n] = Append(T[n - 1], q[n])
  <2>1. PICK U : U = Blocks
    OBVIOUS
  <2>2. q \in Seq(U)
    BY <2>1
  <2>3. /\ T[0] = << >> /\ T[Len(q)] = q
        /\ \A n \in 1..Len(q) : T[n - 1] \in Seq(U) /\ T[n] = Append(T[n - 1], q[n])
    BY <1>5, <2>2, OneByOneFromNone
  <2>4. QED
    BY <1>1, <2>1, <2>3
<1>8. HitOK(g[0], store, FlattenSeq(T[0]), 0)
  BY <1>3, <1>6, HitsBeginOK, FlattenEmpty
<1>9. ASSUME NEW n \in 1..k, HitOK(g[n - 1], store, FlattenSeq(T[n - 1]), n - 1)
      PROVE  HitOK(g[n], store, FlattenSeq(T[n]), n)
  <2>1. PICK seg \in Blocks : seg = SegmentAt(vm[j], n)
    BY <1>1
  <2>a. PICK same : same = SameSegment(vm, j, n)
    OBVIOUS
  <2>2. PICK p \in Seq(Blocks) : p = T[n - 1]
    BY <1>6
  <2>b. PICK x : x = g[n - 1]
    OBVIOUS
  <2>3. PICK i \in Nat : i = n - 1 /\ i + 1 = n
    OBVIOUS
  <2>4. PICK t \in Blocks : t = FlattenSeq(p)
    BY <2>2, FlattenType DEF Blocks
  <2>5. g[n] = SegmentHits(x, seg, same) /\ HitOK(x, store, t, i)
    BY <1>3, <1>9, <2>1, <2>a, <2>b, <2>2, <2>3, <2>4
  <2>6. PICK t2 : t2 = IF same THEN t ELSE t \o seg
    OBVIOUS
  <2>7. HitOK(SegmentHits(x, seg, same), store, t2, i + 1)
    BY <2>5, <2>6, SegmentHitsOK
  <2>8. FlattenSeq(T[n]) = t2
    <3>1. PICK e \in Blocks : e = q[n]
      BY <1>1, ElementOfSeq
    <3>2. FlattenSeq(Append(p, e)) = t \o e
      BY <2>2, <2>4, FlattenAppend DEF Blocks
    <3>3. e = IF same THEN << >> ELSE seg
      BY <1>1, <2>1, <2>a, <3>1 DEF PieceOf
    <3>4. t \o << >> = t
      BY ConcatEmptySeq DEF Blocks
    <3>5. T[n] = Append(p, e)
      BY <1>6, <2>2, <3>1
    <3>6. QED
      BY <2>6, <3>2, <3>3, <3>4, <3>5
  <2>9. QED
    BY <2>3, <2>5, <2>7, <2>8
<1>10. 0..k \subseteq {n \in 0..k : HitOK(g[n], store, FlattenSeq(T[n]), n)}
  <2>1. 0 \in 0..k /\ \A n \in 1..k : n \in 0..k
    OBVIOUS
  <2>2. QED
    BY <1>8, <1>9, <2>1, UpTo
<1>11. k \in 0..k
  OBVIOUS
<1>12. HitOK(g[k], store, FlattenSeq(T[k]), k)
  BY <1>10, <1>11
<1>13. QED
  BY <1>0, <1>2, <1>6, <1>12 DEF Looked

AreBenchmarked(g, vm, j, ublks) ==
    /\ g[0] = ublks
    /\ \A n \in 0..Len(Looked(vm, j)) : g[n] \in Maps(Block, Nat)
    /\ \A n \in 1..Len(Looked(vm, j)) : g[n] = Incremented(g[n - 1], Looked(vm, j)[n])

LEMMA BenchmarkIs ==
    ASSUME NEW ublks, IsMap(ublks, Block, Nat), NEW vm \in Seq(Blocks), NEW j \in 1..Len(vm)
    PROVE  \E g : AreBenchmarked(g, vm, j, ublks) /\ Benchmark(vm, j, ublks).ublks = g[Len(Looked(vm, j))]
<1> DEFINE step == [p \in Maps(Block, Nat) \X (1..Len(Looked(vm, j))) |-> Incremented(p[1], Looked(vm, j)[p[2]])]
           Goes(f) == f = [n \in 0..Len(Looked(vm, j)) |-> IF n = 0 THEN ublks ELSE Incremented(f[n - 1], Looked(vm, j)[n])]
<1>0. Len(Looked(vm, j)) \in Nat /\ ublks \in Maps(Block, Nat)
  <2>1. Looked(vm, j) \in Seq(Block)
    BY PiecesType DEF Blocks
  <2>2. QED
    BY <2>1, LenProperties, MapIs
<1>1. ASSUME NEW x \in Maps(Block, Nat), NEW n \in 1..Len(Looked(vm, j))
      PROVE  step[<<x, n>>] = Incremented(x, Looked(vm, j)[n]) /\ step[<<x, n>>] \in Maps(Block, Nat)
  <2>1. PICK b \in Block : b = Looked(vm, j)[n]
    BY PiecesType, ElementOfSeq DEF Blocks
  <2>2. IsMap(x, Block, Nat)
    BY MapIs
  <2>3. OneMoreOf(Incremented(x, b), x, b, Block)
    BY <2>2, IncrementedIs
  <2>4. Incremented(x, b) \in Maps(Block, Nat)
    BY <2>3, MapIs DEF OneMoreOf
  <2>5. QED
    BY <2>1, <2>4
<1> HIDE DEF step
<1>2. PICK f : AreSteps(f, Maps(Block, Nat), ublks, Len(Looked(vm, j)), step)
  BY <1>0, <1>1, StepsExist
<1>3. Goes(f)
  <2>1. /\ f = [n \in 0..Len(Looked(vm, j)) |-> f[n]] /\ f[0] = ublks
        /\ \A n \in 0..Len(Looked(vm, j)) : f[n] \in Maps(Block, Nat)
        /\ \A n \in 1..Len(Looked(vm, j)) : f[n] = step[<<f[n - 1], n>>]
    BY <1>2 DEF AreSteps
  <2>2. \A n \in 0..Len(Looked(vm, j)) : f[n] = IF n = 0 THEN ublks ELSE Incremented(f[n - 1], Looked(vm, j)[n])
    <3>1. \A n \in 0..Len(Looked(vm, j)) : n # 0 => n \in 1..Len(Looked(vm, j)) /\ n - 1 \in 0..Len(Looked(vm, j))
      BY <1>0
    <3>2. QED
      BY <1>1, <2>1, <3>1
  <2>3. QED
    BY <2>1, <2>2
<1>4. PICK g : Goes(g) /\ Benchmark(vm, j, ublks).ublks = g[Len(Looked(vm, j))]
  <2>1. Benchmark(vm, j, ublks).ublks = (CHOOSE g : Goes(g))[Len(Looked(vm, j))]
    BY DEF Benchmark, Looked, Pieces, PieceOf
  <2> HIDE DEF Goes
  <2>2. QED
    BY <1>3, <2>1
<1>5. g[0] = ublks /\ \A n \in 1..Len(Looked(vm, j)) : g[n] = Incremented(g[n - 1], Looked(vm, j)[n])
  <2>1. g = [n \in 0..Len(Looked(vm, j)) |-> IF n = 0 THEN ublks ELSE Incremented(g[n - 1], Looked(vm, j)[n])]
    BY <1>4
  <2>2. 0 \in 0..Len(Looked(vm, j)) /\ \A n \in 1..Len(Looked(vm, j)) : n \in 0..Len(Looked(vm, j)) /\ n # 0
    BY <1>0
  <2>3. QED
    BY <2>1, <2>2
<1> HIDE DEF Goes
<1>6. \A n \in 1..Len(Looked(vm, j)) : g[n - 1] \in Maps(Block, Nat) => g[n] \in Maps(Block, Nat)
  BY <1>1, <1>5
<1>7. \A n \in 0..Len(Looked(vm, j)) : g[n] \in Maps(Block, Nat)
  <2>1. 0..Len(Looked(vm, j)) \subseteq {n \in 0..Len(Looked(vm, j)) : g[n] \in Maps(Block, Nat)}
    <3>1. 0 \in 0..Len(Looked(vm, j)) /\ \A n \in 1..Len(Looked(vm, j)) : n \in 0..Len(Looked(vm, j))
      BY <1>0
    <3>2. g[0] \in Maps(Block, Nat)
      BY <1>0, <1>5
    <3>3. QED
      BY <1>0, <1>6, <3>1, <3>2, UpTo
  <2>2. QED
    BY <2>1
<1>8. QED
  BY <1>4, <1>5, <1>7 DEF AreBenchmarked

LEMMA BenchmarkOK ==
    ASSUME NEW ublks, IsMap(ublks, Block, Nat), NEW vm \in Seq(Blocks), NEW j \in 1..Len(vm)
    PROVE  /\ Benchmark(vm, j, ublks).num_queries = Len(Looked(vm, j))
           /\ Benchmark(vm, j, ublks).ublks = Added(ublks, Looked(vm, j))
<1>0. PICK seg \in Seq(Block) : seg = Looked(vm, j)
  BY PiecesType DEF Blocks
<1>1. PICK k \in Nat : k = Len(seg)
  BY LenProperties
<1>2. PICK g : AreBenchmarked(g, vm, j, ublks) /\ Benchmark(vm, j, ublks).ublks = g[k]
  BY <1>0, <1>1, BenchmarkIs
<1>3. g[0] = ublks /\ \A n \in 1..k : g[n] = Incremented(g[n - 1], seg[n])
  BY <1>0, <1>1, <1>2 DEF AreBenchmarked
<1>5. PICK T : AreOneByOne(T, << >>, seg)
  BY DEF AreOneByOne
<1>6. /\ T[0] = << >> /\ T[k] = seg
      /\ \A n \in 1..k : T[n - 1] \in Seq(Block) /\ T[n] = Append(T[n - 1], seg[n])
  BY <1>1, <1>5, OneByOneFromNone
<1>8. g[0] = Added(ublks, T[0])
  BY <1>3, <1>6, AddedEmpty
<1>9. ASSUME NEW n \in 1..k, g[n - 1] = Added(ublks, T[n - 1])
      PROVE  g[n] = Added(ublks, T[n])
  <2>1. PICK b \in Block : b = seg[n]
    BY <1>1, ElementOfSeq
  <2>2. PICK p \in Seq(Block) : p = T[n - 1]
    BY <1>6
  <2>3. Incremented(Added(ublks, p), b) = Added(ublks, Append(p, b))
    BY AddedAppend
  <2>4. QED
    BY <1>3, <1>6, <1>9, <2>1, <2>2, <2>3
<1>10. 0..k \subseteq {n \in 0..k : g[n] = Added(ublks, T[n])}
  <2>1. 0 \in 0..k /\ \A n \in 1..k : n \in 0..k
    OBVIOUS
  <2>2. QED
    BY <1>8, <1>9, <2>1, UpTo
<1>11. k \in 0..k
  OBVIOUS
<1>12. Benchmark(vm, j, ublks).num_queries = Len(Looked(vm, j))
  BY DEF Benchmark, Looked, Pieces, PieceOf
<1>13. QED
  BY <1>0, <1>2, <1>6, <1>10, <1>11, <1>12

AreStores(g, vm) ==
    /\ g[0] = << >>
    /\ \A n \in 0..Len(vm) : g[n] \in Maps(Block, Nat)
    /\ \A n \in 1..Len(vm) : g[n] = HitLengths(vm, n, g[n - 1]).ublks

LEMMA StoreAfterIs ==
    ASSUME NEW vm \in Seq(Blocks)
    PROVE  \E g : AreStores(g, vm) /\ StoreAfter(vm) = g[Len(vm)]
<1> DEFINE step == [p \in Maps(Block, Nat) \X (1..Len(vm)) |-> HitLengths(vm, p[2], p[1]).ublks]
           Goes(f) == f = [n \in 0..Len(vm) |-> IF n = 0 THEN << >> ELSE HitLengths(vm, n, f[n - 1]).ublks]
<1>0. Len(vm) \in Nat /\ << >> \in Maps(Block, Nat)
  BY LenProperties, EmptyMap, MapIs
<1>1. ASSUME NEW x \in Maps(Block, Nat), NEW n \in 1..Len(vm)
      PROVE  step[<<x, n>>] = HitLengths(vm, n, x).ublks /\ step[<<x, n>>] \in Maps(Block, Nat)
  <2>1. IsMap(x, Block, Nat)
    BY MapIs
  <2>2. HitOK(HitLengths(vm, n, x), x, Looked(vm, n), Len(Segments(vm[n])))
    BY <2>1, HitLengthsOK
  <2>3. HitLengths(vm, n, x).ublks \in Maps(Block, Nat)
    BY <2>2 DEF HitOK, HitStates
  <2>4. QED
    BY <2>3
<1> HIDE DEF step
<1>2. PICK f : AreSteps(f, Maps(Block, Nat), << >>, Len(vm), step)
  BY <1>0, <1>1, StepsExist
<1>3. Goes(f)
  <2>1. /\ f = [n \in 0..Len(vm) |-> f[n]] /\ f[0] = << >>
        /\ \A n \in 0..Len(vm) : f[n] \in Maps(Block, Nat)
        /\ \A n \in 1..Len(vm) : f[n] = step[<<f[n - 1], n>>]
    BY <1>2 DEF AreSteps
  <2>2. \A n \in 0..Len(vm) : f[n] = IF n = 0 THEN << >> ELSE HitLengths(vm, n, f[n - 1]).ublks
    <3>1. \A n \in 0..Len(vm) : n # 0 => n \in 1..Len(vm) /\ n - 1 \in 0..Len(vm)
      BY <1>0
    <3>2. QED
      BY <1>1, <2>1, <3>1
  <2>3. QED
    BY <2>1, <2>2
<1>4. PICK g : Goes(g) /\ StoreAfter(vm) = g[Len(vm)]
  <2>1. StoreAfter(vm) = (CHOOSE g : Goes(g))[Len(vm)]
    BY DEF StoreAfter
  <2> HIDE DEF Goes
  <2>2. QED
    BY <1>3, <2>1
<1>5. g[0] = << >> /\ \A n \in 1..Len(vm) : g[n] = HitLengths(vm, n, g[n - 1]).ublks
  <2>1. g = [n \in 0..Len(vm) |-> IF n = 0 THEN << >> ELSE HitLengths(vm, n, g[n - 1]).ublks]
    BY <1>4
  <2>2. 0 \in 0..Len(vm) /\ \A n \in 1..Len(vm) : n \in 0..Len(vm) /\ n # 0
    BY <1>0
  <2>3. QED
    BY <2>1, <2>2
<1> HIDE DEF Goes
<1>6. ASSUME NEW n \in 1..Len(vm), g[n - 1] \in Maps(Block, Nat)
      PROVE  g[n] \in Maps(Block, Nat)
  <2>1. g[n] = step[<<g[n - 1], n>>] /\ step[<<g[n - 1], n>>] \in Maps(Block, Nat)
    BY <1>1, <1>5, <1>6
  <2>2. QED
    BY <2>1
<1>7. \A n \in 0..Len(vm) : g[n] \in Maps(Block, Nat)
  <2>1. 0..Len(vm) \subseteq {n \in 0..Len(vm) : g[n] \in Maps(Block, Nat)}
    <3>1. 0 \in 0..Len(vm) /\ \A n \in 1..Len(vm) : n \in 0..Len(vm)
      BY <1>0
    <3>2. g[0] \in Maps(Block, Nat)
      BY <1>0, <1>5
    <3>3. QED
      BY <1>0, <1>6, <3>1, <3>2, UpTo
  <2>2. QED
    BY <2>1
<1>8. QED
  BY <1>4, <1>5, <1>7 DEF AreStores

LEMMA VmsHitLengthsRight ==
    ASSUME NEW vm \in Seq(Blocks), NEW j \in 1..Len(vm)
    PROVE  HitLengthsRight(vm, j)
<1>1. PICK store : store = StoreAfter(SubSeq(vm, 1, j - 1))
  OBVIOUS
<1>2. IsMap(store, Block, Nat)
  <2>1. PICK p \in Seq(Blocks) : p = SubSeq(vm, 1, j - 1)
    <3>1. /\ 1 \in Int /\ j - 1 \in Int
          /\ \A i \in 1..(j - 1) : vm[i] \in Blocks
      BY LenProperties, ElementOfSeq
    <3>2. QED
      BY <3>1, SubSeqProperties
  <2>2. PICK g : AreStores(g, p) /\ StoreAfter(p) = g[Len(p)]
    BY StoreAfterIs
  <2>3. Len(p) \in 0..Len(p)
    BY LenProperties
  <2>4. QED
    BY <1>1, <2>1, <2>2, <2>3, MapIs DEF AreStores
<1>3. PICK t \in Blocks, k \in Nat : t = Looked(vm, j) /\ k = Len(Segments(vm[j]))
  BY PiecesType
<1>4. PICK s : s = HitLengths(vm, j, store)
  OBVIOUS
<1>5. HitOK(s, store, t, k)
  BY <1>2, <1>3, <1>4, HitLengthsOK
<1>6. PICK bench : bench = Benchmark(vm, j, store)
  OBVIOUS
<1>7. bench.num_queries = Len(t) /\ bench.ublks = Added(store, t)
  BY <1>2, <1>3, <1>6, BenchmarkOK
<1>8. PICK m \in Nat : RunOK(s.segRuns, k, m)
  BY <1>5 DEF HitOK
<1>9. PICK out : out = HitOutput(s)
  OBVIOUS
<1>10. /\ out.hit = s.runs.hit_lens /\ out.miss = s.runs.miss_lens
       /\ out.seg_hit = s.segRuns.hit_lens /\ out.seg_miss = s.segRuns.miss_lens
  BY <1>9 DEF HitOutput
<1>11. \A lens : LookUpsOf(lens) = SumFunction([n \in DOMAIN lens |-> n * lens[n]])
  BY DEF LookUpsOf, Weighted
<1>12. /\ s.runs.hits = 0 \/ s.runs.misses = 0
       /\ LookUpsOf(out.hit) + LookUpsOf(out.miss) + s.runs.hits + s.runs.misses = bench.num_queries
       /\ LookUpsOf(out.miss) + s.runs.misses = Cardinality(DOMAIN s.ublks \ DOMAIN store)
  BY <1>5, <1>7, <1>10 DEF HitOK, RunOK
<1>13. LookUpsOf(out.seg_hit) + LookUpsOf(out.seg_miss) + s.segRuns.hits + s.segRuns.misses = k
  BY <1>8, <1>10 DEF RunOK
<1>14. bench.ublks = s.ublks /\ SumFunction(s.ublks) = SumFunction(store) + bench.num_queries
  BY <1>5, <1>7 DEF HitOK
<1>15. QED
  BY <1>1, <1>3, <1>4, <1>6, <1>9, <1>11, <1>12, <1>13, <1>14 DEF HitLengthsRight

-----------------------------------------------------------------------------
(***************************************************************************)
(* Buckets.                                                                *)
(***************************************************************************)
LEMMA BytesMeasure ==
    ASSUME NEW s \in Seq(Block), NEW A, A = Range(s),
           NEW M, M = [S \in SUBSET A |-> BytesOf(Among(s, S))],
           NEW m, m = [b \in A |-> BytesOf(Among(s, {b}))]
    PROVE  IsMeasure(M, m, A)
<1>1. IsFiniteSet(A)
  BY RangeFinite
<1>2. \A S : BytesOf(Among(s, S)) \in Nat
  BY AmongType, BytesType
<1>3. M[{}] = 0
  BY AmongNone, BytesOfEmpty
<1>4. ASSUME NEW S \in SUBSET A, NEW e \in A \ S
      PROVE  M[S \cup {e}] = M[S] + m[e]
  <2>1. S \cap {e} = {} /\ S \cup {e} \in SUBSET A
    BY <1>4
  <2>2. BytesOf(Among(s, S \cup {e})) = BytesOf(Among(s, S)) + BytesOf(Among(s, {e}))
    BY <2>1, BytesSplit
  <2>3. QED
    BY <2>1, <2>2
<1>5. \A S \in SUBSET A : M[S] \in Nat
  BY <1>2
<1>6. \A e \in A : m[e] \in Nat
  BY <1>2
<1>7. QED
  BY <1>1, <1>3, <1>4, <1>5, <1>6 DEF IsMeasure

LEMMA LenMeasure ==
    ASSUME NEW s \in Seq(Block), NEW A, A = Range(s),
           NEW M, M = [S \in SUBSET A |-> Len(Among(s, S))],
           NEW m, m = [b \in A |-> Len(Among(s, {b}))]
    PROVE  IsMeasure(M, m, A)
<1>1. IsFiniteSet(A)
  BY RangeFinite
<1>2. \A S : Len(Among(s, S)) \in Nat
  BY AmongType, LenProperties
<1>3. M[{}] = 0
  <2>1. Len(<< >>) = 0
    OBVIOUS
  <2>2. QED
    BY <2>1, AmongNone
<1>4. ASSUME NEW S \in SUBSET A, NEW e \in A \ S
      PROVE  M[S \cup {e}] = M[S] + m[e]
  <2>1. S \cap {e} = {} /\ S \cup {e} \in SUBSET A
    BY <1>4
  <2>2. Len(Among(s, S \cup {e})) = Len(Among(s, S)) + Len(Among(s, {e}))
    BY <2>1, AmongSplit
  <2>3. QED
    BY <2>1, <2>2
<1>5. \A S \in SUBSET A : M[S] \in Nat
  BY <1>2
<1>6. \A e \in A : m[e] \in Nat
  BY <1>2
<1>7. QED
  BY <1>1, <1>3, <1>4, <1>5, <1>6 DEF IsMeasure

(* What the buckets have of a measure is the measure of all blocks. *)
Buckets == 0..(BUCKETS - 1)

OfBucket(A, i) == {b \in A : BucketId(b) = i}

LEMMA BucketsType ==
    /\ IsFiniteSet(Buckets)
    /\ \A b \in Block : BucketId(b) \in Buckets
<1>1. BUCKETS \in Nat \ {0}
  BY HashHitsAssumption
<1>2. IsFiniteSet(Buckets)
  <2>1. 0 \in Int /\ BUCKETS - 1 \in Int
    BY <1>1
  <2>2. QED
    BY <2>1, FS_Interval DEF Buckets
<1>3. \A x \in Nat, y \in Nat \ {0} : x % y \in 0..(y - 1)
  OBVIOUS
<1>4. QED
  BY <1>1, <1>2, <1>3, TraceAssumption DEF Buckets, BucketId

LEMMA BucketsSplit ==
    ASSUME NEW A \in SUBSET Block, NEW M, NEW m, IsMeasure(M, m, A),
           NEW f, f = [i \in Buckets |-> M[OfBucket(A, i)]]
    PROVE  SumFunction(f) = M[A]
<1>1. PICK part : part = [b \in A |-> BucketId(b)]
  OBVIOUS
<1>2. \A x \in A : part[x] \in Buckets
  BY <1>1, BucketsType
<1>3. \A i : OfBucket(A, i) = PartOf(A, part, i)
  BY <1>1 DEF OfBucket, PartOf
<1>4. f = [d \in Buckets |-> M[PartOf(A, part, d)]]
  BY <1>3
<1>5. QED
  BY <1>2, <1>4, BucketsType, MeasureParts

LEMMA TraceBucketsRight ==
    ASSUME NEW trace \in Blocks
    PROVE  BucketsRight(trace)
<1>1. trace \in Seq(Block)
  BY DEF Blocks
<1>2. PICK A : A = Range(trace)
  OBVIOUS
<1>3. A \in SUBSET Block /\ IsFiniteSet(A)
  BY <1>1, <1>2, RangeInBlock, RangeFinite
<1>4. PICK dist : dist = Distribution(trace)
  OBVIOUS
<1>5. /\ DOMAIN dist = Buckets
      /\ \A i \in Buckets :
            /\ dist[i].raw = BytesOf(Among(trace, OfBucket(A, i)))
            /\ dist[i].total = Len(Among(trace, OfBucket(A, i)))
            /\ dist[i].unique = Cardinality(Range(Among(trace, OfBucket(A, i))))
  BY <1>2, <1>4 DEF Distribution, Buckets, OfBucket
<1>6. \A i : OfBucket(A, i) \in SUBSET A
  BY DEF OfBucket
<1>7. Among(trace, A) = trace
  <2>1. Range(trace) \cap A = Range(trace) \cap Block
    BY <1>2, <1>3
  <2>2. QED
    BY <1>1, <2>1, AmongSame, AmongAll
<1>8. SumFunction([i \in DOMAIN dist |-> dist[i].raw]) = Analysis(trace).size
  <2>1. PICK M, m : M = [S \in SUBSET A |-> BytesOf(Among(trace, S))]
                    /\ m = [b \in A |-> BytesOf(Among(trace, {b}))]
    OBVIOUS
  <2>2. IsMeasure(M, m, A)
    BY <1>1, <1>2, <2>1, BytesMeasure
  <2>3. PICK f : f = [i \in DOMAIN dist |-> dist[i].raw]
    OBVIOUS
  <2>4. f = [i \in Buckets |-> M[OfBucket(A, i)]]
    BY <1>5, <1>6, <2>1, <2>3
  <2>5. SumFunction(f) = M[A]
    BY <1>3, <2>2, <2>4, BucketsSplit
  <2>6. M[A] = BytesOf(trace)
    BY <1>7, <2>1
  <2>7. QED
    BY <2>3, <2>5, <2>6 DEF Analysis
<1>9. SumFunction([i \in DOMAIN dist |-> dist[i].total]) = Analysis(trace).nblocks
  <2>1. PICK M, m : M = [S \in SUBSET A |-> Len(Among(trace, S))]
                    /\ m = [b \in A |-> Len(Among(trace, {b}))]
    OBVIOUS
  <2>2. IsMeasure(M, m, A)
    BY <1>1, <1>2, <2>1, LenMeasure
  <2>3. PICK f : f = [i \in DOMAIN dist |-> dist[i].total]
    OBVIOUS
  <2>4. f = [i \in Buckets |-> M[OfBucket(A, i)]]
    BY <1>5, <1>6, <2>1, <2>3
  <2>5. SumFunction(f) = M[A]
    BY <1>3, <2>2, <2>4, BucketsSplit
  <2>6. M[A] = Len(trace)
    BY <1>7, <2>1
  <2>7. QED
    BY <2>3, <2>5, <2>6 DEF Analysis
<1>10. SumFunction([i \in DOMAIN dist |-> dist[i].unique]) = Cardinality(Range(trace))
  <2>1. PICK M, m : M = [S \in SUBSET A |-> Cardinality(S)] /\ m = [x \in A |-> 1]
    OBVIOUS
  <2>2. IsMeasure(M, m, A)
    BY <1>3, <2>1, CountMeasure
  <2>3. PICK f : f = [i \in DOMAIN dist |-> dist[i].unique]
    OBVIOUS
  <2>4. \A i : Range(Among(trace, OfBucket(A, i))) = OfBucket(A, i)
    <3>1. \A i : Range(Among(trace, OfBucket(A, i))) = A \cap OfBucket(A, i)
      BY <1>1, <1>2, AmongType
    <3>2. QED
      BY <1>6, <3>1
  <2>5. f = [i \in Buckets |-> M[OfBucket(A, i)]]
    BY <1>5, <1>6, <2>1, <2>3, <2>4
  <2>6. SumFunction(f) = M[A]
    BY <1>3, <2>2, <2>5, BucketsSplit
  <2>7. QED
    BY <1>2, <2>1, <2>3, <2>6
<1>11. QED
  BY <1>4, <1>8, <1>9, <1>10 DEF BucketsRight

-----------------------------------------------------------------------------
(***************************************************************************)
(* Frequencies.                                                            *)
(***************************************************************************)
FreqStates == [block_freq : Maps(Block, Nat), vm_blocks : SUBSET Block,
               uniqBlocks : Seq(Block), newBlocks : Seq(Block)]

(* Counts after each block of a set has been counted once more. *)
Once(c, B) == [b \in DOMAIN c \cup B |->
                  (IF b \in DOMAIN c THEN c[b] ELSE 0) + (IF b \in B THEN 1 ELSE 0)]

CdsSum(c, cds) == SumFunctionOnSet(c, cds \cap DOMAIN c)

FreqOK(f) ==
    /\ f \in FreqStates
    /\ Len(f.uniqBlocks) = SumFunction(f.block_freq)
    /\ Range(f.newBlocks) = DOMAIN f.block_freq
    /\ Len(f.newBlocks) = Cardinality(DOMAIN f.block_freq)

(* After some blocks of a VM, which began with the counts c. *)
CountedOK(f, c, B, cds) ==
    /\ FreqOK(f)
    /\ f.vm_blocks = B
    /\ f.block_freq = Once(c, B)
    /\ CdsSum(f.block_freq, cds) = CdsSum(c, cds) + Cardinality(cds \cap B)

LEMMA FreqFields ==
    ASSUME NEW f \in FreqStates
    PROVE  /\ f = [block_freq |-> f.block_freq, vm_blocks |-> f.vm_blocks,
                   uniqBlocks |-> f.uniqBlocks, newBlocks |-> f.newBlocks]
           /\ IsMap(f.block_freq, Block, Nat) /\ f.vm_blocks \in SUBSET Block
           /\ f.uniqBlocks \in Seq(Block) /\ f.newBlocks \in Seq(Block)
<1>1. f.block_freq \in Maps(Block, Nat)
  BY DEF FreqStates
<1>2. IsMap(f.block_freq, Block, Nat)
  BY <1>1, MapIs
<1>3. QED
  BY <1>2 DEF FreqStates

LEMMA FreqMade ==
    ASSUME NEW f, f = [x \in DOMAIN f |-> f[x]],
           DOMAIN f = {"block_freq", "vm_blocks", "uniqBlocks", "newBlocks"},
           IsMap(f.block_freq, Block, Nat), f.vm_blocks \in SUBSET Block,
           f.uniqBlocks \in Seq(Block), f.newBlocks \in Seq(Block)
    PROVE  f \in FreqStates
<1>1. f.block_freq \in Maps(Block, Nat)
  BY MapIs
<1>2. f = [block_freq |-> f.block_freq, vm_blocks |-> f.vm_blocks,
           uniqBlocks |-> f.uniqBlocks, newBlocks |-> f.newBlocks]
  OBVIOUS
<1>3. QED
  BY <1>1, <1>2 DEF FreqStates

LEMMA OnceAnother ==
    ASSUME NEW c, IsMap(c, Block, Nat), NEW B \in SUBSET Block, NEW b \in Block, b \notin B
    PROVE  Incremented(Once(c, B), b) = Once(c, B \cup {b})
<1>1. \A x \in DOMAIN c : c[x] \in Nat
  BY DEF IsMap
<1>2. PICK d, e, a : d = Once(c, B) /\ e = Incremented(d, b) /\ a = Once(c, B \cup {b})
  OBVIOUS
<1>3. /\ DOMAIN d = DOMAIN c \cup B
      /\ \A x \in DOMAIN d : d[x] = (IF x \in DOMAIN c THEN c[x] ELSE 0) + (IF x \in B THEN 1 ELSE 0)
  BY <1>2 DEF Once
<1>4. e = [x \in DOMAIN d \cup {b} |-> IF x # b THEN d[x] ELSE IF b \in DOMAIN d THEN d[b] + 1 ELSE 1]
  BY <1>2 DEF Incremented
<1>5. a = [x \in DOMAIN c \cup (B \cup {b}) |->
              (IF x \in DOMAIN c THEN c[x] ELSE 0) + (IF x \in B \cup {b} THEN 1 ELSE 0)]
  BY <1>2 DEF Once
<1>6. DOMAIN e = DOMAIN a
  BY <1>3, <1>4, <1>5
<1>7. ASSUME NEW x \in DOMAIN a
      PROVE  e[x] = a[x]
  <2>1. PICK m \in Nat : m = IF x \in DOMAIN c THEN c[x] ELSE 0
    BY <1>1
  <2>2. a[x] = m + (IF x \in B \cup {b} THEN 1 ELSE 0)
    BY <1>5, <2>1
  <2>3. CASE x # b
    <3>1. x \in DOMAIN d /\ e[x] = d[x]
      BY <1>3, <1>4, <1>5, <2>3
    <3>2. d[x] = m + (IF x \in B THEN 1 ELSE 0)
      BY <1>3, <2>1, <3>1
    <3>3. x \in B \cup {b} <=> x \in B
      BY <2>3
    <3>4. QED
      BY <2>2, <3>1, <3>2, <3>3
  <2>4. CASE x = b /\ b \in DOMAIN c
    <3>1. e[x] = d[b] + 1 /\ d[b] = m + 0
      BY <1>3, <1>4, <1>5, <2>1, <2>4
    <3>2. QED
      BY <2>1, <2>2, <2>4, <3>1
  <2>5. CASE x = b /\ b \notin DOMAIN c
    <3>1. e[x] = 1 /\ m = 0
      BY <1>3, <1>4, <1>5, <2>1, <2>5
    <3>2. QED
      BY <2>2, <2>5, <3>1
  <2>6. QED
    BY <2>3, <2>4, <2>5
<1>8. e = [x \in DOMAIN e |-> e[x]] /\ a = [x \in DOMAIN a |-> a[x]]
  BY <1>4, <1>5
<1>9. e = a
  BY <1>6, <1>7, <1>8
<1>10. QED
  BY <1>2, <1>9

LEMMA OnceNone ==
    ASSUME NEW c, IsMap(c, Block, Nat)
    PROVE  Once(c, {}) = c
<1>1. (\A x \in DOMAIN c : c[x] \in Nat) /\ c = [x \in DOMAIN c |-> c[x]]
  BY DEF IsMap
<1>2. Once(c, {}) = [x \in DOMAIN c |-> c[x] + 0]
  BY DEF Once
<1>3. QED
  BY <1>1, <1>2

LEMMA CdsSumGrows ==
    ASSUME NEW c, IsMap(c, Block, Nat), NEW d, NEW b \in Block, OneMoreOf(d, c, b, Block), NEW cds
    PROVE  /\ CdsSum(c, cds) \in Nat
           /\ CdsSum(d, cds) = CdsSum(c, cds) + IF b \in cds THEN 1 ELSE 0
<1>1. PICK S : S = cds \cap DOMAIN c
  OBVIOUS
<1>2. IsFiniteSet(S) /\ \A x \in S : c[x] \in Nat
  BY <1>1, FS_Intersection DEF IsMap
<1>3. DOMAIN d = DOMAIN c \cup {b} /\ d[b] = (IF b \in DOMAIN c THEN c[b] ELSE 0) + 1
      /\ \A x \in DOMAIN c \ {b} : d[x] = c[x]
  BY DEF OneMoreOf
<1>4. SumFunctionOnSet(c, S) \in Nat /\ CdsSum(c, cds) = SumFunctionOnSet(c, S)
  BY <1>1, <1>2, SumType DEF CdsSum
<1>5. CASE b \in cds
  <2>1. cds \cap DOMAIN d = S \cup {b}
    BY <1>1, <1>3, <1>5
  <2>2. Changes(c, d, S, b, 1)
    <3>1. b \in S <=> b \in DOMAIN c
      BY <1>1, <1>5
    <3>2. \A x \in S \ {b} : d[x] = c[x]
      BY <1>1, <1>3
    <3>3. d[b] = (IF b \in S THEN c[b] ELSE 0) + 1
      BY <1>3, <3>1
    <3>4. QED
      BY <1>2, <3>2, <3>3 DEF Changes
  <2>3. SumFunctionOnSet(d, S \cup {b}) = SumFunctionOnSet(c, S) + 1
    BY <1>2, <2>2, SumChanged
  <2>4. QED
    BY <1>4, <1>5, <2>1, <2>3 DEF CdsSum
<1>6. CASE b \notin cds
  <2>1. cds \cap DOMAIN d = S /\ \A x \in S : d[x] = c[x]
    BY <1>1, <1>3, <1>6
  <2>2. SumFunctionOnSet(d, S) = SumFunctionOnSet(c, S)
    BY <1>2, <2>1, SumSame
  <2>3. CdsSum(d, cds) = CdsSum(c, cds)
    BY <1>4, <2>1, <2>2 DEF CdsSum
  <2>4. PICK n \in Nat : n = CdsSum(c, cds)
    BY <1>4
  <2>5. CdsSum(d, cds) = n + IF b \in cds THEN 1 ELSE 0
    BY <1>6, <2>3, <2>4
  <2>6. QED
    BY <2>4, <2>5
<1>7. QED
  BY <1>5, <1>6

LEMMA CountBlockOK ==
    ASSUME NEW c, IsMap(c, Block, Nat), NEW B \in SUBSET Block, IsFiniteSet(B), NEW cds,
           NEW f, CountedOK(f, c, B, cds), NEW b \in Block
    PROVE  CountedOK(CountBlock(f, b), c, B \cup {b}, cds)
<1>1. PICK d, u, w : f = [block_freq |-> d, vm_blocks |-> B, uniqBlocks |-> u, newBlocks |-> w]
  BY FreqFields DEF CountedOK, FreqOK
<1>2. /\ IsMap(d, Block, Nat) /\ u \in Seq(Block) /\ w \in Seq(Block)
      /\ Len(u) = SumFunction(d) /\ Range(w) = DOMAIN d /\ Len(w) = Cardinality(DOMAIN d)
      /\ d = Once(c, B)
      /\ CdsSum(d, cds) = CdsSum(c, cds) + Cardinality(cds \cap B)
  BY <1>1, FreqFields DEF CountedOK, FreqOK
<1>3. CASE b \in B
  <2>1. B \cup {b} = B
    BY <1>3
  <2>2. CountBlock(f, b) = f
    BY <1>1, <1>3 DEF CountBlock
  <2>3. QED
    BY <2>1, <2>2
<1>4. CASE b \notin B
  <2>1. PICK e, v, y : /\ e = Incremented(d, b) /\ v = Append(u, b)
                       /\ y = IF b \in DOMAIN d THEN w ELSE Append(w, b)
    OBVIOUS
  <2>2. OneMoreOf(e, d, b, Block)
    BY <1>2, <2>1, IncrementedIs
  <2>3. IsMap(e, Block, Nat) /\ DOMAIN e = DOMAIN d \cup {b}
    BY <2>2 DEF OneMoreOf
  <2>4. e = Once(c, B \cup {b})
    BY <1>2, <1>4, <2>1, OnceAnother
  <2>5. v \in Seq(Block) /\ Len(v) = SumFunction(e)
    <3>1. SumFunction(e) = SumFunction(d) + 1
      BY <1>2, <2>1, IncrementedSum
    <3>2. QED
      BY <1>2, <2>1, <3>1, AppendProperties
  <2>6. y \in Seq(Block) /\ Range(y) = DOMAIN e /\ Len(y) = Cardinality(DOMAIN e)
    <3>1. CASE b \in DOMAIN d
      BY <1>2, <2>1, <2>3, <3>1
    <3>2. CASE b \notin DOMAIN d
      <4>1. y = Append(w, b)
        BY <2>1, <3>2
      <4>2. y \in Seq(Block) /\ Len(y) = Len(w) + 1 /\ Range(y) = Range(w) \cup {b}
        BY <1>2, <4>1, AppendProperties, RangeAppend
      <4>3. IsFiniteSet(DOMAIN d)
        BY <1>2 DEF IsMap
      <4>4. Cardinality(DOMAIN d \cup {b}) = Cardinality(DOMAIN d) + 1
        BY <3>2, <4>3, FS_AddElement
      <4>5. QED
        BY <1>2, <2>3, <4>2, <4>4
    <3>3. QED
      BY <3>1, <3>2
  <2>7. CdsSum(e, cds) = CdsSum(c, cds) + Cardinality(cds \cap (B \cup {b}))
    <3>1. CdsSum(e, cds) = CdsSum(d, cds) + (IF b \in cds THEN 1 ELSE 0) /\ CdsSum(c, cds) \in Nat
      <4>1. OneMoreOf(Incremented(c, b), c, b, Block)
        BY IncrementedIs
      <4>2. QED
        BY <1>2, <2>2, <4>1, CdsSumGrows
    <3>2. IsFiniteSet(cds \cap B) /\ Cardinality(cds \cap B) \in Nat
      BY FS_Intersection, FS_CardinalityType
    <3>3. CASE b \in cds
      <4>1. cds \cap (B \cup {b}) = (cds \cap B) \cup {b} /\ b \notin cds \cap B
        BY <1>4, <3>3
      <4>2. Cardinality(cds \cap (B \cup {b})) = Cardinality(cds \cap B) + 1
        BY <3>2, <4>1, FS_AddElement
      <4>3. QED
        BY <1>2, <3>1, <3>2, <3>3, <4>2
    <3>4. CASE b \notin cds
      <4>1. cds \cap (B \cup {b}) = cds \cap B
        BY <3>4
      <4>2. PICK n \in Nat, k \in Nat : n = CdsSum(c, cds) /\ k = Cardinality(cds \cap B)
        BY <3>1, <3>2
      <4>3. CdsSum(d, cds) = n + k
        BY <1>2, <4>2
      <4>4. CdsSum(e, cds) = CdsSum(d, cds) + 0
        BY <3>1, <3>4
      <4>5. CdsSum(e, cds) = n + k
        BY <4>2, <4>3, <4>4
      <4>6. QED
        BY <4>1, <4>2, <4>5
    <3>5. QED
      BY <3>3, <3>4
  <2>8. PICK x : x = CountBlock(f, b)
    OBVIOUS
  <2>9. x = [f EXCEPT !.vm_blocks = B \cup {b}, !.block_freq = e, !.uniqBlocks = v, !.newBlocks = y]
    BY <1>1, <1>4, <2>1, <2>8 DEF CountBlock
  <2>10. /\ x = [i \in DOMAIN x |-> x[i]]
         /\ DOMAIN x = {"block_freq", "vm_blocks", "uniqBlocks", "newBlocks"}
         /\ x.block_freq = e /\ x.vm_blocks = B \cup {b} /\ x.uniqBlocks = v /\ x.newBlocks = y
    BY <1>1, <2>9
  <2>11. x \in FreqStates
    BY <2>3, <2>5, <2>6, <2>10, FreqMade
  <2>12. CountedOK(x, c, B \cup {b}, cds)
    BY <2>4, <2>5, <2>6, <2>7, <2>10, <2>11 DEF CountedOK, FreqOK
  <2>13. QED
    BY <2>8, <2>12
<1>5. QED
  BY <1>3, <1>4

LEMMA CountBlockType ==
    ASSUME NEW f \in FreqStates, NEW b \in Block
    PROVE  CountBlock(f, b) \in FreqStates
<1>1. PICK d, B, u, w : f = [block_freq |-> d, vm_blocks |-> B, uniqBlocks |-> u, newBlocks |-> w]
  BY FreqFields
<1>2. IsMap(d, Block, Nat) /\ B \in SUBSET Block /\ u \in Seq(Block) /\ w \in Seq(Block)
  BY <1>1, FreqFields
<1>3. CASE b \in B
  BY <1>1, <1>3 DEF CountBlock
<1>4. CASE b \notin B
  <2>1. PICK e, v, y : /\ e = Incremented(d, b) /\ v = Append(u, b)
                       /\ y = IF b \in DOMAIN d THEN w ELSE Append(w, b)
    OBVIOUS
  <2>2. OneMoreOf(e, d, b, Block)
    BY <1>2, <2>1, IncrementedIs
  <2>3. IsMap(e, Block, Nat) /\ v \in Seq(Block) /\ y \in Seq(Block) /\ B \cup {b} \in SUBSET Block
    BY <1>2, <2>1, <2>2, AppendProperties DEF OneMoreOf
  <2>4. PICK x : x = CountBlock(f, b)
    OBVIOUS
  <2>5. x = [f EXCEPT !.vm_blocks = B \cup {b}, !.block_freq = e, !.uniqBlocks = v, !.newBlocks = y]
    BY <1>1, <1>4, <2>1, <2>4 DEF CountBlock
  <2>6. /\ x = [i \in DOMAIN x |-> x[i]]
        /\ DOMAIN x = {"block_freq", "vm_blocks", "uniqBlocks", "newBlocks"}
        /\ x.block_freq = e /\ x.vm_blocks = B \cup {b} /\ x.uniqBlocks = v /\ x.newBlocks = y
    BY <1>1, <2>5
  <2>7. x \in FreqStates
    BY <2>3, <2>6, FreqMade
  <2>8. QED
    BY <2>4, <2>7
<1>5. QED
  BY <1>3, <1>4

AreCounted(g, f, blocks) ==
    /\ g[0] = f
    /\ \A n \in 0..Len(blocks) : g[n] \in FreqStates
    /\ \A n \in 1..Len(blocks) : g[n] = CountBlock(g[n - 1], blocks[n])

LEMMA DoBlockFreqIs ==
    ASSUME NEW f \in FreqStates, NEW blocks \in Blocks
    PROVE  \E g : AreCounted(g, f, blocks) /\ do_block_freq(f, blocks) = g[Len(blocks)]
<1> DEFINE step == [p \in FreqStates \X (1..Len(blocks)) |-> CountBlock(p[1], blocks[p[2]])]
           Goes(h) == h = [n \in 0..Len(blocks) |-> IF n = 0 THEN f ELSE CountBlock(h[n - 1], blocks[n])]
<1>0. Len(blocks) \in Nat /\ f \in FreqStates
  BY LenProperties DEF Blocks
<1>1. ASSUME NEW x \in FreqStates, NEW n \in 1..Len(blocks)
      PROVE  step[<<x, n>>] = CountBlock(x, blocks[n]) /\ step[<<x, n>>] \in FreqStates
  <2>1. PICK b \in Block : b = blocks[n]
    BY ElementOfSeq DEF Blocks
  <2>2. CountBlock(x, b) \in FreqStates
    BY CountBlockType
  <2>3. QED
    BY <2>1, <2>2
<1> HIDE DEF step
<1>2. PICK h : AreSteps(h, FreqStates, f, Len(blocks), step)
  BY <1>0, <1>1, StepsExist
<1>3. Goes(h)
  <2>1. /\ h = [n \in 0..Len(blocks) |-> h[n]] /\ h[0] = f
        /\ \A n \in 0..Len(blocks) : h[n] \in FreqStates
        /\ \A n \in 1..Len(blocks) : h[n] = step[<<h[n - 1], n>>]
    BY <1>2 DEF AreSteps
  <2>2. \A n \in 0..Len(blocks) : h[n] = IF n = 0 THEN f ELSE CountBlock(h[n - 1], blocks[n])
    <3>1. \A n \in 0..Len(blocks) : n # 0 => n \in 1..Len(blocks) /\ n - 1 \in 0..Len(blocks)
      BY <1>0
    <3>2. QED
      BY <1>1, <2>1, <3>1
  <2>3. QED
    BY <2>1, <2>2
<1>4. PICK g : Goes(g) /\ do_block_freq(f, blocks) = g[Len(blocks)]
  <2>1. do_block_freq(f, blocks) = (CHOOSE g : Goes(g))[Len(blocks)]
    BY DEF do_block_freq
  <2> HIDE DEF Goes
  <2>2. QED
    BY <1>3, <2>1
<1>5. g[0] = f /\ \A n \in 1..Len(blocks) : g[n] = CountBlock(g[n - 1], blocks[n])
  <2>1. g = [n \in 0..Len(blocks) |-> IF n = 0 THEN f ELSE CountBlock(g[n - 1], blocks[n])]
    BY <1>4
  <2>2. 0 \in 0..Len(blocks) /\ \A n \in 1..Len(blocks) : n \in 0..Len(blocks) /\ n # 0
    BY <1>0
  <2>3. QED
    BY <2>1, <2>2
<1> HIDE DEF Goes
<1>6. ASSUME NEW n \in 1..Len(blocks), g[n - 1] \in FreqStates
      PROVE  g[n] \in FreqStates
  <2>1. g[n] = step[<<g[n - 1], n>>] /\ step[<<g[n - 1], n>>] \in FreqStates
    BY <1>1, <1>5, <1>6
  <2>2. QED
    BY <2>1
<1>7. \A n \in 0..Len(blocks) : g[n] \in FreqStates
  <2>1. 0..Len(blocks) \subseteq {n \in 0..Len(blocks) : g[n] \in FreqStates}
    <3>1. 0 \in 0..Len(blocks) /\ \A n \in 1..Len(blocks) : n \in 0..Len(blocks)
      BY <1>0
    <3>2. g[0] \in FreqStates
      BY <1>0, <1>5
    <3>3. QED
      BY <1>0, <1>6, <3>1, <3>2, UpTo
  <2>2. QED
    BY <2>1
<1>8. QED
  BY <1>4, <1>5, <1>7 DEF AreCounted

LEMMA DoBlockFreqOK ==
    ASSUME NEW f, FreqOK(f), f.vm_blocks = {}, NEW blocks \in Blocks, NEW cds
    PROVE  CountedOK(do_block_freq(f, blocks), f.block_freq, Range(blocks), cds)
<1>0. blocks \in Seq(Block) /\ Len(blocks) \in Nat
  BY LenProperties DEF Blocks
<1>1. PICK g : AreCounted(g, f, blocks) /\ do_block_freq(f, blocks) = g[Len(blocks)]
  BY DoBlockFreqIs DEF FreqOK
<1>2. PICK T : AreOneByOne(T, << >>, blocks)
  BY DEF AreOneByOne
<1>3. /\ T[0] = << >> /\ T[Len(blocks)] = blocks
      /\ \A n \in 1..Len(blocks) : T[n - 1] \in Seq(Block) /\ T[n] = Append(T[n - 1], blocks[n])
  BY <1>0, <1>2, OneByOneFromNone, SMTT(30)
<1>4. PICK c : c = f.block_freq
  OBVIOUS
<1>5. IsMap(c, Block, Nat)
  BY <1>4, FreqFields DEF FreqOK
<1>6. CountedOK(g[0], c, Range(T[0]), cds)
  <2>1. Range(T[0]) = {}
    BY <1>3, EmptyRange
  <2>2. c = Once(c, {})
    BY <1>5, OnceNone
  <2>3. CdsSum(c, cds) \in Nat
    <3>1. IsFiniteSet(cds \cap DOMAIN c) /\ \A x \in cds \cap DOMAIN c : c[x] \in Nat
      BY <1>5, FS_Intersection DEF IsMap
    <3>2. QED
      BY <3>1, SumType DEF CdsSum
  <2>4. Cardinality(cds \cap {}) = 0
    <3>1. cds \cap {} = {}
      OBVIOUS
    <3>2. QED
      BY <3>1, FS_EmptySet
  <2>5. CdsSum(c, cds) = CdsSum(c, cds) + Cardinality(cds \cap {})
    BY <2>3, <2>4
  <2>6. g[0] = f
    BY <1>1 DEF AreCounted
  <2>7. QED
    BY <1>4, <2>1, <2>2, <2>5, <2>6 DEF CountedOK
<1>7. ASSUME NEW n \in 1..Len(blocks), CountedOK(g[n - 1], c, Range(T[n - 1]), cds)
      PROVE  CountedOK(g[n], c, Range(T[n]), cds)
  <2>1. PICK b \in Block : b = blocks[n]
    BY <1>0, ElementOfSeq
  <2>2. PICK p \in Seq(Block) : p = T[n - 1]
    BY <1>3
  <2>3. PICK x : x = g[n - 1]
    OBVIOUS
  <2>4. Range(p) \in SUBSET Block /\ IsFiniteSet(Range(p))
    BY RangeInBlock, RangeFinite
  <2>5. CountedOK(CountBlock(x, b), c, Range(p) \cup {b}, cds)
    BY <1>5, <1>7, <2>2, <2>3, <2>4, CountBlockOK
  <2>6. g[n] = CountBlock(x, b)
    BY <1>1, <2>1, <2>3 DEF AreCounted
  <2>7. Range(T[n]) = Range(p) \cup {b}
    <3>1. T[n] = Append(p, b)
      BY <1>3, <2>1, <2>2
    <3>2. Range(Append(p, b)) = Range(p) \cup {b}
      BY RangeAppend
    <3>3. QED
      BY <3>1, <3>2
  <2>8. QED
    BY <2>5, <2>6, <2>7
<1>8. 0..Len(blocks) \subseteq {n \in 0..Len(blocks) : CountedOK(g[n], c, Range(T[n]), cds)}
  <2>1. 0 \in 0..Len(blocks) /\ \A n \in 1..Len(blocks) : n \in 0..Len(blocks)
    BY <1>0
  <2>2. QED
    BY <1>0, <1>6, <1>7, <2>1, UpTo
<1>9. Len(blocks) \in 0..Len(blocks)
  BY <1>0
<1>10. QED
  BY <1>1, <1>3, <1>4, <1>8, <1>9

LEMMA LoadsRange ==
    ASSUME NEW vm \in Seq(Blocks)
    PROVE  Range(LoadsOf(vm)) = BlocksOfVm(vm)
<1>1. DOMAIN vm = 1..Len(vm) /\ Len(vm) \in Nat /\ \A n \in 1..Len(vm) : vm[n] \in Blocks
  BY LenProperties, ElementOfSeq
<1>2. PICK f : f = [n \in 1..Len(vm) |-> FlattenSeq(Segments(vm[n]))]
  OBVIOUS
<1>3. \A n \in 1..Len(vm) : f[n] \in Blocks
  <2>1. ASSUME NEW n \in 1..Len(vm)
        PROVE  FlattenSeq(Segments(vm[n])) \in Blocks
    <3>1. Segments(vm[n]) \in Seq(Blocks)
      BY <1>1, SegmentsType
    <3>2. QED
      BY <3>1, FlattenType DEF Blocks
  <2>2. QED
    BY <1>2, <2>1
<1>4. f = [n \in 1..Len(vm) |-> f[n]]
  BY <1>2
<1>5. f \in Seq(Blocks)
  BY <1>1, <1>3, <1>4, BlocksFunction
<1>6. Range(FlattenSeq(f)) = UNION {Range(x) : x \in Range(f)}
  BY <1>5, FlattenUnion
<1>7. {Range(x) : x \in Range(f)} = {Range(FlattenSeq(Segments(vm[n]))) : n \in DOMAIN vm}
  <2>1. Range(f) = {f[n] : n \in 1..Len(vm)}
    BY <1>2 DEF Range
  <2>2. QED
    BY <1>1, <1>2, <2>1
<1>8. LoadsOf(vm) = FlattenSeq(f)
  BY <1>1, <1>2 DEF LoadsOf, BlocksOf, FreqSegments
<1>9. QED
  BY <1>6, <1>7, <1>8 DEF BlocksOfVm

(* Between two VMs. *)
FreqStarts == {f \in FreqStates : FreqOK(f) /\ f.vm_blocks = {}}

VmCounted(f, c, B, cds) ==
    /\ f \in FreqStarts
    /\ f.block_freq = Once(c, B)
    /\ CdsSum(f.block_freq, cds) = CdsSum(c, cds) + Cardinality(cds \cap B)

LEMMA FreqsOfVmOK ==
    ASSUME NEW f \in FreqStarts, NEW vm \in Seq(Blocks), NEW cds
    PROVE  VmCounted(FreqsOfVm(f, vm), f.block_freq, BlocksOfVm(vm), cds)
<1>1. PICK blocks \in Blocks : blocks = LoadsOf(vm) /\ Range(blocks) = BlocksOfVm(vm)
  BY LoadsType, LoadsRange
<1>2. PICK g, c : g = do_block_freq(f, blocks) /\ c = f.block_freq
  OBVIOUS
<1>3. CountedOK(g, c, Range(blocks), cds)
  BY <1>2, DoBlockFreqOK DEF FreqStarts
<1>4. PICK d, u, w : g = [block_freq |-> d, vm_blocks |-> Range(blocks), uniqBlocks |-> u, newBlocks |-> w]
  BY <1>3, FreqFields DEF CountedOK, FreqOK
<1>5. PICK x : x = FreqsOfVm(f, vm)
  OBVIOUS
<1>6. x = [g EXCEPT !.vm_blocks = {}]
  BY <1>1, <1>2, <1>5 DEF FreqsOfVm
<1>7. /\ x = [i \in DOMAIN x |-> x[i]]
      /\ DOMAIN x = {"block_freq", "vm_blocks", "uniqBlocks", "newBlocks"}
      /\ x.block_freq = d /\ x.vm_blocks = {} /\ x.uniqBlocks = u /\ x.newBlocks = w
  BY <1>4, <1>6
<1>8. /\ IsMap(d, Block, Nat) /\ u \in Seq(Block) /\ w \in Seq(Block)
      /\ Len(u) = SumFunction(d) /\ Range(w) = DOMAIN d /\ Len(w) = Cardinality(DOMAIN d)
      /\ d = Once(c, Range(blocks))
      /\ CdsSum(d, cds) = CdsSum(c, cds) + Cardinality(cds \cap Range(blocks))
  BY <1>3, <1>4, FreqFields DEF CountedOK, FreqOK
<1>9. x \in FreqStates
  BY <1>7, <1>8, FreqMade
<1>10. FreqOK(x)
  BY <1>7, <1>8, <1>9 DEF FreqOK
<1>11. QED
  BY <1>1, <1>2, <1>5, <1>7, <1>8, <1>9, <1>10 DEF VmCounted, FreqStarts

LEMMA NoFreqsOK == NoFreqs \in FreqStarts
<1>1. PICK x : x = NoFreqs
  OBVIOUS
<1>2. /\ x = [i \in DOMAIN x |-> x[i]]
      /\ DOMAIN x = {"block_freq", "vm_blocks", "uniqBlocks", "newBlocks"}
      /\ x.block_freq = << >> /\ x.vm_blocks = {} /\ x.uniqBlocks = << >> /\ x.newBlocks = << >>
  BY <1>1 DEF NoFreqs
<1>3. IsMap(<< >>, Block, Nat) /\ DOMAIN << >> = {} /\ << >> \in Seq(Block) /\ {} \in SUBSET Block
  BY EmptyMap
<1>4. x \in FreqStates
  BY <1>2, <1>3, FreqMade
<1>5. Len(<< >>) = 0 /\ Cardinality({}) = 0
  BY FS_EmptySet
<1>6. SumFunction(<< >>) = 0
  BY <1>3, SumEmpty DEF SumFunction
<1>7. Range(<< >>) = {}
  BY EmptyRange
<1>8. FreqOK(x)
  BY <1>2, <1>3, <1>4, <1>5, <1>6, <1>7 DEF FreqOK
<1>9. QED
  BY <1>1, <1>2, <1>4, <1>8 DEF FreqStarts

AreFreqs(g, list) ==
    /\ g[0] = NoFreqs
    /\ \A n \in 0..Len(list) : g[n] \in FreqStarts
    /\ \A n \in 1..Len(list) : g[n] = FreqsOfVm(g[n - 1], list[n])

LEMMA BlockFreqsIs ==
    ASSUME NEW list \in Seq(Seq(Blocks))
    PROVE  \E g : AreFreqs(g, list) /\ BlockFreqs(list) = g[Len(list)]
<1> DEFINE step == [p \in FreqStarts \X (1..Len(list)) |-> FreqsOfVm(p[1], list[p[2]])]
           Goes(f) == f = [n \in 0..Len(list) |-> IF n = 0 THEN NoFreqs ELSE FreqsOfVm(f[n - 1], list[n])]
<1>0. Len(list) \in Nat /\ NoFreqs \in FreqStarts
  BY LenProperties, NoFreqsOK
<1>1. ASSUME NEW x \in FreqStarts, NEW n \in 1..Len(list)
      PROVE  step[<<x, n>>] = FreqsOfVm(x, list[n]) /\ step[<<x, n>>] \in FreqStarts
  <2>1. PICK vm \in Seq(Blocks) : vm = list[n]
    BY ElementOfSeq
  <2>2. VmCounted(FreqsOfVm(x, vm), x.block_freq, BlocksOfVm(vm), {})
    BY FreqsOfVmOK
  <2>3. FreqsOfVm(x, vm) \in FreqStarts
    BY <2>2 DEF VmCounted
  <2>4. QED
    BY <2>1, <2>3
<1> HIDE DEF step
<1>2. PICK f : AreSteps(f, FreqStarts, NoFreqs, Len(list), step)
  BY <1>0, <1>1, StepsExist
<1>3. Goes(f)
  <2>1. /\ f = [n \in 0..Len(list) |-> f[n]] /\ f[0] = NoFreqs
        /\ \A n \in 0..Len(list) : f[n] \in FreqStarts
        /\ \A n \in 1..Len(list) : f[n] = step[<<f[n - 1], n>>]
    BY <1>2 DEF AreSteps
  <2>2. \A n \in 0..Len(list) : f[n] = IF n = 0 THEN NoFreqs ELSE FreqsOfVm(f[n - 1], list[n])
    <3>1. \A n \in 0..Len(list) : n # 0 => n \in 1..Len(list) /\ n - 1 \in 0..Len(list)
      BY <1>0
    <3>2. QED
      BY <1>1, <2>1, <3>1
  <2>3. QED
    BY <2>1, <2>2
<1>4. PICK g : Goes(g) /\ BlockFreqs(list) = g[Len(list)]
  <2>1. BlockFreqs(list) = (CHOOSE g : Goes(g))[Len(list)]
    BY DEF BlockFreqs
  <2> HIDE DEF Goes
  <2>2. QED
    BY <1>3, <2>1
<1>5. g[0] = NoFreqs /\ \A n \in 1..Len(list) : g[n] = FreqsOfVm(g[n - 1], list[n])
  <2>1. g = [n \in 0..Len(list) |-> IF n = 0 THEN NoFreqs ELSE FreqsOfVm(g[n - 1], list[n])]
    BY <1>4
  <2>2. 0 \in 0..Len(list) /\ \A n \in 1..Len(list) : n \in 0..Len(list) /\ n # 0
    BY <1>0
  <2>3. QED
    BY <2>1, <2>2
<1> HIDE DEF Goes
<1>6. ASSUME NEW n \in 1..Len(list), g[n - 1] \in FreqStarts
      PROVE  g[n] \in FreqStarts
  <2>1. g[n] = step[<<g[n - 1], n>>] /\ step[<<g[n - 1], n>>] \in FreqStarts
    BY <1>1, <1>5, <1>6
  <2>2. QED
    BY <2>1
<1>7. \A n \in 0..Len(list) : g[n] \in FreqStarts
  <2>1. 0..Len(list) \subseteq {n \in 0..Len(list) : g[n] \in FreqStarts}
    <3>1. 0 \in 0..Len(list) /\ \A n \in 1..Len(list) : n \in 0..Len(list)
      BY <1>0
    <3>2. g[0] \in FreqStarts
      BY <1>0, <1>5
    <3>3. QED
      BY <1>0, <1>6, <3>1, <3>2, UpTo
  <2>2. QED
    BY <2>1
<1>8. QED
  BY <1>4, <1>5, <1>7 DEF AreFreqs

(* The frequencies in the first VMs of a list. *)
VmsWith(list, k, b) == {v \in 1..k : b \in BlocksOfVm(list[v])}

BlocksOfVms(list, k) == UNION {BlocksOfVm(list[v]) : v \in 1..k}

FreqIn(list, k) == [b \in BlocksOfVms(list, k) |-> Cardinality(VmsWith(list, k, b))]

CdsOfVms(list, cds) == [v \in 1..Len(list) |-> Cardinality(cds \cap BlocksOfVm(list[v]))]

FirstCounted(f, list, k, cds) ==
    /\ f \in FreqStarts
    /\ f.block_freq = FreqIn(list, k)
    /\ CdsSum(f.block_freq, cds) = SumFunctionOnSet(CdsOfVms(list, cds), 1..k)

LEMMA FreqInMore ==
    ASSUME NEW list, NEW k \in Nat
    PROVE  FreqIn(list, k + 1) = Once(FreqIn(list, k), BlocksOfVm(list[k + 1]))
<1>1. 1..(k + 1) = (1..k) \cup {k + 1} /\ k + 1 \notin 1..k
  OBVIOUS
<1>2. PICK B : B = BlocksOfVm(list[k + 1])
  OBVIOUS
<1>3. BlocksOfVms(list, k + 1) = BlocksOfVms(list, k) \cup B
  BY <1>1, <1>2 DEF BlocksOfVms
<1>4. PICK c, d, e : c = FreqIn(list, k) /\ d = FreqIn(list, k + 1) /\ e = Once(c, B)
  OBVIOUS
<1>5. DOMAIN c = BlocksOfVms(list, k) /\ \A b \in DOMAIN c : c[b] = Cardinality(VmsWith(list, k, b))
  BY <1>4 DEF FreqIn
<1>6. e = [b \in BlocksOfVms(list, k) \cup B |->
              (IF b \in DOMAIN c THEN c[b] ELSE 0) + (IF b \in B THEN 1 ELSE 0)]
  BY <1>4, <1>5 DEF Once
<1>7. d = [b \in BlocksOfVms(list, k) \cup B |-> Cardinality(VmsWith(list, k + 1, b))]
  BY <1>3, <1>4 DEF FreqIn
<1>8. \A b : IsFiniteSet(VmsWith(list, k, b)) /\ Cardinality(VmsWith(list, k, b)) \in Nat
  <2>1. IsFiniteSet(1..k)
    BY FS_Interval
  <2>2. \A b : VmsWith(list, k, b) \subseteq 1..k
    BY DEF VmsWith
  <2>3. QED
    BY <2>1, <2>2, FS_Subset, FS_CardinalityType
<1>9. ASSUME NEW b
      PROVE  Cardinality(VmsWith(list, k + 1, b))
             = Cardinality(VmsWith(list, k, b)) + (IF b \in B THEN 1 ELSE 0)
  <2>1. CASE b \in B
    <3>1. VmsWith(list, k + 1, b) = VmsWith(list, k, b) \cup {k + 1}
      BY <1>1, <1>2, <2>1 DEF VmsWith
    <3>2. k + 1 \notin VmsWith(list, k, b)
      BY <1>1 DEF VmsWith
    <3>3. Cardinality(VmsWith(list, k, b) \cup {k + 1}) = Cardinality(VmsWith(list, k, b)) + 1
      BY <1>8, <3>2, FS_AddElement
    <3>4. QED
      BY <2>1, <3>1, <3>3
  <2>2. CASE b \notin B
    <3>1. VmsWith(list, k + 1, b) = VmsWith(list, k, b)
      BY <1>1, <1>2, <2>2 DEF VmsWith
    <3>2. QED
      BY <1>8, <2>2, <3>1
  <2>3. QED
    BY <2>1, <2>2
<1>10. \A b : b \notin DOMAIN c => Cardinality(VmsWith(list, k, b)) = 0
  <2>1. ASSUME NEW b, b \notin DOMAIN c
        PROVE  VmsWith(list, k, b) = {}
    BY <1>5, <2>1 DEF VmsWith, BlocksOfVms
  <2>2. QED
    BY <2>1, FS_EmptySet
<1>11. ASSUME NEW b \in BlocksOfVms(list, k) \cup B
       PROVE  e[b] = d[b]
  <2>1. PICK n \in Nat : n = Cardinality(VmsWith(list, k, b))
    BY <1>8
  <2>2. n = IF b \in DOMAIN c THEN c[b] ELSE 0
    BY <1>5, <1>10, <2>1
  <2>3. d[b] = n + (IF b \in B THEN 1 ELSE 0)
    BY <1>7, <1>9, <2>1
  <2>4. e[b] = n + (IF b \in B THEN 1 ELSE 0)
    BY <1>6, <2>2
  <2>5. QED
    BY <2>3, <2>4
<1>12. DOMAIN d = DOMAIN e /\ DOMAIN d = BlocksOfVms(list, k) \cup B
       /\ d = [b \in DOMAIN d |-> d[b]] /\ e = [b \in DOMAIN e |-> e[b]]
  BY <1>6, <1>7
<1>13. d = e
  BY <1>11, <1>12
<1>14. QED
  BY <1>2, <1>4, <1>13

LEMMA BlockFreqsOK ==
    ASSUME NEW list \in Seq(Seq(Blocks)), NEW cds
    PROVE  FirstCounted(BlockFreqs(list), list, Len(list), cds)
<1>0. PICK k \in Nat : k = Len(list)
  BY LenProperties
<1>1. PICK g : AreFreqs(g, list) /\ BlockFreqs(list) = g[k]
  BY <1>0, BlockFreqsIs
<1>2. PICK h : h = CdsOfVms(list, cds)
  OBVIOUS
<1>3. /\ g[0] = NoFreqs /\ \A n \in 0..k : g[n] \in FreqStarts
      /\ \A n \in 1..k : g[n] = FreqsOfVm(g[n - 1], list[n])
  BY <1>0, <1>1 DEF AreFreqs
<1>4. FirstCounted(g[0], list, 0, cds)
  <2>1. g[0].block_freq = << >> /\ g[0] \in FreqStarts
    BY <1>3, NoFreqsOK DEF NoFreqs
  <2>2. FreqIn(list, 0) = << >>
    <3>1. BlocksOfVms(list, 0) = {}
      BY DEF BlocksOfVms
    <3>2. QED
      BY <3>1 DEF FreqIn
  <2>3. CdsSum(<< >>, cds) = 0 /\ SumFunctionOnSet(CdsOfVms(list, cds), 1..0) = 0
    <3>1. cds \cap DOMAIN << >> = {} /\ 1..0 = {}
      OBVIOUS
    <3>2. QED
      BY <3>1, SumEmpty DEF CdsSum
  <2>4. QED
    BY <2>1, <2>2, <2>3 DEF FirstCounted
<1>5. ASSUME NEW n \in 1..k, FirstCounted(g[n - 1], list, n - 1, cds)
      PROVE  FirstCounted(g[n], list, n, cds)
  <2>1. PICK vm \in Seq(Blocks) : vm = list[n]
    BY <1>0, ElementOfSeq
  <2>2. PICK i \in Nat : i = n - 1 /\ i + 1 = n
    OBVIOUS
  <2>3. PICK x \in FreqStarts : x = g[i]
    BY <1>3, <2>2
  <2>4. PICK y : y = g[n]
    OBVIOUS
  <2>5. PICK B : B = BlocksOfVm(vm)
    OBVIOUS
  <2>6. VmCounted(y, x.block_freq, B, cds)
    <3>1. y = FreqsOfVm(x, vm)
      BY <1>3, <2>1, <2>2, <2>3, <2>4
    <3>2. QED
      BY <2>5, <3>1, FreqsOfVmOK
  <2>7. x.block_freq = FreqIn(list, i) /\ CdsSum(x.block_freq, cds) = SumFunctionOnSet(h, 1..i)
    BY <1>2, <1>5, <2>2, <2>3 DEF FirstCounted
  <2>8. y.block_freq = FreqIn(list, n)
    <3>1. FreqIn(list, i + 1) = Once(FreqIn(list, i), BlocksOfVm(list[i + 1]))
      BY FreqInMore
    <3>2. QED
      BY <2>1, <2>2, <2>5, <2>6, <2>7, <3>1 DEF VmCounted
  <2>9. CdsSum(y.block_freq, cds) = SumFunctionOnSet(h, 1..n)
    <3>1. 1..n = (1..i) \cup {n} /\ n \notin 1..i /\ IsFiniteSet(1..i) /\ 1..n \subseteq 1..k
      BY <2>2, FS_Interval
    <3>2. ASSUME NEW v \in 1..k
          PROVE  h[v] = Cardinality(cds \cap BlocksOfVm(list[v])) /\ h[v] \in Nat
      <4>1. h[v] = Cardinality(cds \cap BlocksOfVm(list[v]))
        BY <1>0, <1>2 DEF CdsOfVms
      <4>2. PICK u \in Seq(Blocks) : u = list[v]
        BY <1>0, ElementOfSeq
      <4>3. PICK t \in Seq(Block) : t = LoadsOf(u)
        BY LoadsType DEF Blocks
      <4>4. IsFiniteSet(cds \cap Range(t))
        BY RangeFinite, FS_Intersection
      <4>5. Range(t) = BlocksOfVm(u)
        BY <4>3, LoadsRange
      <4>6. QED
        BY <4>1, <4>2, <4>4, <4>5, FS_CardinalityType
    <3>3. SumFunctionOnSet(h, (1..i) \cup {n}) = h[n] + SumFunctionOnSet(h, 1..i)
      <4>1. PICK S : S = 1..i
        OBVIOUS
      <4>2. IsFiniteSet(S) /\ n \notin S /\ \A v \in S \cup {n} : h[v] \in Nat
        BY <3>1, <3>2, <4>1
      <4>3. SumFunctionOnSet(h, S \cup {n}) = h[n] + SumFunctionOnSet(h, S)
        BY <4>2, SumAdd
      <4>4. QED
        BY <4>1, <4>3
    <3>4. SumFunctionOnSet(h, 1..i) \in Nat
      BY <3>1, <3>2, SumType
    <3>5. h[n] = Cardinality(cds \cap B) /\ h[n] \in Nat
      BY <2>1, <2>5, <3>2
    <3>6. CdsSum(y.block_freq, cds) = SumFunctionOnSet(h, 1..i) + h[n]
      BY <2>6, <2>7, <3>5 DEF VmCounted
    <3>7. PICK p \in Nat, q \in Nat : p = SumFunctionOnSet(h, 1..i) /\ q = h[n]
      BY <3>4, <3>5
    <3>8. SumFunctionOnSet(h, 1..n) = q + p
      BY <3>1, <3>3, <3>7
    <3>9. QED
      BY <3>6, <3>7, <3>8
  <2>10. QED
    BY <1>2, <2>4, <2>6, <2>8, <2>9 DEF FirstCounted, VmCounted
<1>6. 0..k \subseteq {n \in 0..k : FirstCounted(g[n], list, n, cds)}
  <2>1. 0 \in 0..k /\ \A n \in 1..k : n \in 0..k
    OBVIOUS
  <2>2. QED
    BY <1>4, <1>5, <2>1, UpTo
<1>7. k \in 0..k
  OBVIOUS
<1>8. QED
  BY <1>0, <1>1, <1>6, <1>7

-----------------------------------------------------------------------------
(***************************************************************************)
(* Heaps.  Half[n] is the place above n.                                   *)
(***************************************************************************)
Half == [n \in Nat |-> n \div 2]

(* All that the order of a heap needs. *)
IsTree(p, k) == \A n \in 2..k : p[n] \in 1..(n - 1)

LEMMA HalfIs ==
    /\ \A n \in Nat : Half[n] = n \div 2
    /\ \A k \in Nat : IsTree(Half, k)
    /\ \A n \in Nat, i \in Nat : n \div 2 = i <=> n = 2 * i \/ n = 2 * i + 1
<1>1. \A n \in Nat, i \in Nat : n \div 2 = i <=> n = 2 * i \/ n = 2 * i + 1
  OBVIOUS
<1>2. \A n \in Nat : n >= 2 => n \div 2 \in 1..(n - 1)
  OBVIOUS
<1>3. \A n \in Nat : Half[n] = n \div 2
  BY DEF Half
<1>4. ASSUME NEW k \in Nat, NEW n \in 2..k
      PROVE  Half[n] \in 1..(n - 1)
  <2>1. n \in Nat /\ n >= 2
    OBVIOUS
  <2>2. QED
    BY <1>2, <1>3, <2>1
<1>5. QED
  BY <1>1, <1>3, <1>4 DEF IsTree

InOrder(h, p) == \A n \in 2..Len(h) : h[p[n]] <= h[n]

(* In order but for i, which may be too great for what is below it, or too small. *)
OrderedBut(h, p, i) ==
    \A n \in 2..Len(h) : /\ p[n] # i => h[p[n]] <= h[n]
                         /\ p[n] = i /\ i > 1 => h[p[i]] <= h[n]

OrderedUpTo(h, p, i) ==
    \A n \in 2..Len(h) : /\ n # i => h[p[n]] <= h[n]
                         /\ p[n] = i /\ i > 1 => h[p[i]] <= h[n]

(* How many are as great. *)
Great(h, c) == Cardinality({n \in DOMAIN h : h[n] >= c})

AsMany(h, g) == \A c \in Nat : Great(h, c) = Great(g, c)

IsSwapped(g, h, i, j) ==
    /\ g \in Seq(Nat) /\ Len(g) = Len(h)
    /\ g[i] = h[j] /\ g[j] = h[i]
    /\ \A n \in 1..Len(h) : n # i /\ n # j => g[n] = h[n]

LEMMA GreatType ==
    ASSUME NEW h \in Seq(Nat), NEW c
    PROVE  /\ IsFiniteSet({n \in DOMAIN h : h[n] >= c})
           /\ Great(h, c) \in Nat /\ Great(h, c) <= Len(h)
<1>1. DOMAIN h = 1..Len(h) /\ Len(h) \in Nat
  BY LenProperties
<1>2. IsFiniteSet(1..Len(h)) /\ Cardinality(1..Len(h)) = Len(h)
  BY <1>1, FS_Interval, SMTT(30)
<1>3. PICK S : S = {n \in DOMAIN h : h[n] >= c}
  OBVIOUS
<1>4. S \subseteq 1..Len(h)
  BY <1>1, <1>3
<1>5. IsFiniteSet(S) /\ Cardinality(S) <= Len(h)
  BY <1>2, <1>4, FS_Subset
<1>6. QED
  BY <1>3, <1>5, FS_CardinalityType DEF Great

LEMMA SwappedIs ==
    ASSUME NEW h \in Seq(Nat), NEW i \in 1..Len(h), NEW j \in 1..Len(h)
    PROVE  IsSwapped(Swapped(h, i, j), h, i, j)
<1>1. PICK g : g = Swapped(h, i, j)
  OBVIOUS
<1>2. PICK a \in Nat, b \in Nat : a = h[i] /\ b = h[j]
  BY ElementOfSeq
<1>3. PICK f : f = [h EXCEPT ![i] = b]
  OBVIOUS
<1>4. /\ f \in Seq(Nat) /\ Len(f) = Len(h)
      /\ \A n \in 1..Len(h) : f[n] = IF n = i THEN b ELSE h[n]
  BY <1>3, ExceptSeq
<1>5. g = [f EXCEPT ![j] = a]
  BY <1>1, <1>2, <1>3 DEF Swapped
<1>6. /\ g \in Seq(Nat) /\ Len(g) = Len(f)
      /\ \A n \in 1..Len(f) : g[n] = IF n = j THEN a ELSE f[n]
  <2>1. j \in 1..Len(f)
    BY <1>4
  <2>2. QED
    BY <1>4, <1>5, <2>1, ExceptSeq
<1>7. QED
  BY <1>1, <1>2, <1>4, <1>6 DEF IsSwapped

LEMMA SwappedAsMany ==
    ASSUME NEW h \in Seq(Nat), NEW i \in 1..Len(h), NEW j \in 1..Len(h), NEW g, IsSwapped(g, h, i, j)
    PROVE  AsMany(g, h)
<1>1. DOMAIN h = 1..Len(h) /\ DOMAIN g = 1..Len(h)
  BY LenProperties DEF IsSwapped
<1>2. ASSUME NEW c \in Nat
      PROVE  Great(g, c) = Great(h, c)
  <2>1. PICK G, H : G = {n \in 1..Len(h) : g[n] >= c} /\ H = {n \in 1..Len(h) : h[n] >= c}
    OBVIOUS
  <2>2. /\ i \in G <=> j \in H
        /\ j \in G <=> i \in H
        /\ \A n \in 1..Len(h) : n # i /\ n # j => (n \in G <=> n \in H)
    BY <2>1 DEF IsSwapped
  <2>3. Great(g, c) = Cardinality(G) /\ Great(h, c) = Cardinality(H) /\ IsFiniteSet(H)
    BY <1>1, <2>1, GreatType DEF Great
  <2>4. G \subseteq 1..Len(h) /\ H \subseteq 1..Len(h)
    BY <2>1
  <2>5. CASE i \in H <=> j \in H
    <3>1. G = H
      <4>1. \A n \in 1..Len(h) : n \in G <=> n \in H
        BY <2>2, <2>5
      <4>2. QED
        BY <2>4, <4>1
    <3>2. QED
      BY <2>3, <3>1
  <2>6. CASE i \in H /\ j \notin H
    <3>1. G = (H \ {i}) \cup {j} /\ j \notin H \ {i}
      BY <2>2, <2>4, <2>6
    <3>2. IsFiniteSet(H \ {i}) /\ Cardinality(H \ {i}) = Cardinality(H) - 1
      BY <2>3, <2>6, FS_RemoveElement
    <3>3. Cardinality((H \ {i}) \cup {j}) = Cardinality(H \ {i}) + 1
      BY <3>1, <3>2, FS_AddElement
    <3>4. Cardinality(H) \in Nat
      BY <2>3, FS_CardinalityType
    <3>5. QED
      BY <2>3, <3>1, <3>2, <3>3, <3>4
  <2>7. CASE j \in H /\ i \notin H
    <3>1. G = (H \ {j}) \cup {i} /\ i \notin H \ {j}
      BY <2>2, <2>4, <2>7
    <3>2. IsFiniteSet(H \ {j}) /\ Cardinality(H \ {j}) = Cardinality(H) - 1
      BY <2>3, <2>7, FS_RemoveElement
    <3>3. Cardinality((H \ {j}) \cup {i}) = Cardinality(H \ {j}) + 1
      BY <3>1, <3>2, FS_AddElement
    <3>4. Cardinality(H) \in Nat
      BY <2>3, FS_CardinalityType
    <3>5. QED
      BY <2>3, <3>1, <3>2, <3>3, <3>4
  <2>8. QED
    BY <2>5, <2>6, <2>7
<1>3. QED
  BY <1>2 DEF AsMany

LEMMA ParentBelow ==
    ASSUME NEW k \in Nat, NEW p, IsTree(p, k), NEW n \in 2..k
    PROVE  p[n] \in 1..k /\ p[n] < n
<1>1. p[n] \in 1..(n - 1)
  BY DEF IsTree
<1>2. QED
  BY <1>1

LEMMA SwappedDown ==
    ASSUME NEW h \in Seq(Nat), NEW p, IsTree(p, Len(h)), NEW i \in 1..Len(h), OrderedBut(h, p, i),
           NEW s \in 2..Len(h), p[s] = i, h[s] <= h[i],
           \A n \in 2..Len(h) : p[n] = i => h[s] <= h[n],
           NEW g, IsSwapped(g, h, i, s)
    PROVE  OrderedBut(g, p, s)
<1>1. Len(h) \in Nat /\ \A n \in 1..Len(h) : h[n] \in Nat
  BY LenProperties, ElementOfSeq
<1>2. \A n \in 2..Len(h) : p[n] \in 1..Len(h) /\ p[n] < n
  BY <1>1, ParentBelow
<1>3. /\ Len(g) = Len(h) /\ g[i] = h[s] /\ g[s] = h[i] /\ i # s
      /\ \A n \in 1..Len(h) : n # i /\ n # s => g[n] = h[n]
  BY <1>2 DEF IsSwapped
<1>4. ASSUME NEW n \in 2..Len(h), p[n] # s
      PROVE  g[p[n]] <= g[n]
  <2>1. CASE n = i
    <3>1. g[p[i]] = h[p[i]] /\ h[p[i]] <= h[s]
      BY <1>2, <1>3, <1>4, <2>1 DEF OrderedBut
    <3>2. QED
      BY <1>3, <2>1, <3>1
  <2>2. CASE n = s
    BY <1>3, <2>2
  <2>3. CASE n # s /\ p[n] = i
    <3>1. n # i /\ g[n] = h[n]
      BY <1>2, <1>3, <2>3
    <3>2. QED
      BY <1>3, <2>3, <3>1
  <2>4. CASE n # s /\ n # i /\ p[n] # i
    <3>1. g[n] = h[n] /\ g[p[n]] = h[p[n]]
      BY <1>2, <1>3, <1>4, <2>4, SMTT(30)
    <3>2. QED
      BY <2>4, <3>1 DEF OrderedBut
  <2>5. QED
    BY <2>1, <2>2, <2>3, <2>4
<1>5. ASSUME NEW n \in 2..Len(h), p[n] = s
      PROVE  g[p[s]] <= g[n]
  <2>1. n # s /\ n # i
    BY <1>2, <1>5
  <2>2. g[n] = h[n] /\ h[s] <= h[n]
    BY <1>3, <1>5, <2>1 DEF OrderedBut
  <2>3. QED
    BY <1>3, <2>2
<1>6. QED
  BY <1>3, <1>4, <1>5 DEF OrderedBut

LEMMA SwappedUp ==
    ASSUME NEW h \in Seq(Nat), NEW p, IsTree(p, Len(h)), NEW i \in 2..Len(h), OrderedUpTo(h, p, i),
           NEW q, q = p[i], h[q] >= h[i], NEW g, IsSwapped(g, h, i, q)
    PROVE  OrderedUpTo(g, p, q)
<1>1. Len(h) \in Nat /\ \A n \in 1..Len(h) : h[n] \in Nat
  BY LenProperties, ElementOfSeq
<1>2. \A n \in 2..Len(h) : p[n] \in 1..Len(h) /\ p[n] < n
  BY <1>1, ParentBelow
<1>3. /\ Len(g) = Len(h) /\ g[i] = h[q] /\ g[q] = h[i] /\ i # q /\ q \in 1..Len(h)
      /\ \A n \in 1..Len(h) : n # i /\ n # q => g[n] = h[n]
  BY <1>2 DEF IsSwapped
<1>4. ASSUME NEW n \in 2..Len(h), n # q
      PROVE  g[p[n]] <= g[n]
  <2>1. CASE n = i
    BY <1>3, <2>1
  <2>2. CASE n # i /\ p[n] = i
    <3>1. h[q] <= h[n] /\ g[n] = h[n]
      BY <1>3, <1>4, <2>2 DEF OrderedUpTo
    <3>2. QED
      BY <1>3, <2>2, <3>1
  <2>3. CASE n # i /\ p[n] = q
    <3>1. g[n] = h[n] /\ h[q] <= h[n]
      BY <1>3, <1>4, <2>3 DEF OrderedUpTo
    <3>2. QED
      BY <1>1, <1>3, <2>3, <3>1
  <2>4. CASE n # i /\ p[n] # i /\ p[n] # q
    <3>1. g[n] = h[n] /\ g[p[n]] = h[p[n]]
      BY <1>2, <1>3, <1>4, <2>4
    <3>2. QED
      BY <2>4, <3>1 DEF OrderedUpTo
  <2>5. QED
    BY <2>1, <2>2, <2>3, <2>4
<1>5. ASSUME NEW n \in 2..Len(h), p[n] = q, q > 1
      PROVE  g[p[q]] <= g[n]
  <2>1. p[q] # q /\ p[q] # i /\ q \in 2..Len(h) /\ p[q] \in 1..Len(h)
    BY <1>2, <1>3, <1>5
  <2>2. g[p[q]] = h[p[q]] /\ h[p[q]] <= h[q]
    BY <1>3, <2>1 DEF OrderedUpTo
  <2>3. CASE n = i
    BY <1>3, <2>2, <2>3
  <2>4. CASE n # i
    <3>1. n # q
      BY <1>2, <1>5
    <3>2. g[n] = h[n] /\ h[q] <= h[n]
      BY <1>3, <1>5, <2>4, <3>1 DEF OrderedUpTo
    <3>3. h[p[q]] \in Nat /\ h[q] \in Nat /\ h[n] \in Nat
      BY <1>1, <1>3, <2>1
    <3>4. QED
      BY <2>2, <3>2, <3>3
  <2>5. QED
    BY <2>3, <2>4
<1>6. QED
  BY <1>3, <1>4, <1>5 DEF OrderedUpTo

(* The least of a heap is on top. *)
LEMMA TopIsLeast ==
    ASSUME NEW h \in Seq(Nat), NEW p, IsTree(p, Len(h)), InOrder(h, p)
    PROVE  \A n \in 1..Len(h) : h[1] <= h[n]
<1>1. Len(h) \in Nat /\ \A n \in 1..Len(h) : h[n] \in Nat
  BY LenProperties, ElementOfSeq
<1>2. PICK S : S = {n \in 1..Len(h) : h[n] < h[1]}
  OBVIOUS
<1>3. ASSUME S # {}
      PROVE  FALSE
  <2>0. S \in SUBSET Nat
    BY <1>2
  <2>1. PICK n \in S : \A m \in S : n <= m
    BY <1>3, <2>0, LeastNat
  <2>2. n \in 1..Len(h) /\ h[n] < h[1] /\ 1 \in 1..Len(h)
    BY <1>1, <1>2, <2>1
  <2>3. n \in 2..Len(h)
    BY <1>1, <2>2
  <2>4. PICK m \in 1..(n - 1) : m = p[n]
    BY <2>3 DEF IsTree
  <2>5. m \in 1..Len(h) /\ m \notin S
    BY <1>1, <2>1, <2>2, <2>4
  <2>6. h[m] <= h[n] /\ ~(h[m] < h[1])
    BY <1>2, <2>3, <2>4, <2>5 DEF InOrder
  <2>7. QED
    BY <1>1, <2>2, <2>5, <2>6
<1>4. ASSUME NEW n \in 1..Len(h)
      PROVE  h[1] <= h[n]
  <2>1. ~(h[n] < h[1]) /\ 1 \in 1..Len(h)
    BY <1>1, <1>2, <1>3
  <2>2. QED
    BY <1>1, <2>1
<1>5. QED
  BY <1>4

(* The place itself and those below it. *)
Near(h, i) == {j \in {i, 2 * i, 2 * i + 1} : j <= Len(h)}

LEMMA NearIs ==
    ASSUME NEW h \in Seq(Nat), NEW i \in 1..Len(h)
    PROVE  Near(h, i) = {i} \cup {n \in 2..Len(h) : Half[n] = i}
<1>1. Len(h) \in Nat /\ i \in Nat
  BY LenProperties
<1>2. ASSUME NEW n \in 2..Len(h)
      PROVE  Half[n] = i <=> n = 2 * i \/ n = 2 * i + 1
  <2>1. n \in Nat
    OBVIOUS
  <2>2. n \div 2 = i <=> n = 2 * i \/ n = 2 * i + 1
    BY <1>1, <2>1, HalfIs
  <2>3. Half[n] = n \div 2
    BY <2>1, HalfIs
  <2>4. QED
    BY <2>2, <2>3
<1>3. 2 * i \in 2..Len(h) <=> 2 * i <= Len(h)
  BY <1>1
<1>4. 2 * i + 1 \in 2..Len(h) <=> 2 * i + 1 <= Len(h)
  BY <1>1
<1>5. ASSUME NEW n
      PROVE  n \in Near(h, i) <=> n \in {i} \cup {m \in 2..Len(h) : Half[m] = i}
  <2>1. n \in Near(h, i) <=> n = i \/ (n = 2 * i /\ 2 * i <= Len(h)) \/ (n = 2 * i + 1 /\ 2 * i + 1 <= Len(h))
    BY <1>1 DEF Near
  <2>2. QED
    BY <1>2, <1>3, <1>4, <2>1
<1>6. QED
  BY <1>5

IsSmallest(h, i, s) ==
    /\ s \in Near(h, i)
    /\ \A k \in Near(h, i) : h[s] <= h[k]
    /\ \A k \in Near(h, i) : h[k] = h[s] => s <= k

LEMMA SmallestIs ==
    ASSUME NEW h \in Seq(Nat), NEW i \in 1..Len(h)
    PROVE  IsSmallest(h, i, Smallest(h, i))
<1>1. PICK near : near = Near(h, i)
  OBVIOUS
<1>2. i \in near /\ near \in SUBSET (1..Len(h))
  BY <1>1, NearIs
<1>3. \A n \in near : h[n] \in Nat /\ n \in Nat
  BY <1>2, ElementOfSeq
<1>4. PICK v \in {h[n] : n \in near} : \A w \in {h[n] : n \in near} : v <= w
  <2>1. {h[n] : n \in near} \in SUBSET Nat /\ {h[n] : n \in near} # {}
    BY <1>2, <1>3
  <2>2. QED
    BY <2>1, LeastNat
<1>5. PICK s \in {n \in near : h[n] = v} : \A k \in {n \in near : h[n] = v} : s <= k
  <2>1. {n \in near : h[n] = v} \in SUBSET Nat /\ {n \in near : h[n] = v} # {}
    BY <1>3, <1>4
  <2>2. QED
    BY <2>1, LeastNat
<1>6. s \in near /\ (\A k \in near : h[s] <= h[k]) /\ (\A k \in near : h[k] = h[s] => s <= k)
  BY <1>4, <1>5
<1>7. Smallest(h, i) = CHOOSE j \in near : /\ \A k \in near : h[j] <= h[k]
                                           /\ \A k \in near : h[k] = h[j] => j <= k
  BY <1>1 DEF Smallest, Near
<1>8. QED
  BY <1>1, <1>6, <1>7 DEF IsSmallest

(* A place in a heap. *)
Places == {at \in [heap : Seq(Nat), i : Nat] : at.i \in 1..Len(at.heap)}

LEMMA PlaceMade ==
    ASSUME NEW h \in Seq(Nat), NEW i \in 1..Len(h)
    PROVE  [heap |-> h, i |-> i] \in Places
<1>1. i \in Nat
  BY LenProperties
<1>2. QED
  BY <1>1 DEF Places

LEMMA LowerIs ==
    ASSUME NEW at \in Places, NEW h, h = at.heap, NEW i, i = at.i, NEW s, s = Smallest(h, i)
    PROVE  /\ h \in Seq(Nat) /\ i \in 1..Len(h) /\ s \in 1..Len(h)
           /\ IsSmallest(h, i, s) /\ IsSwapped(Swapped(h, i, s), h, i, s)
           /\ Lower(at).heap = Swapped(h, i, s) /\ Lower(at).i = s
           /\ Lower(at) \in Places
<1>1. h \in Seq(Nat) /\ i \in 1..Len(h)
  BY DEF Places
<1>2. IsSmallest(h, i, s)
  BY <1>1, SmallestIs
<1>3. s \in 1..Len(h)
  BY <1>1, <1>2, NearIs DEF IsSmallest
<1>4. IsSwapped(Swapped(h, i, s), h, i, s)
  BY <1>1, <1>3, SwappedIs
<1>5. Lower(at) = [heap |-> Swapped(h, i, s), i |-> s]
  BY DEF Lower
<1>6. Lower(at) \in Places
  <2>1. PICK g : g = Swapped(h, i, s)
    OBVIOUS
  <2>2. g \in Seq(Nat) /\ s \in 1..Len(g)
    BY <1>3, <1>4, <2>1 DEF IsSwapped
  <2>3. QED
    BY <1>5, <2>1, <2>2, PlaceMade
<1>7. QED
  BY <1>1, <1>2, <1>3, <1>4, <1>5, <1>6

AreLower(g, h, i) ==
    /\ g[0] = [heap |-> h, i |-> i]
    /\ \A n \in 0..Len(h) : g[n] \in Places
    /\ \A n \in 1..Len(h) : g[n] = Lower(g[n - 1])

LEMMA HeapifyIs ==
    ASSUME NEW h \in Seq(Nat), NEW i \in 1..Len(h)
    PROVE  \E g : AreLower(g, h, i) /\ min_heapify(h, i) = g[Len(h)].heap
<1> DEFINE step == [p \in Places \X (1..Len(h)) |-> Lower(p[1])]
           Goes(f) == f = [n \in 0..Len(h) |-> IF n = 0 THEN [heap |-> h, i |-> i] ELSE Lower(f[n - 1])]
<1>0. Len(h) \in Nat /\ [heap |-> h, i |-> i] \in Places
  BY LenProperties, PlaceMade
<1>1. ASSUME NEW x \in Places, NEW n \in 1..Len(h)
      PROVE  step[<<x, n>>] = Lower(x) /\ step[<<x, n>>] \in Places
  BY LowerIs
<1> HIDE DEF step
<1>2. PICK f : AreSteps(f, Places, [heap |-> h, i |-> i], Len(h), step)
  BY <1>0, <1>1, StepsExist
<1>3. Goes(f)
  <2>1. /\ f = [n \in 0..Len(h) |-> f[n]] /\ f[0] = [heap |-> h, i |-> i]
        /\ \A n \in 0..Len(h) : f[n] \in Places
        /\ \A n \in 1..Len(h) : f[n] = step[<<f[n - 1], n>>]
    BY <1>2 DEF AreSteps
  <2>2. \A n \in 0..Len(h) : f[n] = IF n = 0 THEN [heap |-> h, i |-> i] ELSE Lower(f[n - 1])
    <3>1. \A n \in 0..Len(h) : n # 0 => n \in 1..Len(h) /\ n - 1 \in 0..Len(h)
      BY <1>0
    <3>2. QED
      BY <1>1, <2>1, <3>1
  <2>3. QED
    BY <2>1, <2>2
<1>4. PICK g : Goes(g) /\ min_heapify(h, i) = g[Len(h)].heap
  <2>1. PICK G : G = CHOOSE g : Goes(g)
    OBVIOUS
  <2>2. min_heapify(h, i) = G[Len(h)].heap
    BY <2>1 DEF min_heapify
  <2> HIDE DEF Goes
  <2>3. QED
    BY <1>3, <2>1, <2>2
<1>5. g[0] = [heap |-> h, i |-> i] /\ \A n \in 1..Len(h) : g[n] = Lower(g[n - 1])
  <2>1. g = [n \in 0..Len(h) |-> IF n = 0 THEN [heap |-> h, i |-> i] ELSE Lower(g[n - 1])]
    BY <1>4
  <2>2. 0 \in 0..Len(h) /\ \A n \in 1..Len(h) : n \in 0..Len(h) /\ n # 0
    BY <1>0
  <2>3. QED
    BY <2>1, <2>2
<1> HIDE DEF Goes
<1>6. ASSUME NEW n \in 1..Len(h), g[n - 1] \in Places
      PROVE  g[n] \in Places
  <2>1. g[n] = step[<<g[n - 1], n>>] /\ step[<<g[n - 1], n>>] \in Places
    BY <1>1, <1>5, <1>6
  <2>2. QED
    BY <2>1
<1>7. \A n \in 0..Len(h) : g[n] \in Places
  <2>1. 0..Len(h) \subseteq {n \in 0..Len(h) : g[n] \in Places}
    <3>1. 0 \in 0..Len(h) /\ \A n \in 1..Len(h) : n \in 0..Len(h)
      BY <1>0
    <3>2. g[0] \in Places
      BY <1>0, <1>5
    <3>3. QED
      BY <1>0, <1>6, <3>1, <3>2, UpTo
  <2>2. QED
    BY <2>1
<1>8. QED
  BY <1>4, <1>5, <1>7 DEF AreLower

(* After n turns: in order, or so far below. *)
IsLowered(at, h, n) ==
    /\ at \in Places
    /\ Len(at.heap) = Len(h) /\ AsMany(at.heap, h)
    /\ OrderedBut(at.heap, Half, at.i)
    /\ InOrder(at.heap, Half) \/ at.i >= n + 1

LEMMA LowerOK ==
    ASSUME NEW h \in Seq(Nat), NEW n \in Nat, NEW at, IsLowered(at, h, n)
    PROVE  IsLowered(Lower(at), h, n + 1)
<1>1. PICK k, i : k = at.heap /\ i = at.i
  OBVIOUS
<1>2. PICK s : s = Smallest(k, i)
  OBVIOUS
<1>3. PICK g : g = Swapped(k, i, s)
  OBVIOUS
<1>4. /\ k \in Seq(Nat) /\ i \in 1..Len(k) /\ s \in 1..Len(k)
      /\ IsSmallest(k, i, s) /\ IsSwapped(g, k, i, s)
      /\ Lower(at).heap = g /\ Lower(at).i = s /\ Lower(at) \in Places
  BY <1>1, <1>2, <1>3, LowerIs DEF IsLowered
<1>5. /\ Len(k) = Len(h) /\ AsMany(k, h) /\ OrderedBut(k, Half, i)
      /\ InOrder(k, Half) \/ i >= n + 1
  BY <1>1 DEF IsLowered
<1>6. AsMany(g, h)
  <2>1. AsMany(g, k)
    BY <1>4, SwappedAsMany
  <2>2. QED
    BY <1>5, <2>1 DEF AsMany
<1>7. Len(g) = Len(h)
  BY <1>4, <1>5 DEF IsSwapped
<1>8. IsTree(Half, Len(k)) /\ Len(k) \in Nat
  BY <1>4, HalfIs, LenProperties
<1>9. Near(k, i) = {i} \cup {m \in 2..Len(k) : Half[m] = i}
  BY <1>4, NearIs
<1>10. \A m \in 1..Len(k) : k[m] \in Nat
  BY <1>4, ElementOfSeq
<1>11. CASE s = i
  <2>1. g = k
    <3>1. \A m \in 1..Len(k) : g[m] = k[m]
      BY <1>4, <1>11 DEF IsSwapped
    <3>2. g \in Seq(Nat) /\ Len(g) = Len(k)
      BY <1>4 DEF IsSwapped
    <3>3. QED
      BY <1>4, <3>1, <3>2, SeqEqual
  <2>2. InOrder(k, Half)
    <3>1. ASSUME NEW m \in 2..Len(k)
          PROVE  k[Half[m]] <= k[m]
      <4>1. CASE Half[m] = i
        <5>1. m \in Near(k, i)
          BY <1>9, <4>1
        <5>2. QED
          BY <1>4, <1>11, <4>1, <5>1 DEF IsSmallest
      <4>2. CASE Half[m] # i
        BY <1>5, <4>2 DEF OrderedBut
      <4>3. QED
        BY <4>1, <4>2
    <3>2. QED
      BY <3>1 DEF InOrder
  <2>3. QED
    BY <1>4, <1>5, <1>6, <1>7, <1>11, <2>1, <2>2 DEF IsLowered
<1>12. CASE s # i
  <2>1. s \in 2..Len(k) /\ Half[s] = i
    BY <1>4, <1>9, <1>12 DEF IsSmallest
  <2>2. k[s] <= k[i] /\ \A m \in 2..Len(k) : Half[m] = i => k[s] <= k[m]
    BY <1>4, <1>9 DEF IsSmallest
  <2>3. OrderedBut(g, Half, s)
    BY <1>4, <1>5, <1>8, <2>1, <2>2, SwappedDown
  <2>4. i < s
    BY <1>8, <2>1 DEF IsTree
  <2>5. ~InOrder(k, Half)
    <3>1. i \in Near(k, i) /\ i \in Nat /\ s \in Nat
      BY <1>4, <1>8, <1>9
    <3>2. k[i] # k[s]
      BY <1>4, <2>4, <3>1 DEF IsSmallest
    <3>3. ~(k[i] <= k[s])
      BY <1>4, <1>10, <2>2, <3>2
    <3>4. QED
      BY <2>1, <3>3 DEF InOrder
  <2>6. s >= (n + 1) + 1
    <3>1. i \in Nat /\ s \in Nat /\ i >= n + 1
      BY <1>4, <1>5, <1>8, <2>5
    <3>2. QED
      BY <2>4, <3>1
  <2>7. QED
    BY <1>4, <1>6, <1>7, <2>3, <2>6 DEF IsLowered
<1>13. QED
  BY <1>11, <1>12

LEMMA HeapifyOK ==
    ASSUME NEW h \in Seq(Nat), h # << >>, OrderedBut(h, Half, 1)
    PROVE  /\ min_heapify(h, 1) \in Seq(Nat) /\ Len(min_heapify(h, 1)) = Len(h)
           /\ AsMany(min_heapify(h, 1), h) /\ InOrder(min_heapify(h, 1), Half)
<1>1. Len(h) \in Nat /\ 1 \in 1..Len(h)
  BY LenProperties, EmptySeq
<1>2. PICK k \in Nat : k = Len(h)
  BY <1>1
<1>3. PICK g : AreLower(g, h, 1) /\ min_heapify(h, 1) = g[k].heap
  BY <1>1, <1>2, HeapifyIs
<1>4. g[0] = [heap |-> h, i |-> 1] /\ \A n \in 1..k : g[n] = Lower(g[n - 1])
  BY <1>2, <1>3 DEF AreLower
<1>5. IsLowered(g[0], h, 0)
  <2>1. g[0] \in Places /\ g[0].heap = h /\ g[0].i = 1
    BY <1>1, <1>4, PlaceMade
  <2>2. AsMany(h, h)
    BY DEF AsMany
  <2>3. QED
    BY <2>1, <2>2 DEF IsLowered
<1>6. ASSUME NEW n \in 1..k, IsLowered(g[n - 1], h, n - 1)
      PROVE  IsLowered(g[n], h, n)
  <2>1. PICK i \in Nat : i = n - 1 /\ i + 1 = n
    OBVIOUS
  <2>2. IsLowered(Lower(g[i]), h, i + 1)
    BY <1>6, <2>1, LowerOK
  <2>3. QED
    BY <1>4, <2>1, <2>2
<1>7. 0..k \subseteq {n \in 0..k : IsLowered(g[n], h, n)}
  <2>1. 0 \in 0..k /\ \A n \in 1..k : n \in 0..k
    OBVIOUS
  <2>2. QED
    BY <1>5, <1>6, <2>1, UpTo
<1>8. PICK at : at = g[k]
  OBVIOUS
<1>9. IsLowered(at, h, k)
  BY <1>7, <1>8
<1>10. at.heap \in Seq(Nat) /\ at.i \in 1..Len(at.heap) /\ Len(at.heap) = k
  BY <1>2, <1>9 DEF IsLowered, Places
<1>11. ~(at.i >= k + 1)
  BY <1>10
<1>12. QED
  BY <1>2, <1>3, <1>8, <1>9, <1>10, <1>11 DEF IsLowered

LEMMA GreatAppend ==
    ASSUME NEW h \in Seq(Nat), NEW e \in Nat, NEW c \in Nat
    PROVE  Great(Append(h, e), c) = Great(h, c) + IF e >= c THEN 1 ELSE 0
<1>1. PICK k \in Nat : k = Len(h) /\ DOMAIN h = 1..k
  BY LenProperties
<1>2. PICK t \in Seq(Nat) : t = Append(h, e)
  BY AppendProperties
<1>3. Len(t) = k + 1 /\ (\A n \in 1..k : t[n] = h[n]) /\ t[k + 1] = e
  BY <1>1, <1>2, AppendProperties
<1>4. DOMAIN t = (1..k) \cup {k + 1} /\ k + 1 \notin 1..k
  BY <1>1, <1>2, <1>3, LenProperties
<1>5. PICK H, T : H = {n \in DOMAIN h : h[n] >= c} /\ T = {n \in DOMAIN t : t[n] >= c}
  OBVIOUS
<1>6. IsFiniteSet(H) /\ Cardinality(H) = Great(h, c) /\ Great(h, c) \in Nat /\ Cardinality(T) = Great(t, c)
  BY <1>5, GreatType DEF Great
<1>7. CASE e >= c
  <2>1. T = H \cup {k + 1} /\ k + 1 \notin H
    BY <1>1, <1>3, <1>4, <1>5, <1>7
  <2>2. Cardinality(H \cup {k + 1}) = Cardinality(H) + 1
    BY <1>6, <2>1, FS_AddElement
  <2>3. QED
    BY <1>2, <1>6, <1>7, <2>1, <2>2
<1>8. CASE ~(e >= c)
  <2>1. T = H
    BY <1>1, <1>3, <1>4, <1>5, <1>8
  <2>2. QED
    BY <1>2, <1>6, <1>8, <2>1
<1>9. QED
  BY <1>7, <1>8

LEMMA GreatEmpty ==
    ASSUME NEW c
    PROVE  Great(<< >>, c) = 0
<1>1. {n \in DOMAIN << >> : << >>[n] >= c} = {}
  OBVIOUS
<1>2. QED
  BY <1>1, FS_EmptySet DEF Great

(* A heap without its least. *)
LEMMA DeleteMinOK ==
    ASSUME NEW h \in Seq(Nat), h # << >>, InOrder(h, Half)
    PROVE  /\ delete_min(h) \in Seq(Nat) /\ Len(delete_min(h)) = Len(h) - 1
           /\ InOrder(delete_min(h), Half)
           /\ \A c \in Nat : Great(h, c) = Great(delete_min(h), c) + IF h[1] >= c THEN 1 ELSE 0
<1>1. PICK k \in Nat : k = Len(h) /\ k # 0
  BY LenProperties, EmptySeq
<1>2. PICK f \in Seq(Nat), e \in Nat : f = Front(h) /\ e = Last(h) /\ h = Append(f, e)
  BY FrontLast
<1>3. Len(f) = k - 1 /\ (\A n \in 1..(k - 1) : h[n] = f[n]) /\ h[k] = e
  BY <1>1, <1>2, AppendProperties, LenProperties
<1>4. CASE k = 1
  <2>1. delete_min(h) = << >>
    BY <1>1, <1>4 DEF delete_min
  <2>2. f = << >>
    BY <1>3, <1>4, EmptySeq
  <2>3. h[1] = e
    BY <1>3, <1>4
  <2>4. \A c \in Nat : Great(h, c) = Great(<< >>, c) + IF h[1] >= c THEN 1 ELSE 0
    <3>1. ASSUME NEW c \in Nat
          PROVE  Great(h, c) = Great(f, c) + IF e >= c THEN 1 ELSE 0
      <4>1. Great(Append(f, e), c) = Great(f, c) + IF e >= c THEN 1 ELSE 0
        BY GreatAppend
      <4>2. QED
        BY <1>2, <4>1
    <3>2. QED
      BY <2>2, <2>3, <3>1
  <2>5. << >> \in Seq(Nat) /\ Len(<< >>) = 0 /\ InOrder(<< >>, Half)
    BY DEF InOrder
  <2>6. QED
    BY <1>1, <1>4, <2>1, <2>4, <2>5
<1>5. CASE k # 1
  <2>1. 1 \in 1..k /\ 1 \in 1..(k - 1) /\ k \in 1..k
    BY <1>1, <1>5
  <2>2. PICK r \in Nat : r = h[1]
    BY <1>1, <2>1, ElementOfSeq
  <2>3. PICK x : x = [f EXCEPT ![1] = e]
    OBVIOUS
  <2>4. /\ x \in Seq(Nat) /\ Len(x) = k - 1
        /\ \A n \in 1..(k - 1) : x[n] = IF n = 1 THEN e ELSE h[n]
    BY <1>3, <2>1, <2>3, ExceptSeq
  <2>5. PICK y \in Seq(Nat) : y = Append(x, r)
    BY <2>4, AppendProperties
  <2>6. Len(y) = k /\ (\A n \in 1..(k - 1) : y[n] = x[n]) /\ y[k] = r
    BY <1>1, <2>4, <2>5, AppendProperties
  <2>7. IsSwapped(y, h, 1, k)
    <3>1. y[1] = h[k] /\ y[k] = h[1]
      BY <1>3, <2>1, <2>2, <2>4, <2>6
    <3>2. ASSUME NEW n \in 1..k, n # 1, n # k
          PROVE  y[n] = h[n]
      <4>1. n \in 1..(k - 1)
        BY <3>2
      <4>2. QED
        BY <2>4, <2>6, <3>2, <4>1
    <3>3. QED
      BY <1>1, <2>6, <3>1, <3>2 DEF IsSwapped
  <2>8. AsMany(y, h)
    BY <1>1, <2>1, <2>7, SwappedAsMany
  <2>9. OrderedBut(x, Half, 1)
    <3>1. ASSUME NEW n \in 2..(k - 1), Half[n] # 1
          PROVE  x[Half[n]] <= x[n]
      <4>1. n \in 1..(k - 1) /\ n # 1 /\ n \in 2..k
        BY <1>1
      <4>2. Half[n] \in 1..(k - 1)
        <5>1. Half[n] \in 1..(n - 1)
          BY <1>1, <4>1, HalfIs DEF IsTree
        <5>2. QED
          BY <4>1, <5>1
      <4>3. h[Half[n]] <= h[n]
        BY <1>1, <4>1 DEF InOrder
      <4>4. QED
        BY <2>4, <3>1, <4>1, <4>2, <4>3
    <3>2. QED
      BY <2>4, <3>1 DEF OrderedBut
  <2>10. x # << >>
    BY <1>1, <1>5, <2>4
  <2>11. delete_min(h) = min_heapify(x, 1)
    <3>1. ~(Len(h) <= 1)
      BY <1>1, <1>5
    <3>2. QED
      BY <1>2, <2>3, <3>1 DEF delete_min
  <2>12. PICK d : d = delete_min(h)
    OBVIOUS
  <2>13. d \in Seq(Nat) /\ Len(d) = Len(x) /\ AsMany(d, x) /\ InOrder(d, Half)
    BY <2>4, <2>9, <2>10, <2>11, <2>12, HeapifyOK
  <2>14. ASSUME NEW c \in Nat
         PROVE  Great(h, c) = Great(d, c) + IF r >= c THEN 1 ELSE 0
    <3>1. Great(y, c) = Great(x, c) + IF r >= c THEN 1 ELSE 0
      BY <2>4, <2>5, GreatAppend
    <3>2. Great(y, c) = Great(h, c) /\ Great(d, c) = Great(x, c)
      BY <2>8, <2>13 DEF AsMany
    <3>3. QED
      BY <3>1, <3>2
  <2>15. QED
    BY <1>1, <2>2, <2>4, <2>12, <2>13, <2>14
<1>6. QED
  BY <1>4, <1>5

LEMMA HigherType ==
    ASSUME NEW at \in Places
    PROVE  Higher(at) \in Places
<1>1. PICK h, i : h \in Seq(Nat) /\ i \in 1..Len(h) /\ h = at.heap /\ i = at.i
  BY DEF Places
<1>2. CASE i > 1 /\ h[i \div 2] > h[i]
  <2>1. i \in Nat /\ i \in 2..Len(h)
    BY <1>1, <1>2, LenProperties
  <2>2. PICK q : q = i \div 2
    OBVIOUS
  <2>3. q \in 1..Len(h)
    <3>1. q = Half[i] /\ IsTree(Half, Len(h)) /\ Len(h) \in Nat
      BY <2>1, <2>2, HalfIs, LenProperties
    <3>2. q \in 1..(i - 1)
      BY <2>1, <3>1 DEF IsTree
    <3>3. QED
      BY <2>1, <3>1, <3>2
  <2>4. PICK g : g = Swapped(h, i, q)
    OBVIOUS
  <2>5. g \in Seq(Nat) /\ q \in 1..Len(g)
    BY <1>1, <2>1, <2>3, <2>4, SwappedIs DEF IsSwapped
  <2>6. Higher(at) = [heap |-> g, i |-> q]
    BY <1>1, <1>2, <2>2, <2>4 DEF Higher
  <2>7. QED
    BY <2>5, <2>6, PlaceMade
<1>3. CASE ~(i > 1 /\ h[i \div 2] > h[i])
  <2>1. Higher(at) = at
    BY <1>1, <1>3 DEF Higher
  <2>2. QED
    BY <2>1
<1>4. QED
  BY <1>2, <1>3

AreHigher(g, h, i) ==
    /\ g[0] = [heap |-> h, i |-> i]
    /\ \A n \in 0..Len(h) : g[n] \in Places
    /\ \A n \in 1..Len(h) : g[n] = Higher(g[n - 1])

LEMMA RaisedIs ==
    ASSUME NEW h \in Seq(Nat), NEW i \in 1..Len(h)
    PROVE  \E g : AreHigher(g, h, i) /\ Raised(h, i) = g[Len(h)].heap
<1> DEFINE step == [p \in Places \X (1..Len(h)) |-> Higher(p[1])]
           Goes(f) == f = [n \in 0..Len(h) |-> IF n = 0 THEN [heap |-> h, i |-> i] ELSE Higher(f[n - 1])]
<1>0. Len(h) \in Nat /\ [heap |-> h, i |-> i] \in Places
  BY LenProperties, PlaceMade
<1>1. ASSUME NEW x \in Places, NEW n \in 1..Len(h)
      PROVE  step[<<x, n>>] = Higher(x) /\ step[<<x, n>>] \in Places
  BY HigherType
<1> HIDE DEF step
<1>2. PICK f : AreSteps(f, Places, [heap |-> h, i |-> i], Len(h), step)
  BY <1>0, <1>1, StepsExist
<1>3. Goes(f)
  <2>1. /\ f = [n \in 0..Len(h) |-> f[n]] /\ f[0] = [heap |-> h, i |-> i]
        /\ \A n \in 0..Len(h) : f[n] \in Places
        /\ \A n \in 1..Len(h) : f[n] = step[<<f[n - 1], n>>]
    BY <1>2 DEF AreSteps
  <2>2. \A n \in 0..Len(h) : f[n] = IF n = 0 THEN [heap |-> h, i |-> i] ELSE Higher(f[n - 1])
    <3>1. \A n \in 0..Len(h) : n # 0 => n \in 1..Len(h) /\ n - 1 \in 0..Len(h)
      BY <1>0
    <3>2. QED
      BY <1>1, <2>1, <3>1
  <2>3. QED
    BY <2>1, <2>2
<1>4. PICK g : Goes(g) /\ Raised(h, i) = g[Len(h)].heap
  <2>1. PICK G : G = CHOOSE g : Goes(g)
    OBVIOUS
  <2>2. Raised(h, i) = G[Len(h)].heap
    BY <2>1 DEF Raised
  <2> HIDE DEF Goes
  <2>3. QED
    BY <1>3, <2>1, <2>2
<1>5. g[0] = [heap |-> h, i |-> i] /\ \A n \in 1..Len(h) : g[n] = Higher(g[n - 1])
  <2>1. g = [n \in 0..Len(h) |-> IF n = 0 THEN [heap |-> h, i |-> i] ELSE Higher(g[n - 1])]
    BY <1>4
  <2>2. 0 \in 0..Len(h) /\ \A n \in 1..Len(h) : n \in 0..Len(h) /\ n # 0
    BY <1>0
  <2>3. QED
    BY <2>1, <2>2
<1> HIDE DEF Goes
<1>6. ASSUME NEW n \in 1..Len(h), g[n - 1] \in Places
      PROVE  g[n] \in Places
  <2>1. g[n] = step[<<g[n - 1], n>>] /\ step[<<g[n - 1], n>>] \in Places
    BY <1>1, <1>5, <1>6
  <2>2. QED
    BY <2>1
<1>7. \A n \in 0..Len(h) : g[n] \in Places
  <2>1. 0..Len(h) \subseteq {n \in 0..Len(h) : g[n] \in Places}
    <3>1. 0 \in 0..Len(h) /\ \A n \in 1..Len(h) : n \in 0..Len(h)
      BY <1>0
    <3>2. g[0] \in Places
      BY <1>0, <1>5
    <3>3. QED
      BY <1>0, <1>6, <3>1, <3>2, UpTo
  <2>2. QED
    BY <2>1
<1>8. QED
  BY <1>4, <1>5, <1>7 DEF AreHigher

(* After n turns: in order, or so far up. *)
IsRaised(at, h, n) ==
    /\ at \in Places
    /\ Len(at.heap) = Len(h) /\ AsMany(at.heap, h)
    /\ OrderedUpTo(at.heap, Half, at.i)
    /\ InOrder(at.heap, Half) \/ at.i <= Len(h) - n

LEMMA HigherOK ==
    ASSUME NEW h \in Seq(Nat), NEW n \in Nat, NEW at, IsRaised(at, h, n)
    PROVE  IsRaised(Higher(at), h, n + 1)
<1>1. PICK k, i : k \in Seq(Nat) /\ i \in 1..Len(k) /\ k = at.heap /\ i = at.i
  BY DEF IsRaised, Places
<1>2. /\ Len(k) = Len(h) /\ AsMany(k, h) /\ OrderedUpTo(k, Half, i)
      /\ InOrder(k, Half) \/ i <= Len(h) - n
  BY <1>1 DEF IsRaised
<1>3. IsTree(Half, Len(k)) /\ Len(k) \in Nat /\ i \in Nat /\ Half[i] = i \div 2
  BY <1>1, HalfIs, LenProperties
<1>4. \A m \in 1..Len(k) : k[m] \in Nat
  BY <1>1, ElementOfSeq
<1>5. CASE i > 1 /\ k[i \div 2] > k[i]
  <2>1. i \in 2..Len(k)
    BY <1>1, <1>3, <1>5
  <2>2. PICK q : q = Half[i]
    OBVIOUS
  <2>3. q \in 1..(i - 1) /\ q \in 1..Len(k) /\ q < i
    <3>1. q \in 1..(i - 1)
      BY <1>3, <2>1, <2>2 DEF IsTree
    <3>2. QED
      BY <1>3, <2>1, <3>1
  <2>4. PICK g : g = Swapped(k, i, q)
    OBVIOUS
  <2>5. IsSwapped(g, k, i, q)
    BY <1>1, <2>3, <2>4, SwappedIs
  <2>6. k[q] >= k[i] /\ ~InOrder(k, Half)
    <3>1. k[q] > k[i]
      BY <1>3, <1>5, <2>2
    <3>2. k[q] \in Nat /\ k[i] \in Nat
      BY <1>1, <1>4, <2>3
    <3>3. ~(k[q] <= k[i]) /\ k[q] >= k[i]
      BY <3>1, <3>2
    <3>4. QED
      BY <2>1, <2>2, <3>3 DEF InOrder
  <2>7. OrderedUpTo(g, Half, q)
    BY <1>1, <1>2, <1>3, <2>1, <2>2, <2>3, <2>5, <2>6, SwappedUp
  <2>8. AsMany(g, h)
    <3>1. AsMany(g, k)
      BY <1>1, <2>3, <2>5, SwappedAsMany
    <3>2. QED
      BY <1>2, <3>1 DEF AsMany
  <2>9. Higher(at) = [heap |-> g, i |-> q]
    BY <1>1, <1>3, <1>5, <2>2, <2>4 DEF Higher
  <2>10. PICK x : x = Higher(at)
    OBVIOUS
  <2>11. x.heap = g /\ x.i = q /\ x \in Places
    BY <2>9, <2>10, HigherType DEF IsRaised
  <2>12. Len(g) = Len(h)
    BY <1>2, <2>5 DEF IsSwapped
  <2>13. q <= Len(h) - (n + 1)
    <3>1. i <= Len(h) - n /\ Len(h) \in Nat
      BY <1>2, <1>3, <2>6
    <3>2. q \in Nat
      BY <2>3
    <3>3. QED
      BY <1>3, <2>3, <3>1, <3>2
  <2>14. IsRaised(x, h, n + 1)
    BY <2>7, <2>8, <2>11, <2>12, <2>13 DEF IsRaised
  <2>15. QED
    BY <2>10, <2>14
<1>6. CASE ~(i > 1 /\ k[i \div 2] > k[i])
  <2>1. Higher(at) = at
    BY <1>1, <1>6 DEF Higher
  <2>2. InOrder(k, Half)
    <3>1. ASSUME NEW m \in 2..Len(k)
          PROVE  k[Half[m]] <= k[m]
      <4>1. CASE m = i
        <5>1. i > 1 /\ Half[i] \in 1..Len(k)
          <6>1. Half[i] \in 1..(i - 1)
            BY <1>3, <4>1 DEF IsTree
          <6>2. QED
            BY <1>3, <4>1, <6>1
        <5>2. ~(k[Half[i]] > k[i]) /\ k[Half[i]] \in Nat /\ k[i] \in Nat
          BY <1>1, <1>3, <1>4, <1>6, <4>1, <5>1
        <5>3. QED
          BY <4>1, <5>2
      <4>2. CASE m # i
        BY <1>2, <4>2 DEF OrderedUpTo
      <4>3. QED
        BY <4>1, <4>2
    <3>2. QED
      BY <3>1 DEF InOrder
  <2>3. QED
    BY <1>1, <2>1, <2>2 DEF IsRaised
<1>7. QED
  BY <1>5, <1>6

LEMMA RaisedOK ==
    ASSUME NEW h \in Seq(Nat), h # << >>, OrderedUpTo(h, Half, Len(h)), NEW r, r = Raised(h, Len(h))
    PROVE  /\ r \in Seq(Nat) /\ Len(r) = Len(h)
           /\ AsMany(r, h) /\ InOrder(r, Half)
<1>1. PICK k \in Nat : k = Len(h) /\ k # 0
  BY LenProperties, EmptySeq
<1>2. k \in 1..Len(h)
  BY <1>1
<1>3. PICK g : AreHigher(g, h, k) /\ r = g[k].heap
  BY <1>1, <1>2, RaisedIs
<1>4. g[0] = [heap |-> h, i |-> k] /\ \A n \in 1..k : g[n] = Higher(g[n - 1])
  BY <1>1, <1>3 DEF AreHigher
<1>5. IsRaised(g[0], h, 0)
  <2>1. g[0] \in Places /\ g[0].heap = h /\ g[0].i = k
    BY <1>2, <1>4, PlaceMade
  <2>2. AsMany(h, h)
    BY DEF AsMany
  <2>3. QED
    BY <1>1, <2>1, <2>2 DEF IsRaised
<1>6. ASSUME NEW n \in 1..k, IsRaised(g[n - 1], h, n - 1)
      PROVE  IsRaised(g[n], h, n)
  <2>1. PICK i \in Nat : i = n - 1 /\ i + 1 = n
    OBVIOUS
  <2>2. IsRaised(Higher(g[i]), h, i + 1)
    BY <1>6, <2>1, HigherOK
  <2>3. QED
    BY <1>4, <2>1, <2>2
<1>7. 0..k \subseteq {n \in 0..k : IsRaised(g[n], h, n)}
  <2>1. 0 \in 0..k /\ \A n \in 1..k : n \in 0..k
    OBVIOUS
  <2>2. QED
    BY <1>5, <1>6, <2>1, UpTo
<1>8. PICK at : at = g[k]
  OBVIOUS
<1>9. IsRaised(at, h, k)
  BY <1>7, <1>8
<1>10. at.heap \in Seq(Nat) /\ at.i \in 1..Len(at.heap) /\ Len(at.heap) = k
  BY <1>1, <1>9 DEF IsRaised, Places
<1>11. ~(at.i <= k - k)
  BY <1>10
<1>12. QED
  BY <1>1, <1>3, <1>8, <1>9, <1>10, <1>11 DEF IsRaised

LEMMA InsertMinOK ==
    ASSUME NEW h \in Seq(Nat), InOrder(h, Half), NEW e \in Nat
    PROVE  /\ insert_min(h, e) \in Seq(Nat) /\ Len(insert_min(h, e)) = Len(h) + 1
           /\ AsMany(insert_min(h, e), Append(h, e)) /\ InOrder(insert_min(h, e), Half)
<1>1. PICK k \in Nat : k = Len(h)
  BY LenProperties
<1>2. PICK t \in Seq(Nat) : t = Append(h, e)
  BY AppendProperties
<1>3. Len(t) = k + 1 /\ (\A n \in 1..k : t[n] = h[n]) /\ t # << >>
  BY <1>1, <1>2, AppendProperties
<1>4. IsTree(Half, k + 1)
  BY HalfIs
<1>5. OrderedUpTo(t, Half, k + 1)
  <2>1. ASSUME NEW n \in 2..(k + 1)
        PROVE  Half[n] # k + 1 /\ (n # k + 1 => t[Half[n]] <= t[n])
    <3>1. Half[n] \in 1..(n - 1)
      BY <1>4 DEF IsTree
    <3>2. Half[n] # k + 1
      BY <3>1
    <3>3. ASSUME n # k + 1
          PROVE  t[Half[n]] <= t[n]
      <4>1. n \in 2..k /\ n \in 1..k /\ Half[n] \in 1..k
        BY <3>1, <3>3
      <4>2. QED
        BY <1>1, <1>3, <4>1 DEF InOrder
    <3>4. QED
      BY <3>2, <3>3
  <2>2. QED
    BY <1>3, <2>1 DEF OrderedUpTo
<1>6. PICK r : r = insert_min(h, e)
  OBVIOUS
<1>7. r = Raised(t, Len(t))
  BY <1>1, <1>2, <1>3, <1>6 DEF insert_min
<1>8. r \in Seq(Nat) /\ Len(r) = Len(t) /\ AsMany(r, t) /\ InOrder(r, Half)
  BY <1>3, <1>5, <1>7, RaisedOK
<1>9. QED
  BY <1>1, <1>2, <1>3, <1>6, <1>8

-----------------------------------------------------------------------------
(* Equal, or both as much as m. *)
SameTo(a, b, m) == a = b \/ (a >= m /\ b >= m)

LEMMA SameMin ==
    ASSUME NEW a \in Nat, NEW b \in Nat, NEW m \in Nat, SameTo(a, b, m)
    PROVE  Min({a, m}) = Min({b, m})
<1>1. CASE a = b
  BY <1>1
<1>2. CASE a >= m /\ b >= m
  <2>1. Min({a, m}) \in {a, m} /\ Min({a, m}) <= m
    BY MinOfTwo
  <2>2. Min({b, m}) \in {b, m} /\ Min({b, m}) <= m
    BY MinOfTwo
  <2>3. QED
    BY <1>2, <2>1, <2>2
<1>3. QED
  BY <1>1, <1>2 DEF SameTo

(* How many of the first n are as great. *)
FirstGreat(s, n, c) == Cardinality({m \in 1..n : s[m] >= c})

LEMMA FirstGreatMore ==
    ASSUME NEW s, NEW n \in Nat, NEW c
    PROVE  /\ FirstGreat(s, n, c) \in Nat
           /\ FirstGreat(s, n + 1, c) = FirstGreat(s, n, c) + IF s[n + 1] >= c THEN 1 ELSE 0
<1>1. PICK F, G : F = {m \in 1..n : s[m] >= c} /\ G = {m \in 1..(n + 1) : s[m] >= c}
  OBVIOUS
<1>2. IsFiniteSet(F) /\ Cardinality(F) \in Nat
  <2>1. IsFiniteSet(1..n) /\ F \subseteq 1..n
    BY <1>1, FS_Interval
  <2>2. QED
    BY <2>1, FS_Subset, FS_CardinalityType
<1>3. 1..(n + 1) = (1..n) \cup {n + 1} /\ n + 1 \notin 1..n
  OBVIOUS
<1>4. CASE s[n + 1] >= c
  <2>1. G = F \cup {n + 1} /\ n + 1 \notin F
    BY <1>1, <1>3, <1>4
  <2>2. Cardinality(F \cup {n + 1}) = Cardinality(F) + 1
    BY <1>2, <2>1, FS_AddElement
  <2>3. QED
    BY <1>1, <1>2, <1>4, <2>1, <2>2 DEF FirstGreat
<1>5. CASE ~(s[n + 1] >= c)
  <2>1. G = F
    BY <1>1, <1>3, <1>5
  <2>2. QED
    BY <1>1, <1>2, <1>5, <2>1 DEF FirstGreat
<1>6. QED
  BY <1>4, <1>5

(* When the top is as great, all are. *)
LEMMA AllGreat ==
    ASSUME NEW h \in Seq(Nat), InOrder(h, Half), NEW c \in Nat, h[1] >= c, h # << >>
    PROVE  Great(h, c) = Len(h)
<1>1. PICK k \in Nat : k = Len(h) /\ k # 0 /\ DOMAIN h = 1..k
  BY LenProperties, EmptySeq
<1>2. \A n \in 1..k : h[n] \in Nat
  BY <1>1, ElementOfSeq
<1>3. \A n \in 1..k : h[1] <= h[n]
  BY <1>1, HalfIs, TopIsLeast
<1>4. 1 \in 1..k
  BY <1>1
<1>5. {n \in DOMAIN h : h[n] >= c} = 1..k
  BY <1>1, <1>2, <1>3, <1>4
<1>6. QED
  <2>1. Cardinality(1..k) = k
    BY FS_Interval
  <2>2. QED
    BY <1>1, <1>5, <2>1 DEF Great

(* A count goes into a heap of at most k. *)
WithCount(r, h, k, e) ==
    /\ r \in Seq(Nat) /\ InOrder(r, Half)
    /\ Len(r) = IF Len(h) = k THEN k ELSE Len(h) + 1
    /\ \A c \in Nat, b \in Nat : SameTo(Great(h, c), b, k - 1)
        => SameTo(Great(r, c), b + (IF e >= c THEN 1 ELSE 0), k - 1)

LEMMA TopkHeapOK ==
    ASSUME NEW h \in Seq(Nat), InOrder(h, Half), NEW k \in Nat \ {0}, Len(h) <= k, NEW e \in Nat,
           NEW r, r = topk_heap(h, k, e)
    PROVE  WithCount(r, h, k, e)
<1>1. Len(h) \in Nat
  BY LenProperties
<1>2. PICK d : d = IF Len(h) >= k THEN delete_min(h) ELSE h
  OBVIOUS
<1>3. r = insert_min(d, e)
  BY <1>2 DEF topk_heap
<1>4. /\ d \in Seq(Nat) /\ InOrder(d, Half)
      /\ Len(d) = IF Len(h) = k THEN k - 1 ELSE Len(h)
      /\ \A c \in Nat, b \in Nat : SameTo(Great(h, c), b, k - 1) => SameTo(Great(d, c), b, k - 1)
  <2>1. CASE Len(h) = k
    <3>1. h # << >> /\ d = delete_min(h)
      BY <1>1, <1>2, <2>1
    <3>2. /\ d \in Seq(Nat) /\ Len(d) = Len(h) - 1 /\ InOrder(d, Half)
          /\ \A c \in Nat : Great(h, c) = Great(d, c) + IF h[1] >= c THEN 1 ELSE 0
      BY <3>1, DeleteMinOK
    <3>3. ASSUME NEW c \in Nat, NEW b \in Nat, SameTo(Great(h, c), b, k - 1)
          PROVE  SameTo(Great(d, c), b, k - 1)
      <4>1. PICK m \in Nat, n \in Nat : m = Great(h, c) /\ n = Great(d, c)
        BY <3>2, GreatType
      <4>2. m = n + IF h[1] >= c THEN 1 ELSE 0
        BY <3>2, <4>1
      <4>3. h[1] >= c => m = k
        BY <2>1, <3>1, <4>1, AllGreat
      <4>4. QED
        BY <3>3, <4>1, <4>2, <4>3 DEF SameTo
    <3>4. QED
      BY <2>1, <3>2, <3>3
  <2>2. CASE Len(h) # k
    <3>1. d = h
      BY <1>1, <1>2, <2>2
    <3>2. QED
      BY <2>2, <3>1
  <2>3. QED
    BY <2>1, <2>2
<1>5. /\ r \in Seq(Nat) /\ Len(r) = Len(d) + 1
      /\ AsMany(r, Append(d, e)) /\ InOrder(r, Half)
  BY <1>3, <1>4, InsertMinOK
<1>6. ASSUME NEW c \in Nat, NEW b \in Nat, SameTo(Great(h, c), b, k - 1)
      PROVE  SameTo(Great(r, c), b + (IF e >= c THEN 1 ELSE 0), k - 1)
  <2>1. Great(r, c) = Great(d, c) + IF e >= c THEN 1 ELSE 0
    BY <1>4, <1>5, GreatAppend DEF AsMany
  <2>2. PICK n \in Nat : n = Great(d, c)
    BY <1>4, GreatType
  <2>3. SameTo(n, b, k - 1)
    BY <1>4, <1>6, <2>2
  <2>4. QED
    BY <2>1, <2>2, <2>3 DEF SameTo
<1>7. Len(r) = IF Len(h) = k THEN k ELSE Len(h) + 1
  BY <1>1, <1>4, <1>5
<1>8. QED
  BY <1>5, <1>6, <1>7 DEF WithCount

Heaps(k) == {h \in Seq(Nat) : InOrder(h, Half) /\ Len(h) <= k}

LEMMA EmptyHeap ==
    ASSUME NEW k \in Nat
    PROVE  << >> \in Heaps(k) /\ Len(<< >>) = 0
BY DEF Heaps, InOrder

LEMMA TopkHeapType ==
    ASSUME NEW k \in Nat \ {0}, NEW h \in Heaps(k), NEW e \in Nat
    PROVE  topk_heap(h, k, e) \in Heaps(k)
<1>1. PICK r : r = topk_heap(h, k, e)
  OBVIOUS
<1>2. h \in Seq(Nat) /\ InOrder(h, Half) /\ Len(h) <= k /\ Len(h) \in Nat
  BY LenProperties DEF Heaps
<1>3. /\ r \in Seq(Nat) /\ InOrder(r, Half)
      /\ Len(r) = IF Len(h) = k THEN k ELSE Len(h) + 1
      /\ \A c \in Nat, b \in Nat : SameTo(Great(h, c), b, k - 1)
             => SameTo(Great(r, c), b + (IF e >= c THEN 1 ELSE 0), k - 1)
  <2>1. WithCount(r, h, k, e)
    BY <1>1, <1>2, TopkHeapOK
  <2>2. QED
    BY <2>1 DEF WithCount
<1>4. QED
  BY <1>1, <1>2, <1>3 DEF Heaps

HeapFor(h, s, n, k) ==
    /\ h \in Heaps(k)
    /\ Len(h) = IF n <= k THEN n ELSE k
    /\ \A c \in Nat : SameTo(Great(h, c), FirstGreat(s, n, c), k - 1)

LEMMA HeapForMore ==
    ASSUME NEW s, NEW k \in Nat \ {0}, NEW n \in Nat, s[n + 1] \in Nat, NEW h, HeapFor(h, s, n, k)
    PROVE  HeapFor(topk_heap(h, k, s[n + 1]), s, n + 1, k)
<1>1. PICK e \in Nat : e = s[n + 1]
  OBVIOUS
<1>2. PICK r : r = topk_heap(h, k, e)
  OBVIOUS
<1>3. /\ h \in Seq(Nat) /\ InOrder(h, Half) /\ Len(h) <= k
      /\ Len(h) = IF n <= k THEN n ELSE k
  BY DEF HeapFor, Heaps
<1>4. /\ r \in Seq(Nat) /\ InOrder(r, Half)
      /\ Len(r) = IF Len(h) = k THEN k ELSE Len(h) + 1
      /\ \A c \in Nat, b \in Nat : SameTo(Great(h, c), b, k - 1)
             => SameTo(Great(r, c), b + (IF e >= c THEN 1 ELSE 0), k - 1)
  <2>1. WithCount(r, h, k, e)
    BY <1>2, <1>3, TopkHeapOK
  <2>2. QED
    BY <2>1 DEF WithCount
<1>5. Len(r) = (IF n + 1 <= k THEN n + 1 ELSE k) /\ Len(r) <= k
  BY <1>3, <1>4
<1>6. ASSUME NEW c \in Nat
      PROVE  SameTo(Great(r, c), FirstGreat(s, n + 1, c), k - 1)
  <2>1. PICK b \in Nat : b = FirstGreat(s, n, c)
    BY FirstGreatMore
  <2>2. FirstGreat(s, n + 1, c) = b + IF e >= c THEN 1 ELSE 0
    BY <1>1, <2>1, FirstGreatMore
  <2>3. SameTo(Great(h, c), b, k - 1)
    BY <2>1 DEF HeapFor
  <2>4. QED
    BY <1>4, <2>2, <2>3
<1>7. QED
  BY <1>1, <1>2, <1>4, <1>5, <1>6 DEF HeapFor, Heaps

AreHeaps(g, s, k) ==
    /\ g[0] = << >>
    /\ \A n \in 0..Len(s) : g[n] \in Heaps(k)
    /\ \A n \in 1..Len(s) : g[n] = topk_heap(g[n - 1], k, s[n])

LEMMA TopKIs ==
    ASSUME NEW s \in Seq(Nat), NEW k \in Nat \ {0}
    PROVE  \E g : AreHeaps(g, s, k) /\ TopK(s, k) = g[Len(s)]
<1> DEFINE step == [p \in Heaps(k) \X (1..Len(s)) |-> topk_heap(p[1], k, s[p[2]])]
           Goes(f) == f = [n \in 0..Len(s) |-> IF n = 0 THEN << >> ELSE topk_heap(f[n - 1], k, s[n])]
<1>0. Len(s) \in Nat /\ << >> \in Heaps(k)
  BY LenProperties, EmptyHeap
<1>1. ASSUME NEW x \in Heaps(k), NEW n \in 1..Len(s)
      PROVE  step[<<x, n>>] = topk_heap(x, k, s[n]) /\ step[<<x, n>>] \in Heaps(k)
  <2>1. s[n] \in Nat
    BY ElementOfSeq
  <2>2. topk_heap(x, k, s[n]) \in Heaps(k)
    BY <2>1, TopkHeapType
  <2>3. QED
    BY <2>2
<1> HIDE DEF step
<1>2. PICK f : AreSteps(f, Heaps(k), << >>, Len(s), step)
  BY <1>0, <1>1, StepsExist
<1>3. Goes(f)
  <2>1. /\ f = [n \in 0..Len(s) |-> f[n]] /\ f[0] = << >>
        /\ \A n \in 0..Len(s) : f[n] \in Heaps(k)
        /\ \A n \in 1..Len(s) : f[n] = step[<<f[n - 1], n>>]
    BY <1>2 DEF AreSteps
  <2>2. \A n \in 0..Len(s) : f[n] = IF n = 0 THEN << >> ELSE topk_heap(f[n - 1], k, s[n])
    <3>1. \A n \in 0..Len(s) : n # 0 => n \in 1..Len(s) /\ n - 1 \in 0..Len(s)
      BY <1>0
    <3>2. QED
      BY <1>1, <2>1, <3>1
  <2>3. QED
    BY <2>1, <2>2
<1>4. PICK g : Goes(g) /\ TopK(s, k) = g[Len(s)]
  <2>1. TopK(s, k) = (CHOOSE g : Goes(g))[Len(s)]
    BY DEF TopK
  <2> HIDE DEF Goes
  <2>2. QED
    BY <1>3, <2>1
<1>5. g[0] = << >> /\ \A n \in 1..Len(s) : g[n] = topk_heap(g[n - 1], k, s[n])
  <2>1. g = [n \in 0..Len(s) |-> IF n = 0 THEN << >> ELSE topk_heap(g[n - 1], k, s[n])]
    BY <1>4
  <2>2. 0 \in 0..Len(s) /\ \A n \in 1..Len(s) : n \in 0..Len(s) /\ n # 0
    BY <1>0
  <2>3. QED
    BY <2>1, <2>2
<1> HIDE DEF Goes
<1>6. ASSUME NEW n \in 1..Len(s), g[n - 1] \in Heaps(k)
      PROVE  g[n] \in Heaps(k)
  <2>1. g[n] = step[<<g[n - 1], n>>] /\ step[<<g[n - 1], n>>] \in Heaps(k)
    BY <1>1, <1>5, <1>6
  <2>2. QED
    BY <2>1
<1>7. \A n \in 0..Len(s) : g[n] \in Heaps(k)
  <2>1. 0..Len(s) \subseteq {n \in 0..Len(s) : g[n] \in Heaps(k)}
    <3>1. 0 \in 0..Len(s) /\ \A n \in 1..Len(s) : n \in 0..Len(s)
      BY <1>0
    <3>2. g[0] \in Heaps(k)
      BY <1>0, <1>5
    <3>3. QED
      BY <1>0, <1>6, <3>1, <3>2, UpTo
  <2>2. QED
    BY <2>1
<1>8. QED
  BY <1>4, <1>5, <1>7 DEF AreHeaps

LEMMA TopKOK ==
    ASSUME NEW s \in Seq(Nat), NEW k \in Nat \ {0}
    PROVE  TopKRight(s, k)
<1>1. PICK m \in Nat : m = Len(s) /\ DOMAIN s = 1..m
  BY LenProperties
<1>2. \A n \in 1..m : s[n] \in Nat
  BY <1>1, ElementOfSeq
<1>3. PICK g : AreHeaps(g, s, k) /\ TopK(s, k) = g[m]
  BY <1>1, TopKIs
<1>4. g[0] = << >> /\ \A n \in 1..m : g[n] = topk_heap(g[n - 1], k, s[n])
  BY <1>1, <1>3 DEF AreHeaps
<1>5. HeapFor(g[0], s, 0, k)
  <2>1. ASSUME NEW c \in Nat
        PROVE  Great(<< >>, c) = FirstGreat(s, 0, c)
    <3>1. {n \in 1..0 : s[n] >= c} = {}
      OBVIOUS
    <3>2. QED
      BY <3>1, GreatEmpty, FS_EmptySet DEF FirstGreat
  <2>2. QED
    BY <1>4, <2>1, EmptyHeap DEF HeapFor, SameTo
<1>6. ASSUME NEW n \in 1..m, HeapFor(g[n - 1], s, n - 1, k)
      PROVE  HeapFor(g[n], s, n, k)
  <2>1. PICK i \in Nat : i = n - 1 /\ i + 1 = n
    OBVIOUS
  <2>2. HeapFor(topk_heap(g[i], k, s[i + 1]), s, i + 1, k)
    BY <1>2, <1>6, <2>1, HeapForMore
  <2>3. QED
    BY <1>4, <2>1, <2>2
<1>7. 0..m \subseteq {n \in 0..m : HeapFor(g[n], s, n, k)}
  <2>1. 0 \in 0..m /\ \A n \in 1..m : n \in 0..m
    OBVIOUS
  <2>2. QED
    BY <1>5, <1>6, <2>1, UpTo
<1>8. PICK h : h = TopK(s, k)
  OBVIOUS
<1>9. HeapFor(h, s, m, k)
  BY <1>3, <1>7, <1>8
<1>10. h \in Seq(Nat) /\ InOrder(h, Half) /\ Len(h) = IF m <= k THEN m ELSE k
  BY <1>9 DEF HeapFor, Heaps
<1>11. Len(h) = Min({k, Len(s)})
  <2>1. Min({k, m}) \in {k, m} /\ Min({k, m}) <= k /\ Min({k, m}) <= m
    BY MinOfTwo
  <2>2. QED
    BY <1>1, <1>10, <2>1
<1>12. ASSUME NEW n \in 2..Len(h)
       PROVE  h[n \div 2] <= h[n]
  <2>1. n \in Nat
    OBVIOUS
  <2>2. Half[n] = n \div 2
    BY <2>1, HalfIs
  <2>3. h[Half[n]] <= h[n]
    BY <1>10 DEF InOrder
  <2>4. QED
    BY <2>2, <2>3
<1>13. ASSUME NEW c \in Range(s) \cup Range(h)
       PROVE  Min({Great(h, c), k - 1}) = Min({Great(s, c), k - 1})
  <2>1. c \in Nat
    <3>1. ASSUME NEW q \in Seq(Nat), c \in Range(q)
          PROVE  c \in Nat
      BY <3>1, LenProperties, ElementOfSeq DEF Range
    <3>2. QED
      BY <1>10, <3>1
  <2>2. SameTo(Great(h, c), Great(s, c), k - 1)
    BY <1>1, <1>9, <2>1 DEF HeapFor, FirstGreat, Great
  <2>3. QED
    <3>1. PICK a \in Nat, b \in Nat : a = Great(h, c) /\ b = Great(s, c)
      BY <1>10, GreatType
    <3>2. PICK j \in Nat : j = k - 1
      OBVIOUS
    <3>3. Min({a, j}) = Min({b, j})
      BY <2>2, <3>1, <3>2, SameMin
    <3>4. QED
      BY <3>1, <3>2, <3>3
<1>14. QED
  BY <1>8, <1>11, <1>12, <1>13 DEF TopKRight, Great

-----------------------------------------------------------------------------
(* The counts in order are numbers: the n-th block is the one with n - 1 below it. *)
LEMMA CountsType ==
    ASSUME NEW c, IsMap(c, Block, Nat)
    PROVE  CountsOf(c) \in Seq(Nat)
<1>1. PICK B : B = DOMAIN c
  OBVIOUS
<1>2. B \in SUBSET Nat /\ IsFiniteSet(B) /\ \A b \in B : c[b] \in Nat
  BY <1>1, TraceAssumption DEF IsMap
<1>3. PICK k \in Nat : k = Cardinality(B)
  BY <1>2, FS_CardinalityType
<1>4. ASSUME NEW n \in 1..k
      PROVE  c[CHOOSE b \in B : Cardinality({a \in B : a < b}) = n - 1] \in Nat
  <2>1. PICK m \in Nat : m = n - 1 /\ m < n /\ m <= k /\ n <= k
    OBVIOUS
  <2>2. PICK F, G : F = FirstOf(B, m) /\ G = FirstOf(B, n)
    OBVIOUS
  <2>3. Cardinality(F) = m /\ Cardinality(G) = n
    BY <1>2, <1>3, <2>1, <2>2, FirstOfCount
  <2>4. ~(G \subseteq F)
    <3>1. F \subseteq B
      BY <2>2, FirstOfBelow
    <3>2. G \subseteq F => Cardinality(G) <= Cardinality(F)
      BY <1>2, <3>1, FS_Subset
    <3>3. QED
      BY <2>1, <2>3, <3>2
  <2>5. PICK b \in G : b \notin F
    BY <2>4
  <2>6. b \in B /\ Cardinality(Below(B, b)) < n /\ ~(Cardinality(Below(B, b)) < m)
    BY <2>2, <2>5, FirstOfBelow
  <2>7. Cardinality(Below(B, b)) = n - 1
    BY <1>2, <2>1, <2>6, BelowFinite
  <2>8. PICK a : a = CHOOSE x \in B : Cardinality({y \in B : y < x}) = n - 1
    OBVIOUS
  <2>9. a \in B
    BY <2>6, <2>7, <2>8 DEF Below
  <2>10. QED
    BY <1>2, <2>8, <2>9
<1>5. CountsOf(c) = [n \in 1..k |-> c[CHOOSE b \in B : Cardinality({a \in B : a < b}) = n - 1]]
  BY <1>1, <1>3 DEF CountsOf
<1>6. PICK f : f = CountsOf(c)
  OBVIOUS
<1>7. f = [n \in 1..k |-> f[n]] /\ \A n \in 1..k : f[n] \in Nat
  BY <1>4, <1>5, <1>6
<1>8. QED
  BY <1>6, <1>7, FunctionIsSeq

LEMMA VmsFrequenciesRight ==
    ASSUME VmsOK
    PROVE  FrequenciesRight
<1>1. vms \in Seq(Seq(Blocks))
  <2>1. Vm \subseteq Seq(Blocks) /\ vms \in Seq(Vm)
    BY DEF Vm, VmsOK
  <2>2. QED
    BY <2>1, SeqMonotonic
<1>2. PICK k \in Nat : k = Len(vms) /\ DOMAIN vms = 1..k
  BY <1>1, LenProperties
<1>3. PICK f : f = BlockFreqs(vms)
  OBVIOUS
<1>4. PICK c : c = f.block_freq
  OBVIOUS
<1>5. \A cds : FirstCounted(f, vms, k, cds)
  BY <1>1, <1>2, <1>3, BlockFreqsOK
<1>6. f \in FreqStarts /\ c = FreqIn(vms, k)
  BY <1>4, <1>5 DEF FirstCounted
<1>7. FreqOK(f) /\ IsMap(c, Block, Nat)
  BY <1>4, <1>6, FreqFields DEF FreqStarts
<1>8. c = [b \in UNION {BlocksOfVm(vms[v]) : v \in DOMAIN vms} |->
              Cardinality({v \in DOMAIN vms : b \in BlocksOfVm(vms[v])})]
  BY <1>2, <1>6 DEF FreqIn, BlocksOfVms, VmsWith
<1>9. ASSUME NEW cds
      PROVE  CdsLinks(c, cds).cds_sum
             = SumFunction([v \in DOMAIN vms |-> Cardinality(cds \cap BlocksOfVm(vms[v]))])
  <2>1. PICK h : h = [v \in DOMAIN vms |-> Cardinality(cds \cap BlocksOfVm(vms[v]))]
    OBVIOUS
  <2>2. h = CdsOfVms(vms, cds) /\ DOMAIN h = 1..k
    BY <1>2, <2>1 DEF CdsOfVms
  <2>3. CdsSum(c, cds) = SumFunctionOnSet(h, 1..k)
    BY <1>4, <1>5, <2>2 DEF FirstCounted
  <2>4. CdsLinks(c, cds).cds_sum = CdsSum(c, cds)
    BY DEF CdsLinks, CdsSum
  <2>5. QED
    BY <2>1, <2>2, <2>3, <2>4 DEF SumFunction
<1>10. \A n \in 1..Cardinality(DOMAIN c) : TopKRight(CountsOf(c), n)
  <2>1. PICK s \in Seq(Nat) : s = CountsOf(c)
    BY <1>7, CountsType
  <2>2. Cardinality(DOMAIN c) \in Nat
    BY <1>7, FS_CardinalityType DEF IsMap
  <2>3. \A n \in 1..Cardinality(DOMAIN c) : n \in Nat \ {0}
    BY <2>2
  <2>4. QED
    BY <2>1, <2>3, TopKOK
<1>11. QED
  BY <1>3, <1>4, <1>7, <1>8, <1>9, <1>10 DEF FreqOK, FrequenciesRight

LEMMA VmsToolsRight == VmsOK => ToolsRight
<1> SUFFICES ASSUME VmsOK
             PROVE  ToolsRight
  OBVIOUS
<1>1. \A trace \in Range(AllTraces) : trace \in Blocks
  <2>1. PICK s : s = AllTraces /\ s \in Seq(Blocks)
    BY VmsTraces
  <2>2. Len(s) \in Nat /\ DOMAIN s = 1..Len(s) /\ \A n \in 1..Len(s) : s[n] \in Blocks
    BY <2>1, LenProperties, ElementOfSeq
  <2>3. QED
    BY <2>1, <2>2 DEF Range
<1>2. ASSUME NEW trace \in Range(AllTraces)
      PROVE  GeneratedRight(trace) /\ BucketsRight(trace)
  BY <1>1, VmsGeneratedRight, TraceBucketsRight
<1>3. ASSUME NEW vm \in Range(vms), NEW j \in DOMAIN vm
      PROVE  HitLengthsRight(vm, j)
  <2>1. vm \in Seq(Blocks)
    BY VmsType
  <2>2. j \in 1..Len(vm)
    BY <2>1, LenProperties
  <2>3. QED
    BY <2>1, <2>2, VmsHitLengthsRight
<1>4. FrequenciesRight /\ TestTracesRight
  BY VmsFrequenciesRight, TestTracesAreRight
<1>5. \A cds \in CdsSets : ContainersRight(cds)
  BY VmsContainersRight
<1>6. \A limits \in [size : {0, FIX_SEGMENT_SIZE}, blocks : {0, 2}, segments : {0, 1}] :
          DumpRight(limits)
  BY VmsDumpRight
<1>7. QED
  BY <1>2, <1>3, <1>4, <1>5, <1>6 DEF ToolsRight

(* The tools say what the traces say, whatever the traces are, for every CDS, capacity, number
   of buckets and limit: a block is as frequent as there are VMs with it, and a heap of k
   entries keeps the k - 1 most frequent; a container holds no more than its capacity, and blocks of the CDS or
   others; the runs of hits and misses have every block, and the store they leave counts it;
   the buckets have the trace between them; generated traces and dumps keep the segments. *)
THEOREM ToolsAreRight == Spec => []ToolsRight
<1>1. VmsOK => ToolsRight
  BY VmsToolsRight
<1>2. QED
  BY <1>1, TracesAreTraces, PTL
==============================================================================
