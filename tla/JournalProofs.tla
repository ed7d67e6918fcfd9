---------------------------- MODULE JournalProofs ----------------------------
(***************************************************************************)
(* Proofs about Journal, for every segment size, every number of sessions, *)
(* of calls of append, of records in the ring and of failures.             *)
(***************************************************************************)
EXTENDS Journal, NatLemmas, SequenceTheorems, TLAPS

Records == [session : Nat, gap : BOOLEAN, n : Nat, upTo : Nat]

Segments == [recs : Seq(Records), size : Nat, os : Nat, synced : Nat, bad : SUBSET Nat]

(* r comes next after q in the same session. *)
Follows(r, q) == r.session = q.session /\ r.upTo = q.upTo + Weight(r)

Chained(recs) == \A i \in 1 .. Len(recs) - 1 : Follows(recs[i + 1], recs[i])

(* All of the segment has reached the operating system. *)
Whole(s) == s.os = 1 + 2 * Len(s.recs)

(* No more is buffered than the records are long, and no more written. *)
SegmentOK(s) ==
  /\ s.synced <= s.os
  /\ s.os <= s.size
  /\ s.size <= 1 + 2 * Len(s.recs)
  /\ s.size < SegmentUnits + 2
  /\ Chained(s.recs)

(* Segment k begins a session that no segment before it belongs to. *)
Opens(fs, k) ==
  /\ fs[k].recs[1].upTo = Weight(fs[k].recs[1])
  /\ \A j \in 1 .. k - 1 : \A i \in 1 .. Len(fs[j].recs) :
       fs[j].recs[i].session < fs[k].recs[1].session

(* Segment k goes on where the one before it was rotated away. *)
Continues(fs, k) ==
  /\ k > 1
  /\ Whole(fs[k - 1])
  /\ fs[k - 1].recs # <<>>
  /\ Follows(fs[k].recs[1], fs[k - 1].recs[Len(fs[k - 1].recs)])

SegmentsOK(fs) == \A k \in 1 .. Len(fs) : SegmentOK(fs[k])

Linked(fs) == \A k \in 1 .. Len(fs) : fs[k].recs # <<>> => Opens(fs, k) \/ Continues(fs, k)

Past(fs, t) == \A k \in 1 .. Len(fs) : \A i \in 1 .. Len(fs[k].recs) : fs[k].recs[i].session <= t

-----------------------------------------------------------------------------
(***************************************************************************)
(* What a reader makes of the segments.                                    *)
(***************************************************************************)

(* A gap stands for a number of appends, a record for one. *)
LEMMA WeightType == \A r \in Records : Weight(r) \in Nat
BY DEF Weight, Records

(* What is accounted for up to a record is what was before it, and its weight. *)
LEMMA AccountedStep ==
  ASSUME NEW recs \in Seq(Records), NEW t \in Nat
  PROVE  /\ Accounted(recs, t, 0) = 0
         /\ \A i \in 1 .. Len(recs) :
              Accounted(recs, t, i) = Accounted(recs, t, i - 1) + IF recs[i].session = t THEN Weight(recs[i]) ELSE 0
<1> DEFINE W(i) == IF recs[i].session = t THEN Weight(recs[i]) ELSE 0
           w == [i \in 1 .. Len(recs) |-> W(i)]
           Sums(g) == g = [i \in 0 .. Len(recs) |-> IF i = 0 THEN 0 ELSE g[i - 1] + W(i)]
           sum == CHOOSE g : Sums(g)
<1>1. \A k : Accounted(recs, t, k) = sum[k]
  BY DEF Accounted
<1>2. \A i \in 1 .. Len(recs) : W(i) \in Nat
  BY WeightType
<1> HIDE DEF W
<1>3. w \in [1 .. Len(recs) -> Nat] /\ Len(recs) \in Nat
  BY <1>2
<1>4. PICK h \in [0 .. Len(recs) -> Nat] :
        h[0] = 0 /\ \A i \in 1 .. Len(recs) : h[i] = h[i - 1] + w[i]
  <2> HIDE DEF w
  <2> QED
    BY <1>3, SumExists
<1>5. Sums(h)
  <2>1. ASSUME NEW i \in 0 .. Len(recs)
        PROVE  h[i] = IF i = 0 THEN 0 ELSE h[i - 1] + W(i)
    BY <1>4
  <2> QED
    BY <1>4, <2>1
<1>6. Sums(sum)
  <2> HIDE DEF Sums
  <2> QED
    BY <1>5
<1>7. sum[0] = 0 /\ \A i \in 1 .. Len(recs) : sum[i] = sum[i - 1] + W(i)
  <2> HIDE DEF sum
  <2>1. 0 \in 0 .. Len(recs) /\ \A i \in 1 .. Len(recs) : i \in 0 .. Len(recs) /\ i # 0
    OBVIOUS
  <2>2. \A i \in 0 .. Len(recs) : sum[i] = IF i = 0 THEN 0 ELSE sum[i - 1] + W(i)
    BY <1>6
  <2> QED
    BY <2>1, <2>2
<1> HIDE DEF sum
<1> QED
  BY <1>1, <1>7 DEF W

(* Min, of a set of natural numbers. *)
LEMMA LeastIsMin ==
  ASSUME NEW S \in SUBSET Nat, S # {}
  PROVE  Min(S) \in S /\ \A y \in S : Min(S) <= y
BY LeastNat DEF Min

(* The reader stops in a segment at its end at the latest. *)
LEMMA FirstNotReturnedFacts ==
  ASSUME NEW s \in Segments, s.os <= 1 + 2 * Len(s.recs)
  PROVE  /\ FirstNotReturned(s) \in 1 .. Len(s.recs) + 1
         /\ NotReturned(s, FirstNotReturned(s))
         /\ \A k \in 1 .. Len(s.recs) + 1 : NotReturned(s, k) => FirstNotReturned(s) <= k
<1> DEFINE stops == {k \in 1 .. Len(s.recs) + 1 : NotReturned(s, k)}
<1>1. Len(s.recs) \in Nat /\ s.os \in Nat
  BY DEF Segments
<1>2. NotReturned(s, Len(s.recs) + 1)
  BY <1>1 DEF NotReturned, Begins, HeadUnit
<1>3. stops \in SUBSET Nat /\ stops # {}
  BY <1>1, <1>2
<1>4. Min(stops) \in stops /\ \A y \in stops : Min(stops) <= y
  <2> HIDE DEF stops
  <2> QED
    BY <1>3, LeastIsMin
<1> QED
  BY <1>4 DEF FirstNotReturned

(* The reader returns the first records of a segment. *)
LEMMA RecordsPrefix ==
  ASSUME NEW s \in Segments, s.os <= 1 + 2 * Len(s.recs)
  PROVE  /\ SegmentRecords(s) \in Seq(Records)
         /\ Len(SegmentRecords(s)) <= Len(s.recs)
         /\ \A i \in 1 .. Len(SegmentRecords(s)) : SegmentRecords(s)[i] = s.recs[i]
<1>1. s.recs \in Seq(Records) /\ Len(s.recs) \in Nat
  BY DEF Segments
<1>2. CASE BadFileHeader(s)
  BY <1>1, <1>2 DEF SegmentRecords
<1>3. CASE ~BadFileHeader(s)
  <2>1. PICK m : m = FirstNotReturned(s) - 1
    OBVIOUS
  <2>2. m \in 0 .. Len(s.recs)
    BY <1>1, <2>1, FirstNotReturnedFacts
  <2>3. SegmentRecords(s) = SubSeq(s.recs, 1, m)
    BY <1>3, <2>1 DEF SegmentRecords
  <2>4. \A i \in 1 .. m : s.recs[i] \in Records
    BY <1>1, <2>2
  <2>5. /\ SubSeq(s.recs, 1, m) \in Seq(Records)
        /\ Len(SubSeq(s.recs, 1, m)) = m
        /\ \A i \in 1 .. m : SubSeq(s.recs, 1, m)[i] = s.recs[i]
    BY <1>1, <2>2, <2>4, SubSeqProperties
  <2> QED
    BY <1>1, <2>2, <2>3, <2>5
<1> QED
  BY <1>2, <1>3

(* A segment that is whole, and that the reader does not stop in, is       *)
(* returned whole.                                                         *)
LEMMA WholeIsReturned ==
  ASSUME NEW s \in Segments, Whole(s), SegmentEnd(s) = "End"
  PROVE  Len(SegmentRecords(s)) = Len(s.recs)
<1>1. s.recs \in Seq(Records) /\ Len(s.recs) \in Nat /\ s.os <= 1 + 2 * Len(s.recs)
  BY DEF Segments, Whole
<1>2. PICK m : m = FirstNotReturned(s)
  OBVIOUS
<1>3. m \in 1 .. Len(s.recs) + 1 /\ NotReturned(s, m)
  BY <1>1, <1>2, FirstNotReturnedFacts
<1>4. ~BadFileHeader(s) /\ ~Begins(s, m)
  BY <1>2, <1>3 DEF SegmentEnd, NotReturned
<1>5. m = Len(s.recs) + 1
  BY <1>1, <1>3, <1>4 DEF Begins, HeadUnit, Whole
<1>6. SegmentRecords(s) = SubSeq(s.recs, 1, Len(s.recs))
  BY <1>1, <1>2, <1>4, <1>5 DEF SegmentRecords
<1> QED
  BY <1>1, <1>6

(* A whole segment without damage is returned whole, and the reader goes   *)
(* on behind it.                                                           *)
LEMMA UndamagedIsReturned ==
  ASSUME NEW s \in Segments, Whole(s), s.bad = {}
  PROVE  SegmentEnd(s) = "End"
<1>1. Len(s.recs) \in Nat /\ s.os <= 1 + 2 * Len(s.recs)
  BY DEF Segments, Whole
<1>2. PICK m : m = FirstNotReturned(s)
  OBVIOUS
<1>3. m \in 1 .. Len(s.recs) + 1 /\ NotReturned(s, m)
  BY <1>1, <1>2, FirstNotReturnedFacts
<1>4. ~Checksum(s, m) /\ ~BadFileHeader(s)
  BY <1>1 DEF Checksum, BadFileHeader, Whole
<1>5. ~Incomplete(s, m)
  BY <1>1, <1>3 DEF Incomplete, Begins, HeadUnit, PayloadUnit, Whole
<1> QED
  BY <1>2, <1>4, <1>5 DEF SegmentEnd

-----------------------------------------------------------------------------

(* What the reader has returned, segment by segment. *)
LEMMA ReadUpToStep ==
  ASSUME NEW fs \in Seq(Segments), SegmentsOK(fs)
  PROVE  /\ ReadUpTo(fs, 0) = <<>>
         /\ \A k \in 1 .. Len(fs) : ReadUpTo(fs, k) = ReadUpTo(fs, k - 1) \o SegmentRecords(fs[k])
         /\ \A k \in 0 .. Len(fs) : ReadUpTo(fs, k) \in Seq(Records)
<1> DEFINE Reads(g) == g = [j \in 0 .. Len(fs) |->
                              IF j = 0 THEN <<>> ELSE g[j - 1] \o SegmentRecords(fs[j])]
           read == CHOOSE g : Reads(g)
<1>1. \A k : ReadUpTo(fs, k) = read[k]
  BY DEF ReadUpTo
<1>2. \A k \in 1 .. Len(fs) : SegmentRecords(fs[k]) \in Seq(Records)
  <2> TAKE k \in 1 .. Len(fs)
  <2>1. fs[k] \in Segments /\ SegmentOK(fs[k])
    BY DEF SegmentsOK
  <2>2. fs[k].os <= 1 + 2 * Len(fs[k].recs)
    BY <2>1 DEF SegmentOK, Segments
  <2> QED
    BY <2>1, <2>2, RecordsPrefix
<1>3. PICK G : G = [j \in Nat |-> [x \in Seq(Records) |->
                 IF j + 1 \in 1 .. Len(fs) THEN x \o SegmentRecords(fs[j + 1]) ELSE x]]
  OBVIOUS
<1>4. G \in [Nat -> [Seq(Records) -> Seq(Records)]]
  <2>1. \A x \in Seq(Records) : \A y \in Seq(Records) : x \o y \in Seq(Records)
    OBVIOUS
  <2> QED
    BY <1>2, <1>3, <2>1
<1>5. PICK f \in [Nat -> Seq(Records)] : Iterates(f, <<>>, G)
  <2>1. <<>> \in Seq(Records)
    OBVIOUS
  <2> QED
    BY <1>4, <2>1, Recursion
<1>6. ASSUME NEW j \in 1 .. Len(fs)
      PROVE  f[j] = f[j - 1] \o SegmentRecords(fs[j])
  <2>1. j - 1 \in Nat /\ (j - 1) + 1 = j /\ f[j - 1] \in Seq(Records)
    OBVIOUS
  <2>2. f[j] = G[j - 1][f[j - 1]]
    BY <1>5, <2>1 DEF Iterates
  <2> QED
    BY <1>3, <2>1, <2>2
<1> DEFINE h == [j \in 0 .. Len(fs) |-> f[j]]
<1>7. Reads(h)
  <2>1. f[0] = <<>>
    BY <1>5 DEF Iterates
  <2>2. ASSUME NEW j \in 0 .. Len(fs)
        PROVE  h[j] = IF j = 0 THEN <<>> ELSE h[j - 1] \o SegmentRecords(fs[j])
    <3>1. CASE j = 0
      BY <2>1, <3>1
    <3>2. CASE j # 0
      <4>1. j \in 1 .. Len(fs) /\ j - 1 \in 0 .. Len(fs)
        BY <3>2
      <4> QED
        BY <1>6, <3>2, <4>1
    <3> QED
      BY <3>1, <3>2
  <2>3. h = [j \in 0 .. Len(fs) |-> h[j]]
    OBVIOUS
  <2> HIDE DEF h
  <2> QED
    BY <2>2, <2>3
<1>8. Reads(read)
  <2> HIDE DEF Reads
  <2> QED
    BY <1>7
<1> HIDE DEF read
<1>9. read[0] = <<>>
  <2>1. 0 \in 0 .. Len(fs)
    OBVIOUS
  <2> QED
    BY <1>8, <2>1
<1>10. \A j \in 1 .. Len(fs) : read[j] = read[j - 1] \o SegmentRecords(fs[j])
  <2>1. \A j \in 1 .. Len(fs) : j \in 0 .. Len(fs) /\ j # 0
    OBVIOUS
  <2> QED
    BY <1>8, <2>1
<1>11. \A k \in 0 .. Len(fs) : read[k] \in Seq(Records)
  <2> DEFINE S == {k \in Nat : k <= Len(fs) => read[k] \in Seq(Records)}
  <2>0. <<>> \in Seq(Records)
    OBVIOUS
  <2>1. 0 \in S
    BY <1>9, <2>0
  <2>2. ASSUME NEW k \in Nat, k \in S
        PROVE  k + 1 \in S
    <3>1. CASE k + 1 <= Len(fs)
      <4>1. k + 1 \in 1 .. Len(fs) /\ (k + 1) - 1 = k /\ read[k] \in Seq(Records)
        BY <2>2, <3>1
      <4>2. read[k + 1] = read[k] \o SegmentRecords(fs[k + 1])
        BY <1>10, <4>1
      <4>3. SegmentRecords(fs[k + 1]) \in Seq(Records)
        BY <1>2, <4>1
      <4>4. read[k] \o SegmentRecords(fs[k + 1]) \in Seq(Records)
        BY <4>1, <4>3
      <4>5. read[k + 1] \in Seq(Records) /\ k + 1 \in Nat
        BY <4>2, <4>4
      <4> QED
        BY <4>5
    <3>2. CASE ~(k + 1 <= Len(fs))
      BY <3>2
    <3> QED
      BY <3>1, <3>2
  <2>3. \A k \in Nat : k \in S
    <3> HIDE DEF S
    <3> QED
      BY <2>1, <2>2, SetInduction
  <2> QED
    BY <2>3
<1> QED
  BY <1>1, <1>9, <1>10, <1>11

-----------------------------------------------------------------------------
(* A sequence of records that accounts for every call of append: a record  *)
(* begins a session after all of those before it, or follows the one       *)
(* before it.                                                              *)
Complete(recs) ==
  \A i \in 1 .. Len(recs) :
    \/ /\ recs[i].upTo = Weight(recs[i])
       /\ \A j \in 1 .. i - 1 : recs[j].session < recs[i].session
    \/ i > 1 /\ Follows(recs[i], recs[i - 1])

(* So the records of its session up to a record count as many calls as     *)
(* there were.                                                             *)
LEMMA CompleteIsAccounted ==
  ASSUME NEW recs \in Seq(Records), Complete(recs)
  PROVE  \A k \in 1 .. Len(recs) : Accounted(recs, recs[k].session, k) = recs[k].upTo
<1> DEFINE Acc(t, i) == Accounted(recs, t, i)
           S == {i \in Nat : i \in 1 .. Len(recs) =>
                   /\ Acc(recs[i].session, i) = recs[i].upTo
                   /\ \A t \in Nat : t > recs[i].session => Acc(t, i) = 0}
<1>1. \A t \in Nat : Acc(t, 0) = 0
  BY AccountedStep
<1>2. \A t \in Nat : \A i \in 1 .. Len(recs) :
        Acc(t, i) = Acc(t, i - 1) + IF recs[i].session = t THEN Weight(recs[i]) ELSE 0
  BY AccountedStep
<1>3. \A i \in 1 .. Len(recs) :
        /\ recs[i].session \in Nat
        /\ recs[i].upTo \in Nat
        /\ Weight(recs[i]) \in Nat
  <2>1. \A i \in 1 .. Len(recs) : recs[i] \in Records
    OBVIOUS
  <2> QED
    BY <2>1, WeightType DEF Records
<1> HIDE DEF Acc
<1>4. 0 \in S
  OBVIOUS
<1>5. ASSUME NEW i \in Nat, i \in S
      PROVE  i + 1 \in S
  <2> SUFFICES ASSUME i + 1 \in 1 .. Len(recs)
               PROVE  /\ Acc(recs[i + 1].session, i + 1) = recs[i + 1].upTo
                      /\ \A t \in Nat : t > recs[i + 1].session => Acc(t, i + 1) = 0
    OBVIOUS
  <2>1. (i + 1) - 1 = i /\ \A t \in Nat :
          Acc(t, i + 1) = Acc(t, i) + IF recs[i + 1].session = t THEN Weight(recs[i + 1]) ELSE 0
    BY <1>2
  <2>0. PICK r : r = recs[i + 1]
    OBVIOUS
  <2>4. r.session \in Nat /\ r.upTo \in Nat /\ Weight(r) \in Nat
    BY <1>3, <2>0
  <2>5. Acc(r.session, i + 1) = Acc(r.session, i) + Weight(r)
    BY <2>0, <2>1, <2>4
  <2>6. \A t \in Nat : t > r.session => Acc(t, i + 1) = Acc(t, i) + 0
    BY <2>0, <2>1, <2>4
  <2>2. CASE /\ recs[i + 1].upTo = Weight(recs[i + 1])
             /\ \A j \in 1 .. i : recs[j].session < recs[i + 1].session
    <3>1. ASSUME NEW t \in Nat, t >= recs[i + 1].session
          PROVE  Acc(t, i) = 0
      <4>1. CASE i = 0
        BY <1>1, <4>1
      <4>2. CASE i # 0
        <5>1. i \in 1 .. Len(recs) /\ i \in 1 .. i
          BY <4>2
        <5>2. t > recs[i].session
          BY <1>3, <2>2, <3>1, <5>1
        <5> QED
          BY <1>5, <5>1, <5>2
      <4> QED
        BY <4>1, <4>2
    <3>2. Acc(r.session, i) = 0 /\ \A t \in Nat : t > r.session => Acc(t, i) = 0
      BY <2>0, <2>4, <3>1
    <3> QED
      BY <2>0, <2>2, <2>4, <2>5, <2>6, <3>2
  <2>3. CASE i + 1 > 1 /\ Follows(recs[i + 1], recs[i])
    <3>1. i \in 1 .. Len(recs)
      BY <2>3
    <3>2. /\ Acc(recs[i].session, i) = recs[i].upTo
          /\ \A t \in Nat : t > recs[i].session => Acc(t, i) = 0
      BY <1>5, <3>1
    <3>3. r.session = recs[i].session /\ r.upTo = recs[i].upTo + Weight(r)
      BY <2>0, <2>3 DEF Follows
    <3>4. Acc(r.session, i + 1) = r.upTo
      BY <2>5, <3>2, <3>3
    <3>5. \A t \in Nat : t > r.session => Acc(t, i + 1) = 0
      BY <2>6, <3>2, <3>3
    <3> QED
      BY <2>0, <3>4, <3>5
  <2> QED
    BY <2>1, <2>2, <2>3 DEF Complete
<1>6. \A i \in Nat : i \in S
  <2> HIDE DEF S
  <2> QED
    BY <1>4, <1>5, SetInduction
<1> QED
  BY <1>6 DEF Acc

(* What a concatenation is. *)
LEMMA ConcatFacts ==
  ASSUME NEW a \in Seq(Records), NEW b \in Seq(Records)
  PROVE  /\ Len(a \o b) = Len(a) + Len(b) /\ Len(a) \in Nat /\ Len(b) \in Nat
         /\ \A l \in 1 .. Len(a) : (a \o b)[l] = a[l]
         /\ \A l \in 1 .. Len(b) : (a \o b)[Len(a) + l] = b[l]
OBVIOUS

(* What is complete stays so when a segment's records follow. *)
LEMMA CompleteConcat ==
  ASSUME NEW a \in Seq(Records), Complete(a),
         NEW b \in Seq(Records), Chained(b),
         b # <<>> => \/ /\ b[1].upTo = Weight(b[1])
                        /\ \A j \in 1 .. Len(a) : a[j].session < b[1].session
                     \/ a # <<>> /\ Follows(b[1], a[Len(a)])
  PROVE  Complete(a \o b)
<1> DEFINE c == a \o b
<1>1. /\ Len(c) = Len(a) + Len(b)
      /\ \A i \in 1 .. Len(a) : c[i] = a[i]
      /\ \A i \in 1 .. Len(b) : c[Len(a) + i] = b[i]
  OBVIOUS
<1>2. Len(a) \in Nat /\ Len(b) \in Nat
  OBVIOUS
<1> HIDE DEF c
<1>3. ASSUME NEW i \in 1 .. Len(c)
      PROVE  \/ /\ c[i].upTo = Weight(c[i])
                /\ \A j \in 1 .. i - 1 : c[j].session < c[i].session
             \/ i > 1 /\ Follows(c[i], c[i - 1])
  <2>1. CASE i <= Len(a)
    <3>1. i \in 1 .. Len(a) /\ c[i] = a[i]
      BY <1>1, <1>2, <2>1
    <3>2. \A j \in 1 .. i - 1 : j \in 1 .. Len(a) /\ c[j] = a[j]
      BY <1>1, <1>2, <2>1
    <3>3. i > 1 => c[i - 1] = a[i - 1]
      BY <1>2, <3>1, <3>2
    <3> QED
      BY <3>1, <3>2, <3>3 DEF Complete
  <2>2. CASE i = Len(a) + 1
    <3>1. 1 \in 1 .. Len(b) /\ b # <<>> /\ c[i] = b[1]
      BY <1>1, <1>2, <2>2
    <3>2. i - 1 = Len(a)
      BY <1>2, <2>2
    <3>3. a # <<>> => Len(a) \in 1 .. Len(a) /\ i > 1 /\ c[i - 1] = a[Len(a)]
      BY <1>1, <1>2, <2>2, <3>2
    <3> QED
      BY <1>1, <3>1, <3>2, <3>3
  <2>3. CASE i > Len(a) + 1
    <3>1. PICK j \in 1 .. Len(b) - 1 : i = Len(a) + (j + 1)
      <4>1. i - (Len(a) + 1) \in 1 .. Len(b) - 1
        BY <1>1, <1>2, <2>3
      <4>2. i = Len(a) + ((i - (Len(a) + 1)) + 1)
        BY <1>2
      <4> QED
        BY <4>1, <4>2
    <3>2. j \in 1 .. Len(b) /\ j + 1 \in 1 .. Len(b) /\ i - 1 = Len(a) + j /\ i > 1
      BY <1>2, <3>1
    <3>3. c[i] = b[j + 1] /\ c[i - 1] = b[j]
      BY <1>1, <3>1, <3>2
    <3> QED
      BY <3>1, <3>2, <3>3 DEF Chained
  <2> QED
    BY <1>1, <1>2, <2>1, <2>2, <2>3
<1> QED
  BY <1>3 DEF Complete, c

(* The segment that the reader gets to last is there, and it ended every   *)
(* one before.                                                             *)
LEMMA LastReadFacts ==
  ASSUME NEW fs \in Seq(Segments)
  PROVE  /\ LastRead(fs) \in 0 .. Len(fs)
         /\ \A k \in 1 .. LastRead(fs) - 1 : SegmentEnd(fs[k]) = "End"
         /\ (\A k \in 1 .. Len(fs) : SegmentEnd(fs[k]) = "End") => LastRead(fs) = Len(fs)
<1> DEFINE ends == {k \in DOMAIN fs : SegmentEnd(fs[k]) # "End"}
<1>1. DOMAIN fs = 1 .. Len(fs) /\ Len(fs) \in Nat
  OBVIOUS
<1>2. LastRead(fs) = IF ends = {} THEN Len(fs) ELSE Min(ends)
  BY DEF LastRead
<1>3. CASE ends = {}
  BY <1>1, <1>2, <1>3
<1>4. CASE ends # {}
  <2>1. ends \in SUBSET Nat
    BY <1>1
  <2>2. Min(ends) \in ends /\ \A y \in ends : Min(ends) <= y
    <3> HIDE DEF ends
    <3> QED
      BY <1>4, <2>1, LeastIsMin
  <2>3. LastRead(fs) \in ends /\ \A y \in ends : LastRead(fs) <= y
    BY <1>2, <1>4, <2>2
  <2>4. LastRead(fs) \in 1 .. Len(fs)
    BY <1>1, <2>3
  <2>5. ASSUME NEW k \in 1 .. LastRead(fs) - 1
        PROVE  SegmentEnd(fs[k]) = "End"
    <3>1. k \in 1 .. Len(fs) /\ ~(LastRead(fs) <= k)
      BY <1>1, <2>4
    <3> QED
      BY <1>1, <2>3, <3>1
  <2> QED
    BY <1>1, <2>3, <2>4, <2>5
<1> QED
  BY <1>3, <1>4

(* All that the reader returns comes from the segments it got to. *)
ComesFrom(recs, fs, k) ==
  \A i \in 1 .. Len(recs) : \E j \in 1 .. k : \E l \in 1 .. Len(fs[j].recs) :
    recs[i] = fs[j].recs[l]

(* One more segment. *)
LEMMA ReadOneMore ==
  ASSUME NEW fs \in Seq(Segments), SegmentsOK(fs), Linked(fs),
         NEW k \in 1 .. LastRead(fs),
         Complete(ReadUpTo(fs, k - 1)), ComesFrom(ReadUpTo(fs, k - 1), fs, k - 1),
         k > 1 => ReadUpTo(fs, k - 1) = ReadUpTo(fs, k - 2) \o SegmentRecords(fs[k - 1])
  PROVE  Complete(ReadUpTo(fs, k)) /\ ComesFrom(ReadUpTo(fs, k), fs, k)
<1>1. k \in 1 .. Len(fs) /\ k - 1 \in 0 .. Len(fs) /\ Len(fs) \in Nat
  BY LastReadFacts
<1>2. PICK a : a = ReadUpTo(fs, k - 1)
  OBVIOUS
<1>3. PICK b : b = SegmentRecords(fs[k])
  OBVIOUS
<1>4. a \in Seq(Records) /\ ReadUpTo(fs, k) = a \o b
  BY <1>1, <1>2, <1>3, ReadUpToStep
<1>5. fs[k] \in Segments /\ SegmentOK(fs[k])
  BY <1>1 DEF SegmentsOK
<1>6. fs[k].recs \in Seq(Records) /\ Len(fs[k].recs) \in Nat /\ fs[k].os <= 1 + 2 * Len(fs[k].recs)
  BY <1>5, SMTT(30) DEF Segments, SegmentOK
<1>7. /\ b \in Seq(Records)
      /\ Len(b) <= Len(fs[k].recs)
      /\ \A i \in 1 .. Len(b) : b[i] = fs[k].recs[i]
  BY <1>3, <1>5, <1>6, RecordsPrefix
<1>8. Len(a) \in Nat /\ Len(b) \in Nat
  BY <1>4, <1>7
<1>9. Chained(b)
  <2>1. \A i \in 1 .. Len(b) - 1 : i \in 1 .. Len(b) /\ i + 1 \in 1 .. Len(b)
                                    /\ i \in 1 .. Len(fs[k].recs) - 1
    BY <1>6, <1>7, <1>8
  <2> QED
    BY <1>5, <1>7, <2>1 DEF Chained, SegmentOK
<1>10. ASSUME b # <<>>
       PROVE  \/ /\ b[1].upTo = Weight(b[1])
                 /\ \A j \in 1 .. Len(a) : a[j].session < b[1].session
              \/ a # <<>> /\ Follows(b[1], a[Len(a)])
  <2>1. 1 \in 1 .. Len(b) /\ b[1] = fs[k].recs[1] /\ fs[k].recs # <<>>
    BY <1>6, <1>7, <1>8, <1>10
  <2>2. Opens(fs, k) \/ Continues(fs, k)
    BY <1>1, <2>1 DEF Linked
  <2>3. CASE Opens(fs, k)
    BY <1>2, <2>1, <2>3 DEF Opens, ComesFrom
  <2>4. CASE Continues(fs, k)
    <3>1. PICK p : p = fs[k - 1]
      OBVIOUS
    <3>2. k > 1 /\ Whole(p) /\ p.recs # <<>> /\ Follows(b[1], p.recs[Len(p.recs)])
      BY <2>1, <2>4, <3>1 DEF Continues
    <3>3. k - 1 \in 1 .. Len(fs) /\ k - 1 \in 1 .. LastRead(fs) - 1 /\ k - 2 \in 0 .. Len(fs)
      BY <1>1, <3>2, LastReadFacts
    <3>4. p \in Segments /\ SegmentEnd(p) = "End"
      BY <3>1, <3>3, LastReadFacts
    <3>5. p.recs \in Seq(Records) /\ Len(p.recs) \in Nat /\ p.os <= 1 + 2 * Len(p.recs)
      BY <3>2, <3>4 DEF Segments, Whole
    <3>6. PICK d : d = SegmentRecords(p)
      OBVIOUS
    <3>7. d \in Seq(Records) /\ Len(d) = Len(p.recs) /\ \A i \in 1 .. Len(d) : d[i] = p.recs[i]
      BY <3>2, <3>4, <3>5, <3>6, WholeIsReturned, RecordsPrefix
    <3>8. PICK e : e = ReadUpTo(fs, k - 2)
      OBVIOUS
    <3>9. e \in Seq(Records) /\ a = e \o d
      BY <1>2, <3>1, <3>2, <3>3, <3>6, <3>8, ReadUpToStep
    <3>10. Len(d) \in 1 .. Len(d)
      BY <3>2, <3>5, <3>7
    <3>11. Len(a) = Len(e) + Len(d) /\ a[Len(e) + Len(d)] = d[Len(d)] /\ a # <<>>
      <4>0. Len(e \o d) = Len(e) + Len(d) /\ Len(e) \in Nat /\ Len(d) \in Nat
        BY <3>7, <3>9, ConcatProperties
      <4>1. Len(a) = Len(e) + Len(d) /\ Len(e) \in Nat /\ Len(d) \in Nat
        BY <3>9, <4>0
      <4>2. \A i \in 1 .. Len(d) : (e \o d)[Len(e) + i] = d[i]
        BY <3>7, <3>9
      <4>3. a[Len(e) + Len(d)] = d[Len(d)]
        BY <3>9, <3>10, <4>2
      <4>4. a # <<>>
        BY <3>10, <4>1
      <4> QED
        BY <4>1, <4>3, <4>4
    <3>12. a[Len(a)] = p.recs[Len(p.recs)]
      BY <3>7, <3>10, <3>11
    <3> QED
      BY <3>2, <3>11, <3>12
  <2> QED
    BY <2>2, <2>3, <2>4
<1>11. Complete(a \o b)
  BY <1>2, <1>4, <1>7, <1>9, <1>10, CompleteConcat
<1>12. ComesFrom(a \o b, fs, k)
  <2>1. ASSUME NEW i \in 1 .. Len(a \o b)
        PROVE  \E j \in 1 .. k : \E l \in 1 .. Len(fs[j].recs) : (a \o b)[i] = fs[j].recs[l]
    <3>1. Len(a \o b) = Len(a) + Len(b)
      BY <1>4, <1>7
    <3>2. CASE i <= Len(a)
      <4>1. i \in 1 .. Len(a) /\ (a \o b)[i] = a[i]
        BY <1>4, <1>7, <1>8, <3>1, <3>2
      <4>2. \A j \in 1 .. k - 1 : j \in 1 .. k
        BY <1>1
      <4> QED
        BY <1>2, <4>1, <4>2 DEF ComesFrom
    <3>3. CASE i > Len(a)
      <4>1. i - Len(a) \in 1 .. Len(b) /\ i - Len(a) \in 1 .. Len(fs[k].recs)
        BY <1>6, <1>7, <1>8, <3>1, <3>3
      <4>2. (a \o b)[i] = b[i - Len(a)]
        BY <1>4, <1>7, <3>1, <3>3
      <4>3. k \in 1 .. k
        BY <1>1
      <4> QED
        BY <1>7, <4>1, <4>2, <4>3
    <3> QED
      BY <1>8, <3>2, <3>3
  <2> QED
    BY <2>1 DEF ComesFrom
<1> QED
  BY <1>4, <1>11, <1>12

(* The reader returns a complete sequence. *)
LEMMA ReadBackIsComplete ==
  ASSUME NEW fs \in Seq(Segments), SegmentsOK(fs), Linked(fs)
  PROVE  ReadBack(fs) \in Seq(Records) /\ Complete(ReadBack(fs))
<1> DEFINE S == {k \in Nat : k <= LastRead(fs) =>
                   Complete(ReadUpTo(fs, k)) /\ ComesFrom(ReadUpTo(fs, k), fs, k)}
<1>1. LastRead(fs) \in 0 .. Len(fs) /\ Len(fs) \in Nat
  BY LastReadFacts
<1>2. 0 \in S
  <2>1. ReadUpTo(fs, 0) = <<>>
    BY ReadUpToStep
  <2>2. Complete(<<>>) /\ ComesFrom(<<>>, fs, 0)
    BY DEF Complete, ComesFrom
  <2> QED
    BY <2>1, <2>2
<1>3. ASSUME NEW k \in Nat, k \in S
      PROVE  k + 1 \in S
  <2> SUFFICES ASSUME k + 1 <= LastRead(fs)
               PROVE  Complete(ReadUpTo(fs, k + 1)) /\ ComesFrom(ReadUpTo(fs, k + 1), fs, k + 1)
    OBVIOUS
  <2>1. PICK m : m = k + 1
    OBVIOUS
  <2>2. m \in 1 .. LastRead(fs) /\ m - 1 = k /\ k <= LastRead(fs)
    BY <1>1, <2>1
  <2>3. m > 1 => ReadUpTo(fs, m - 1) = ReadUpTo(fs, m - 2) \o SegmentRecords(fs[m - 1])
    <3>1. m > 1 => m - 1 \in 1 .. Len(fs) /\ (m - 1) - 1 = m - 2
      BY <1>1, <2>2
    <3> QED
      BY <3>1, ReadUpToStep
  <2>4. Complete(ReadUpTo(fs, m - 1)) /\ ComesFrom(ReadUpTo(fs, m - 1), fs, m - 1)
    BY <1>3, <2>2
  <2>5. Complete(ReadUpTo(fs, m)) /\ ComesFrom(ReadUpTo(fs, m), fs, m)
    BY <2>2, <2>3, <2>4, ReadOneMore
  <2> QED
    BY <2>1, <2>5
<1>4. \A k \in Nat : k \in S
  <2> HIDE DEF S
  <2> QED
    BY <1>2, <1>3, SetInduction
<1>5. ReadBack(fs) = ReadUpTo(fs, LastRead(fs))
  BY DEF ReadBack
<1>6. ReadUpTo(fs, LastRead(fs)) \in Seq(Records)
  BY <1>1, ReadUpToStep
<1>7. Complete(ReadUpTo(fs, LastRead(fs)))
  BY <1>1, <1>4
<1> QED
  BY <1>5, <1>6, <1>7

-----------------------------------------------------------------------------
(***************************************************************************)
(* How the segments change.                                                *)
(***************************************************************************)

(* Every record of fs is of a session before t. *)
Older(fs, t) == \A k \in 1 .. Len(fs) : \A i \in 1 .. Len(fs[k].recs) : fs[k].recs[i].session < t

Kept(fs, r) == \E k \in 1 .. Len(fs) : \E i \in 1 .. Len(fs[k].recs) : fs[k].recs[i] = r

LastOf(recs) == recs[Len(recs)]

(* A record is added to a chain. *)
LEMMA ChainedAppend ==
  ASSUME NEW recs \in Seq(Records), Chained(recs), NEW r \in Records,
         recs # <<>> => Follows(r, LastOf(recs))
  PROVE  /\ Append(recs, r) \in Seq(Records)
         /\ Chained(Append(recs, r))
         /\ Len(Append(recs, r)) = Len(recs) + 1
         /\ LastOf(Append(recs, r)) = r
         /\ recs # <<>> => Append(recs, r)[1] = recs[1]
         /\ recs = <<>> => Append(recs, r)[1] = r
         /\ \A i \in 1 .. Len(recs) : Append(recs, r)[i] = recs[i]
<1>1. PICK q : q = Append(recs, r)
  OBVIOUS
<1>2. /\ q \in Seq(Records)
      /\ Len(q) = Len(recs) + 1
      /\ \A i \in 1 .. Len(recs) : q[i] = recs[i]
      /\ q[Len(recs) + 1] = r
      /\ Len(recs) \in Nat
  BY <1>1
<1>3. recs # <<>> => Len(recs) >= 1
  OBVIOUS
<1>4. Chained(q)
  <2>1. ASSUME NEW i \in 1 .. Len(q) - 1
        PROVE  Follows(q[i + 1], q[i])
    <3>1. CASE i < Len(recs)
      <4>1. i \in 1 .. Len(recs) - 1 /\ i \in 1 .. Len(recs) /\ i + 1 \in 1 .. Len(recs)
        BY <1>2, <3>1
      <4> QED
        BY <1>2, <4>1 DEF Chained
    <3>2. CASE i = Len(recs)
      <4>1. recs # <<>> /\ i \in 1 .. Len(recs)
        BY <1>2, <3>2
      <4>2. q[i] = LastOf(recs) /\ q[i + 1] = r
        BY <1>2, <3>2, <4>1 DEF LastOf
      <4> QED
        BY <4>1, <4>2
    <3> QED
      BY <1>2, <3>1, <3>2
  <2> QED
    BY <2>1 DEF Chained
<1>5. LastOf(q) = r
  BY <1>2 DEF LastOf
<1>6. (recs # <<>> => q[1] = recs[1]) /\ (recs = <<>> => q[1] = r)
  <2>1. recs # <<>> => 1 \in 1 .. Len(recs)
    BY <1>2, <1>3
  <2>2. recs = <<>> => Len(recs) + 1 = 1
    OBVIOUS
  <2> QED
    BY <1>2, <2>1, <2>2
<1> QED
  BY <1>1, <1>2, <1>4, <1>5, <1>6

(* One is taken from it. *)
LEMMA ChainedTail ==
  ASSUME NEW recs \in Seq(Records), Chained(recs), recs # <<>>
  PROVE  /\ Tail(recs) \in Seq(Records)
         /\ Head(recs) = recs[1] /\ recs[1] \in Records
         /\ Chained(Tail(recs))
         /\ Len(Tail(recs)) = Len(recs) - 1
         /\ \A i \in 1 .. Len(Tail(recs)) : Tail(recs)[i] = recs[i + 1]
         /\ Tail(recs) = <<>> => LastOf(recs) = recs[1]
         /\ Tail(recs) # <<>> => /\ Follows(Tail(recs)[1], recs[1])
                                 /\ LastOf(Tail(recs)) = LastOf(recs)
<1>1. PICK q : q = Tail(recs)
  OBVIOUS
<1>2. /\ q \in Seq(Records)
      /\ Len(q) = Len(recs) - 1
      /\ \A i \in 1 .. Len(q) : q[i] = recs[i + 1]
      /\ Len(recs) \in Nat /\ Len(recs) >= 1
  BY <1>1
<1>3. Head(recs) = recs[1] /\ recs[1] \in Records
  OBVIOUS
<1>4. Chained(q)
  <2>1. \A i \in 1 .. Len(q) - 1 : /\ i \in 1 .. Len(q) /\ i + 1 \in 1 .. Len(q)
                                  /\ i + 1 \in 1 .. Len(recs) - 1
    BY <1>2
  <2> QED
    BY <1>2, <2>1 DEF Chained
<1>5. q = <<>> => LastOf(recs) = recs[1]
  <2>1. q = <<>> => Len(q) = 0
    OBVIOUS
  <2>2. q = <<>> => Len(recs) = 1
    BY <1>2, <2>1
  <2> QED
    BY <2>2 DEF LastOf
<1>6. ASSUME q # <<>>
      PROVE  Follows(q[1], recs[1]) /\ LastOf(q) = LastOf(recs)
  <2>1. Len(q) \in 1 .. Len(q) /\ 1 \in 1 .. Len(q) /\ 1 \in 1 .. Len(recs) - 1 /\ 1 + 1 = 2
    BY <1>2, <1>6
  <2>2. Len(q) + 1 = Len(recs)
    BY <1>2
  <2>3. q[1] = recs[1 + 1] /\ q[Len(q)] = recs[Len(recs)]
    BY <1>2, <2>1, <2>2
  <2>4. Follows(recs[1 + 1], recs[1])
    BY <2>1 DEF Chained
  <2> QED
    BY <2>3, <2>4 DEF LastOf
<1> QED
  BY <1>1, <1>2, <1>3, <1>4, <1>5, <1>6

(* gs has the records of fs, and only in its last segment can it differ in *)
(* how much of them was written.                                           *)
SameRecords(gs, fs) ==
  /\ Len(gs) = Len(fs)
  /\ \A k \in 1 .. Len(fs) : gs[k].recs = fs[k].recs
  /\ \A k \in 1 .. Len(fs) - 1 : gs[k].os = fs[k].os

(* Flushing, syncing and losing what was not synced do not touch which records
   the segments hold, and so none of what is said of records alone. *)
LEMMA SameRecordsKeep ==
  ASSUME NEW fs \in Seq(Segments), NEW gs \in Seq(Segments), SameRecords(gs, fs)
  PROVE  /\ Linked(fs) => Linked(gs)
         /\ \A t : Past(fs, t) => Past(gs, t)
         /\ \A t : Older(fs, t) => Older(gs, t)
         /\ \A r : Kept(fs, r) => Kept(gs, r)
<1>1. Len(gs) = Len(fs) /\ \A k \in 1 .. Len(fs) : gs[k].recs = fs[k].recs
  BY DEF SameRecords
<1>2. ASSUME Linked(fs), NEW k \in 1 .. Len(gs), gs[k].recs # <<>>
      PROVE  Opens(gs, k) \/ Continues(gs, k)
  <2>1. k \in 1 .. Len(fs) /\ gs[k].recs = fs[k].recs /\ Len(fs) \in Nat
    BY <1>1
  <2>2. Opens(fs, k) \/ Continues(fs, k)
    BY <1>2, <2>1 DEF Linked
  <2>3. CASE Opens(fs, k)
    <3>1. \A j \in 1 .. k - 1 : gs[j].recs = fs[j].recs
      BY <1>1, <2>1
    <3> QED
      BY <2>1, <2>3, <3>1 DEF Opens
  <2>4. CASE Continues(fs, k)
    <3>1. k - 1 \in 1 .. Len(fs) /\ k - 1 \in 1 .. Len(fs) - 1
      BY <2>1, <2>4 DEF Continues
    <3>2. gs[k - 1].recs = fs[k - 1].recs /\ gs[k - 1].os = fs[k - 1].os
      BY <1>1, <3>1 DEF SameRecords
    <3> QED
      BY <2>1, <2>4, <3>2 DEF Continues, Whole
  <2> QED
    BY <2>2, <2>3, <2>4
<1>3. Linked(fs) => Linked(gs)
  BY <1>2 DEF Linked
<1>4. /\ \A t : Past(fs, t) => Past(gs, t)
      /\ \A t : Older(fs, t) => Older(gs, t)
  BY <1>1 DEF Past, Older
<1>5. \A r : Kept(fs, r) => Kept(gs, r)
  BY <1>1, SMTT(30) DEF Kept
<1> QED
  BY <1>3, <1>4, <1>5

(* The last segment is replaced by one with the same records. *)
LEMMA RewriteLast ==
  ASSUME NEW fs \in Seq(Segments), Len(fs) > 0, SegmentsOK(fs),
         NEW s \in Segments, s.recs = LastOf(fs).recs, SegmentOK(s),
         NEW gs, gs = [fs EXCEPT ![Len(fs)] = s]
  PROVE  /\ gs \in Seq(Segments) /\ SegmentsOK(gs) /\ SameRecords(gs, fs)
         /\ LastOf(gs) = s
         /\ \A k \in 1 .. Len(fs) - 1 : gs[k] = fs[k]
<1>1. Len(fs) \in Nat /\ Len(fs) \in 1 .. Len(fs)
  OBVIOUS
<1>2. gs \in Seq(Segments) /\ Len(gs) = Len(fs)
  BY <1>1
<1>3. gs[Len(fs)] = s /\ \A k \in 1 .. Len(fs) - 1 : gs[k] = fs[k]
  BY <1>1
<1>4. ASSUME NEW k \in 1 .. Len(fs)
      PROVE  gs[k].recs = fs[k].recs /\ SegmentOK(gs[k])
  <2>1. CASE k = Len(fs)
    BY <1>3, <2>1 DEF LastOf
  <2>2. CASE k # Len(fs)
    <3>1. k \in 1 .. Len(fs) - 1
      BY <1>1, <2>2
    <3> QED
      BY <1>3, <3>1 DEF SegmentsOK
  <2> QED
    BY <2>1, <2>2
<1>5. SameRecords(gs, fs)
  BY <1>2, <1>3, <1>4 DEF SameRecords
<1>6. SegmentsOK(gs)
  BY <1>2, <1>4 DEF SegmentsOK
<1> QED
  BY <1>2, <1>3, <1>5, <1>6 DEF LastOf

(* SegmentWriter::create: a file header, buffered, and nothing else. *)
LEMMA NewSegmentFacts ==
  /\ NewSegment \in Segments
  /\ NewSegment.recs = <<>>
  /\ NewSegment.size = 1 /\ NewSegment.os = 0 /\ NewSegment.synced = 0
  /\ NewSegment.bad = {}
  /\ SegmentOK(NewSegment)
<1>1. <<>> \in Seq(Records) /\ Len(<<>>) = 0
  OBVIOUS
<1>2. /\ NewSegment.recs = <<>>
      /\ NewSegment.size = 1 /\ NewSegment.os = 0 /\ NewSegment.synced = 0
      /\ NewSegment.bad = {}
  BY DEF NewSegment
<1>3. NewSegment \in Segments
  BY <1>1 DEF NewSegment, Segments
<1>4. Chained(<<>>)
  BY DEF Chained
<1>5. SegmentUnits \in Nat /\ SegmentUnits >= 2
  BY JournalAssumption
<1> QED
  BY <1>1, <1>2, <1>3, <1>4, <1>5 DEF SegmentOK

(* A segment is created. *)
LEMMA AddSegment ==
  ASSUME NEW fs \in Seq(Segments), SegmentsOK(fs), Linked(fs),
         NEW gs, gs = Append(fs, NewSegment)
  PROVE  /\ gs \in Seq(Segments) /\ SegmentsOK(gs) /\ Linked(gs)
         /\ Len(gs) = Len(fs) + 1
         /\ LastOf(gs) = NewSegment
         /\ \A k \in 1 .. Len(fs) : gs[k] = fs[k]
         /\ \A t : Past(fs, t) => Past(gs, t)
         /\ \A t : Older(fs, t) => Older(gs, t)
         /\ \A r : Kept(fs, r) => Kept(gs, r)
<1>1. /\ gs \in Seq(Segments)
      /\ Len(gs) = Len(fs) + 1
      /\ \A k \in 1 .. Len(fs) : gs[k] = fs[k]
      /\ gs[Len(fs) + 1] = NewSegment
      /\ Len(fs) \in Nat
  BY NewSegmentFacts
<1>2. \A k \in 1 .. Len(gs) : k \in 1 .. Len(fs) \/ k = Len(fs) + 1
  BY <1>1
<1>3. SegmentsOK(gs)
  BY <1>1, <1>2, NewSegmentFacts DEF SegmentsOK
<1>4. ASSUME NEW k \in 1 .. Len(gs), gs[k].recs # <<>>
      PROVE  Opens(gs, k) \/ Continues(gs, k)
  <2>1. k \in 1 .. Len(fs) /\ gs[k] = fs[k]
    BY <1>1, <1>2, <1>4, NewSegmentFacts
  <2>2. \A j \in 1 .. k - 1 : gs[j] = fs[j]
    BY <1>1, <2>1
  <2>3. Opens(fs, k) \/ Continues(fs, k)
    BY <1>4, <2>1 DEF Linked
  <2>4. CASE Opens(fs, k)
    BY <2>1, <2>2, <2>4 DEF Opens
  <2>5. CASE Continues(fs, k)
    <3>1. k - 1 \in 1 .. k - 1
      BY <2>1, <2>5 DEF Continues
    <3> QED
      BY <2>1, <2>2, <2>5, <3>1 DEF Continues
  <2> QED
    BY <2>3, <2>4, <2>5
<1>5. Linked(gs)
  BY <1>4 DEF Linked
<1>6. Len(NewSegment.recs) = 0
  BY NewSegmentFacts
<1>7. /\ \A t : Past(fs, t) => Past(gs, t)
      /\ \A t : Older(fs, t) => Older(gs, t)
  BY <1>1, <1>2, <1>6 DEF Past, Older
<1>8. \A r : Kept(fs, r) => Kept(gs, r)
  <2>1. \A k \in 1 .. Len(fs) : k \in 1 .. Len(gs)
    BY <1>1
  <2> QED
    BY <1>1, <2>1 DEF Kept
<1> QED
  BY <1>1, <1>3, <1>5, <1>7, <1>8 DEF LastOf

(* r may be the first record of the last segment of fs, in session t. *)
MayBegin(fs, r, t) ==
  \/ r.upTo = Weight(r) /\ Older(fs, t)
  \/ /\ Len(fs) > 1
     /\ Whole(fs[Len(fs) - 1])
     /\ fs[Len(fs) - 1].recs # <<>>
     /\ Follows(r, LastOf(fs[Len(fs) - 1].recs))

(* gs is fs with r added to its last segment, which is s now. *)
Added(gs, fs, s, r) ==
  /\ gs \in Seq(Segments) /\ SegmentsOK(gs) /\ Linked(gs)
  /\ Past(gs, r.session)
  /\ Len(gs) = Len(fs) /\ LastOf(gs) = s
  /\ \A k \in 1 .. Len(fs) - 1 : gs[k] = fs[k]
  /\ \A q : Kept(fs, q) => Kept(gs, q)
  /\ Kept(gs, r)

(* A record is added to the last segment. *)
LEMMA AddRecord ==
  ASSUME NEW fs \in Seq(Segments), Len(fs) > 0, SegmentsOK(fs), Linked(fs),
         NEW r \in Records, Past(fs, r.session),
         NEW s \in Segments, s.recs = Append(LastOf(fs).recs, r), SegmentOK(s),
         LastOf(fs).recs = <<>> => MayBegin(fs, r, r.session)
  PROVE  Added([fs EXCEPT ![Len(fs)] = s], fs, s, r)
<1> DEFINE gs == [fs EXCEPT ![Len(fs)] = s]
           t == r.session
<1>0. t \in Nat
  BY DEF Records
<1> DEFINE m == Len(fs)
           old == fs[m].recs
<1>1. m \in Nat /\ m \in 1 .. m /\ fs[m] \in Segments /\ LastOf(fs) = fs[m]
  BY DEF LastOf
<1>2. gs \in Seq(Segments) /\ Len(gs) = m
  BY <1>1
<1>3. gs[m] = s /\ \A k \in 1 .. m - 1 : gs[k] = fs[k]
  BY <1>1
<1> HIDE DEF gs, t
<1>4. \A k \in 1 .. m : k = m \/ k \in 1 .. m - 1
  BY <1>1
<1>5. old \in Seq(Records) /\ Len(old) \in Nat
  BY <1>1 DEF Segments
<1>6. /\ Len(s.recs) = Len(old) + 1
      /\ \A i \in 1 .. Len(old) : s.recs[i] = old[i]
      /\ s.recs[Len(old) + 1] = r
  BY <1>1, <1>5
<1> HIDE DEF old
<1>7. SegmentsOK(gs)
  BY <1>2, <1>3, <1>4 DEF SegmentsOK
<1>8. ASSUME NEW k \in 1 .. m, gs[k].recs # <<>>
      PROVE  Opens(gs, k) \/ Continues(gs, k)
  <2>1. \A j \in 1 .. k - 1 : gs[j] = fs[j]
    BY <1>1, <1>3
  <2>2. k > 1 => k - 1 \in 1 .. k - 1
    OBVIOUS
  <2>3. CASE k # m \/ old # <<>>
    <3>1. fs[k].recs # <<>> /\ gs[k].recs[1] = fs[k].recs[1]
      <4>1. CASE k # m
        BY <1>3, <1>4, <1>8, <4>1
      <4>2. CASE k = m /\ old # <<>>
        <5>1. 1 \in 1 .. Len(old)
          BY <1>5, <4>2
        <5> QED
          BY <1>3, <1>6, <4>2, <5>1 DEF old
      <4> QED
        BY <2>3, <4>1, <4>2
    <3>2. Opens(fs, k) \/ Continues(fs, k)
      BY <3>1 DEF Linked
    <3>3. CASE Opens(fs, k)
      BY <2>1, <3>1, <3>3 DEF Opens
    <3>4. CASE Continues(fs, k)
      BY <2>1, <2>2, <3>1, <3>4 DEF Continues
    <3> QED
      BY <3>2, <3>3, <3>4
  <2>4. CASE k = m /\ old = <<>>
    <3>1. Len(old) + 1 = 1
      BY <2>4
    <3>2. gs[k].recs[1] = r
      BY <1>3, <1>6, <2>4, <3>1
    <3>3. LastOf(fs).recs = <<>>
      BY <1>1, <2>4 DEF old
    <3>4. CASE r.upTo = Weight(r) /\ Older(fs, t)
      <4>1. \A j \in 1 .. k - 1 : j \in 1 .. Len(fs)
        BY <1>1
      <4> QED
        BY <2>1, <3>2, <3>4, <4>1 DEF Opens, Older, t
    <3>5. CASE /\ m > 1
               /\ Whole(fs[m - 1])
               /\ fs[m - 1].recs # <<>>
               /\ Follows(r, LastOf(fs[m - 1].recs))
      BY <2>1, <2>2, <2>4, <3>2, <3>5 DEF Continues, LastOf
    <3> QED
      BY <3>3, <3>4, <3>5 DEF MayBegin, t
  <2> QED
    BY <2>3, <2>4
<1>9. Linked(gs)
  BY <1>2, <1>8 DEF Linked
<1>10. Past(gs, t)
  <2>1. ASSUME NEW k \in 1 .. m, NEW i \in 1 .. Len(gs[k].recs)
        PROVE  gs[k].recs[i].session <= t
    <3>1. CASE k # m
      BY <1>3, <1>4, <2>1, <3>1 DEF Past, t
    <3>2. CASE k = m /\ i = Len(old) + 1
      BY <1>0, <1>3, <1>6, <3>2 DEF t
    <3>3. CASE k = m /\ i # Len(old) + 1
      <4>1. i \in 1 .. Len(old)
        BY <1>3, <1>5, <1>6, <3>3
      <4>2. gs[k].recs[i] = fs[m].recs[i] /\ i \in 1 .. Len(fs[m].recs)
        BY <1>3, <1>6, <3>3, <4>1 DEF old
      <4> QED
        BY <1>1, <4>2 DEF Past, t
    <3> QED
      BY <3>1, <3>2, <3>3
  <2> QED
    BY <1>2, <2>1 DEF Past
<1>11. ASSUME NEW q, Kept(fs, q)
       PROVE  Kept(gs, q)
  <2>0. PICK k \in 1 .. m : \E i \in 1 .. Len(fs[k].recs) : fs[k].recs[i] = q
    BY <1>11 DEF Kept
  <2>1. PICK i \in 1 .. Len(fs[k].recs) : fs[k].recs[i] = q
    BY <2>0
  <2>2. i \in 1 .. Len(gs[k].recs) /\ gs[k].recs[i] = q
    <3>1. CASE k # m
      BY <1>3, <1>4, <2>1, <3>1
    <3>2. CASE k = m
      <4>1. i \in 1 .. Len(old) /\ fs[k].recs = old
        BY <2>1, <3>2 DEF old
      <4>2. i \in 1 .. Len(s.recs)
        BY <1>5, <1>6, <4>1
      <4> QED
        BY <1>3, <1>6, <2>1, <3>2, <4>1, <4>2
    <3> QED
      BY <3>1, <3>2
  <2> QED
    BY <1>2, <2>2 DEF Kept
<1>12. Kept(gs, r)
  <2>1. Len(old) + 1 \in 1 .. Len(s.recs)
    BY <1>5, <1>6
  <2> QED
    BY <1>1, <1>2, <1>3, <1>6, <2>1 DEF Kept
<1> QED
  BY <1>2, <1>3, <1>7, <1>9, <1>10, <1>11, <1>12 DEF LastOf, Added, gs, t

-----------------------------------------------------------------------------
(***************************************************************************)
(* The inductive invariant.                                                *)
(***************************************************************************)

Types ==
  /\ session \in 0 .. MaxSessions
  /\ ending \in {"Open", "Ok", "Err", "Crash"}
  /\ appends \in Nat
  /\ append \in {"none", "gap", "record"}
  /\ pendingGap \in Nat
  /\ dropped \in Nat
  /\ writer \in {"top", "drain", "timers", "last", "done"}
  /\ faults \in 0 .. MaxFaults
  /\ accepted \in SUBSET Nat

Flags ==
  /\ stop \in BOOLEAN
  /\ stopping \in BOOLEAN
  /\ wroteAny \in BOOLEAN
  /\ error \in BOOLEAN
  /\ clean \in BOOLEAN

QueueTypes == ring \in Seq(Records) /\ files \in Seq(Segments)

FilesInv == SegmentsOK(files) /\ Linked(files) /\ Past(files, session)

(* The calls of append that have been decided on. *)
Decided == IF append = "none" THEN appends ELSE appends - 1

ProducerInv ==
  /\ appends >= IF append = "none" THEN 0 ELSE 1
  /\ pendingGap <= dropped
  /\ dropped <= Decided
  /\ append = "record" => pendingGap = 0
  /\ Len(ring) <= RingSlots
  /\ \A n \in accepted : n >= 1 /\ n <= Decided

(* The open segment is this session's, and without a failure its buffer    *)
(* holds every record whole.                                               *)
OpenInv ==
  ending = "Open" =>
    /\ Len(files) > 0
    /\ Segment.recs = <<>> => Older(files, session)
    /\ \A i \in 1 .. Len(Segment.recs) : Segment.recs[i].session = session
    /\ ~error => Segment.size = 1 + 2 * Len(Segment.recs)

(* The last call of append that the segments account for, and the ring. *)
Written == IF Segment.recs = <<>> THEN 0 ELSE LastOf(Segment.recs).upTo

Reached == IF ring = <<>> THEN Written ELSE LastOf(ring).upTo

(* Without a failure the ring goes on where the segment ends, and what it  *)
(* lacks is the gap that the producer still has to mark.                   *)
RingInv ==
  ending = "Open" /\ ~error =>
    /\ \A i \in 1 .. Len(ring) : ring[i].session = session
    /\ Chained(ring)
    /\ ring # <<>> => ring[1].upTo = Written + Weight(ring[1])
    /\ Reached + pendingGap = Decided

WriterInv ==
  /\ writer = "done" <=> ending # "Open"
  /\ stopping => stop
  /\ writer = "last" => stopping
  /\ error => ending = "Open"
  /\ ending # "Open" /\ append # "none" => stop

InRing(r) == \E i \in 1 .. Len(ring) : ring[i] = r

(* Without a failure nothing that append took is lost; and once the ring   *)
(* was found empty after finish was seen, it is all in the segments.       *)
AcceptedInv ==
  /\ ending = "Open" /\ ~error => \A n \in accepted : Kept(files, Data(n)) \/ InRing(Data(n))
  /\ ending = "Open" /\ ~error /\ stopping /\ writer \in {"timers", "last"} =>
       \A n \in accepted : Kept(files, Data(n))
  /\ ending = "Ok" => \A n \in accepted : Kept(files, Data(n))

(* Without failure, crash or damage every segment but the open one is whole. *)
CleanInv ==
  clean =>
    /\ ending \in {"Open", "Ok"}
    /\ \A k \in 1 .. Len(files) : files[k].bad = {}
    /\ \A k \in 1 .. Len(files) - 1 : Whole(files[k])
    /\ ending = "Ok" /\ Len(files) > 0 => Whole(Segment)

IInv ==
  /\ Types
  /\ Flags
  /\ QueueTypes
  /\ FilesInv
  /\ ProducerInv
  /\ OpenInv
  /\ RingInv
  /\ WriterInv
  /\ AcceptedInv
  /\ CleanInv

(* The invariant holds before the first session. *)
LEMMA InitInv == JournalInit => IInv
<1> SUFFICES ASSUME JournalInit PROVE IInv
  OBVIOUS
<1>1. MaxSessions \in Nat /\ MaxFaults \in Nat /\ RingSlots \in Nat
  BY JournalAssumption
<1>2. Len(<<>>) = 0 /\ <<>> \in Seq(Records) /\ <<>> \in Seq(Segments)
  OBVIOUS
<1>3. Types
  BY <1>1 DEF JournalInit, Types
<1>7. Flags /\ QueueTypes
  BY <1>2 DEF JournalInit, Flags, QueueTypes
<1>4. FilesInv
  BY <1>2 DEF JournalInit, FilesInv, SegmentsOK, Linked, Past
<1>5. ProducerInv /\ OpenInv /\ RingInv /\ WriterInv
  BY <1>1, <1>2 DEF JournalInit, ProducerInv, Decided, OpenInv, RingInv, WriterInv
<1>6. AcceptedInv /\ CleanInv
  BY <1>2 DEF JournalInit, AcceptedInv, CleanInv
<1> QED
  BY <1>3, <1>4, <1>5, <1>6, <1>7 DEF IInv

(* The last of some records, and the open segment. *)
LEMMA LastOfRecords ==
  ASSUME NEW recs \in Seq(Records), recs # <<>>
  PROVE  /\ LastOf(recs) \in Records
         /\ LastOf(recs).upTo \in Nat /\ LastOf(recs).session \in Nat
         /\ Len(recs) \in 1 .. Len(recs) /\ 1 \in 1 .. Len(recs)
<1>1. Len(recs) \in 1 .. Len(recs) /\ 1 \in 1 .. Len(recs)
  OBVIOUS
<1>2. LastOf(recs) \in Records
  BY <1>1 DEF LastOf
<1> QED
  BY <1>1, <1>2 DEF Records

(* While a session is open its writer has a segment, the last one. *)
LEMMA OpenSegment ==
  ASSUME IInv, ending = "Open"
  PROVE  /\ Segment \in Segments /\ SegmentOK(Segment) /\ Segment = LastOf(files)
         /\ Segment.recs \in Seq(Records) /\ Len(Segment.recs) \in Nat
         /\ Segment.size \in Nat /\ Segment.os \in Nat /\ Segment.synced \in Nat
         /\ Segment.bad \in SUBSET Nat
         /\ Written \in Nat /\ Reached \in Nat
         /\ Len(files) \in Nat /\ Len(files) \in 1 .. Len(files) /\ files \in Seq(Segments)
         /\ ring \in Seq(Records)
<1>1. Len(files) > 0 /\ files \in Seq(Segments) /\ ring \in Seq(Records)
  BY DEF IInv, QueueTypes, OpenInv
<1>2. Len(files) \in Nat /\ Len(files) \in 1 .. Len(files)
  BY <1>1
<1>3. Segment \in Segments /\ Segment = LastOf(files)
  BY <1>1, <1>2 DEF Segment, LastOf
<1>4. SegmentOK(Segment)
  BY <1>2 DEF IInv, FilesInv, SegmentsOK, Segment
<1>5. /\ Segment.recs \in Seq(Records) /\ Len(Segment.recs) \in Nat
      /\ Segment.size \in Nat /\ Segment.os \in Nat /\ Segment.synced \in Nat
      /\ Segment.bad \in SUBSET Nat
  BY <1>3 DEF Segments
<1>6. Written \in Nat
  BY <1>5, LastOfRecords DEF Written
<1>7. Reached \in Nat
  BY <1>1, <1>6, LastOfRecords DEF Reached
<1> QED
  BY <1>1, <1>2, <1>3, <1>4, <1>5, <1>6, <1>7

(***************************************************************************)
(* The producer's steps, finish and those of the writer that leave the     *)
(* segments alone.                                                         *)
(***************************************************************************)

(* The invariants on the segments, the writer and what was accepted only   *)
(* depend on some of the state.                                            *)
LEMMA SameFiles ==
  ASSUME IInv, UNCHANGED <<session, ending, files, clean, error>>
  PROVE  /\ FilesInv' /\ OpenInv' /\ CleanInv'
         /\ Segment' = Segment /\ Written' = Written
         /\ \A n : Data(n)' = Data(n)
         /\ \A n : Kept(files, Data(n))' = Kept(files, Data(n))
<1>1. FilesInv'
  BY DEF IInv, FilesInv
<1>2. OpenInv' /\ CleanInv'
  BY DEF IInv, OpenInv, CleanInv, Segment
<1>3. Segment' = Segment /\ Written' = Written
  BY DEF Segment, Written
<1>4. \A n : Data(n)' = Data(n)
  BY DEF Data
<1>5. \A n : Kept(files, Data(n))' = Kept(files, Data(n))
  BY <1>4 DEF Kept
<1> QED
  BY <1>1, <1>2, <1>3, <1>4, <1>5

(* append refuses a record: it is counted, now and for the next gap marker. *)
LEMMA DroppedStep ==
  ASSUME IInv, Dropped,
         UNCHANGED <<session, ending, ring, stop, writerVars, files, faults, accepted, clean>>,
         \/ append = "none" /\ ending = "Open" /\ appends' = appends + 1
         \/ append # "none" /\ appends' = appends
  PROVE  IInv'
<1>0. /\ UNCHANGED <<session, ending, files, clean, error>>
      /\ UNCHANGED <<ring, stop, faults, accepted, writer, stopping, wroteAny>>
      /\ pendingGap' = pendingGap + 1 /\ dropped' = dropped + 1 /\ append' = "none"
  BY DEF Dropped, writerVars
<1>1. Types'
  BY <1>0 DEF IInv, Types
<1>2. Flags' /\ QueueTypes'
  BY <1>0 DEF IInv, Flags, QueueTypes
<1>3. Decided' = Decided + 1
  BY <1>0 DEF IInv, Types, Decided
<1>4. ProducerInv'
  BY <1>0, <1>3 DEF IInv, Types, ProducerInv, Decided
<1>5. RingInv'
  <2>1. Reached' = Reached
    BY <1>0, SameFiles DEF Reached
  <2>2. ASSUME ending = "Open", ~error
        PROVE  Reached + (pendingGap + 1) = Decided + 1
    <3>1. Reached \in Nat /\ pendingGap \in Nat
      BY <2>2, OpenSegment DEF IInv, Types
    <3>2. Reached + pendingGap = Decided
      BY <2>2 DEF IInv, RingInv
    <3> QED
      BY <3>1, <3>2
  <2> QED
    BY <1>0, <1>3, <2>1, <2>2, SameFiles DEF IInv, RingInv
<1>6. WriterInv'
  BY <1>0 DEF IInv, WriterInv
<1>7. AcceptedInv'
  <2>1. \A n : InRing(Data(n))' = InRing(Data(n))
    BY <1>0 DEF InRing, Data
  <2> QED
    BY <1>0, <2>1, SameFiles DEF IInv, AcceptedInv
<1> QED
  BY <1>0, <1>1, <1>2, <1>4, <1>5, <1>6, <1>7, SameFiles DEF IInv

(* append begins with the gap that is pending, if there is one. *)
LEMMA AppendBeginStep ==
  ASSUME IInv, AppendBegin
  PROVE  IInv'
<1>0. /\ UNCHANGED <<session, ending, files, clean, error>>
      /\ UNCHANGED <<ring, stop, faults, accepted, writer, stopping, wroteAny, pendingGap, dropped>>
      /\ append = "none" /\ ending = "Open" /\ appends' = appends + 1
      /\ append' = IF pendingGap > 0 THEN "gap" ELSE "record"
  BY DEF AppendBegin, CanAppend, writerVars
<1>1. Types'
  BY <1>0 DEF IInv, Types
<1>2. Flags' /\ QueueTypes'
  BY <1>0 DEF IInv, Flags, QueueTypes
<1>3. Decided' = Decided
  BY <1>0 DEF IInv, Types, Decided
<1>4. ProducerInv'
  BY <1>0, <1>3 DEF IInv, Types, ProducerInv, Decided
<1>5. RingInv'
  <2>1. Reached' = Reached
    BY <1>0, SameFiles DEF Reached
  <2> QED
    BY <1>0, <1>3, <2>1, SameFiles DEF IInv, RingInv
<1>6. WriterInv'
  BY <1>0 DEF IInv, WriterInv
<1>7. AcceptedInv'
  <2>1. \A n : InRing(Data(n))' = InRing(Data(n))
    BY <1>0 DEF InRing, Data
  <2> QED
    BY <1>0, <2>1, SameFiles DEF IInv, AcceptedInv
<1> QED
  BY <1>0, <1>1, <1>2, <1>4, <1>5, <1>6, <1>7, SameFiles DEF IInv

(* A record r is put into the ring. *)
LEMMA RingAppend ==
  ASSUME IInv, UNCHANGED <<session, ending, files, clean, error>>,
         NEW r \in Records, r.session = session, ring' = Append(ring, r), RingHasRoom,
         ending = "Open" /\ ~error => r.upTo = Reached + Weight(r)
  PROVE  /\ ring' \in Seq(Records) /\ Len(ring') <= RingSlots
         /\ \A q : InRing(q) => InRing(q)'
         /\ \E i \in 1 .. Len(ring') : ring'[i] = r
         /\ ending = "Open" /\ ~error =>
              /\ \A i \in 1 .. Len(ring') : ring'[i].session = session
              /\ Chained(ring')
              /\ ring'[1].upTo = Written + Weight(ring'[1])
              /\ Reached' = r.upTo
<1>1. ring \in Seq(Records) /\ Len(ring) \in Nat /\ RingSlots \in Nat
  BY JournalAssumption DEF IInv, QueueTypes
<1>2. PICK q : q = ring'
  OBVIOUS
<1>3. /\ q \in Seq(Records)
      /\ Len(q) = Len(ring) + 1
      /\ \A i \in 1 .. Len(ring) : q[i] = ring[i]
      /\ q[Len(ring) + 1] = r
  BY <1>1, <1>2
<1>4. \A i \in 1 .. Len(q) : i \in 1 .. Len(ring) \/ i = Len(ring) + 1
  BY <1>1, <1>3
<1>5. \A i \in 1 .. Len(ring) : i \in 1 .. Len(q)
  BY <1>1, <1>3
<1>6. \A p : InRing(p) => InRing(p)'
  BY <1>2, <1>3, <1>5 DEF InRing
<1>7. Len(ring) + 1 \in 1 .. Len(q) /\ Len(q) <= RingSlots
  BY <1>1, <1>3 DEF RingHasRoom
<1>8. ASSUME ending = "Open", ~error
      PROVE  /\ \A i \in 1 .. Len(q) : q[i].session = session
             /\ Chained(q)
             /\ q[1].upTo = Written + Weight(q[1])
             /\ Reached' = r.upTo
  <2>1. /\ \A i \in 1 .. Len(ring) : ring[i].session = session
        /\ Chained(ring)
        /\ ring # <<>> => ring[1].upTo = Written + Weight(ring[1])
    BY <1>8 DEF IInv, RingInv
  <2>2. \A i \in 1 .. Len(q) : q[i].session = session
    BY <1>3, <1>4, <2>1
  <2>3. ring # <<>> => Follows(r, LastOf(ring))
    <3>1. ring # <<>> => Len(ring) \in 1 .. Len(ring)
      BY <1>1
    <3> QED
      BY <1>8, <2>1, <3>1 DEF Follows, Reached, LastOf
  <2>4. q = Append(ring, r)
    BY <1>2
  <2>5. /\ Chained(q) /\ LastOf(q) = r
        /\ ring # <<>> => q[1] = ring[1]
        /\ ring = <<>> => q[1] = r
    BY <1>1, <2>1, <2>3, <2>4, ChainedAppend
  <2>6. q[1].upTo = Written + Weight(q[1])
    BY <1>8, <2>1, <2>5 DEF Reached
  <2>7. Reached' = r.upTo
    BY <1>2, <1>3, <1>7, <2>5 DEF Reached
  <2> QED
    BY <2>2, <2>5, <2>6, <2>7
<1> QED
  BY <1>2, <1>3, <1>6, <1>7, <1>8

(* The gap marker enters the ring and stands for all drops that were pending. *)
LEMMA WriteGapStep ==
  ASSUME IInv, WriteGap
  PROVE  IInv'
<1>0. /\ UNCHANGED <<session, ending, files, clean, error>>
      /\ UNCHANGED <<appends, stop, faults, accepted, writer, stopping, wroteAny, dropped>>
      /\ append = "gap" /\ append' = "record" /\ pendingGap' = 0 /\ RingHasRoom
  BY DEF WriteGap, writerVars
<1>1. PICK r : r = Gap(pendingGap)
  OBVIOUS
<1>2. ring' = Append(ring, r)
  BY <1>1 DEF WriteGap
<1>3. appends \in Nat /\ appends >= 1 /\ pendingGap \in Nat /\ session \in Nat
  BY <1>0, JournalAssumption DEF IInv, Types, ProducerInv
<1>4. /\ r = [session |-> session, gap |-> TRUE, n |-> pendingGap, upTo |-> appends - 1]
      /\ appends - 1 \in Nat
  BY <1>1, <1>3 DEF Gap
<1>5. r \in Records /\ r.session = session /\ r.upTo = appends - 1 /\ Weight(r) = pendingGap
  BY <1>3, <1>4 DEF Records, Weight
<1>6. ASSUME ending = "Open", ~error
      PROVE  r.upTo = Reached + Weight(r)
  BY <1>0, <1>5, <1>6 DEF IInv, RingInv, Decided
<1>7. /\ ring' \in Seq(Records) /\ Len(ring') <= RingSlots
      /\ \A q : InRing(q) => InRing(q)'
      /\ ending = "Open" /\ ~error =>
              /\ \A i \in 1 .. Len(ring') : ring'[i].session = session
              /\ Chained(ring')
              /\ ring'[1].upTo = Written + Weight(ring'[1])
              /\ Reached' = r.upTo
  BY <1>0, <1>2, <1>5, <1>6, RingAppend
<1>8. Types'
  BY <1>0 DEF IInv, Types
<1>9. Flags' /\ QueueTypes'
  BY <1>0, <1>7 DEF IInv, Flags, QueueTypes
<1>10. Decided' = Decided /\ Decided = appends - 1
  BY <1>0 DEF Decided
<1>11. ProducerInv'
  BY <1>0, <1>3, <1>7, <1>10 DEF IInv, Types, ProducerInv
<1>12. RingInv'
  <2>1. (appends - 1) + 0 = appends - 1
    BY <1>3
  <2> QED
    BY <1>0, <1>5, <1>7, <1>10, <2>1, SameFiles DEF IInv, RingInv
<1>13. WriterInv'
  BY <1>0 DEF IInv, WriterInv
<1>14. AcceptedInv'
  <2>1. \A n : InRing(Data(n)) => InRing(Data(n))'
    BY <1>0, <1>7 DEF InRing, Data
  <2> QED
    BY <1>0, <2>1, SameFiles DEF IInv, AcceptedInv
<1> QED
  BY <1>0, <1>8, <1>9, <1>11, <1>12, <1>13, <1>14, SameFiles DEF IInv

(* The record enters the ring behind what was appended before it. *)
LEMMA WriteRecordStep ==
  ASSUME IInv, WriteRecord
  PROVE  IInv'
<1>0. /\ UNCHANGED <<session, ending, files, clean, error>>
      /\ UNCHANGED <<appends, pendingGap, stop, faults, writer, stopping, wroteAny, dropped>>
      /\ append = "record" /\ append' = "none" /\ RingHasRoom
      /\ accepted' = IF stop THEN accepted ELSE accepted \cup {appends}
  BY DEF WriteRecord, writerVars
<1>1. PICK r : r = Data(appends)
  OBVIOUS
<1>2. ring' = Append(ring, r)
  BY <1>1 DEF WriteRecord
<1>3. appends \in Nat /\ appends >= 1 /\ pendingGap = 0 /\ session \in Nat
  BY <1>0, JournalAssumption DEF IInv, Types, ProducerInv
<1>4. r = [session |-> session, gap |-> FALSE, n |-> appends, upTo |-> appends]
  BY <1>1 DEF Data
<1>5. r \in Records /\ r.session = session /\ r.upTo = appends /\ Weight(r) = 1
  BY <1>3, <1>4 DEF Records, Weight
<1>6. ASSUME ending = "Open", ~error
      PROVE  r.upTo = Reached + Weight(r)
  <2>1. Reached \in Nat /\ Reached + 0 = appends - 1
    BY <1>0, <1>3, <1>6, OpenSegment DEF IInv, RingInv, Decided
  <2> QED
    BY <1>3, <1>5, <2>1
<1>7. /\ ring' \in Seq(Records) /\ Len(ring') <= RingSlots
      /\ \A q : InRing(q) => InRing(q)'
      /\ \E i \in 1 .. Len(ring') : ring'[i] = r
      /\ ending = "Open" /\ ~error =>
              /\ \A i \in 1 .. Len(ring') : ring'[i].session = session
              /\ Chained(ring')
              /\ ring'[1].upTo = Written + Weight(ring'[1])
              /\ Reached' = r.upTo
  BY <1>0, <1>2, <1>5, <1>6, RingAppend
<1>8. Types'
  <2>1. accepted' \in SUBSET Nat
    BY <1>0, <1>3 DEF IInv, Types
  <2> QED
    BY <1>0, <2>1 DEF IInv, Types
<1>9. Flags' /\ QueueTypes'
  BY <1>0, <1>7 DEF IInv, Flags, QueueTypes
<1>10. Decided' = appends /\ Decided = appends - 1
  BY <1>0 DEF Decided
<1>11. ProducerInv'
  <2>1. \A n \in accepted' : n >= 1 /\ n <= appends
    BY <1>0, <1>3, <1>10 DEF IInv, Types, ProducerInv
  <2> QED
    BY <1>0, <1>3, <1>7, <1>10, <2>1 DEF IInv, Types, ProducerInv
<1>12. RingInv'
  <2>1. appends + 0 = appends
    BY <1>3
  <2> QED
    BY <1>0, <1>3, <1>5, <1>7, <1>10, <2>1, SameFiles DEF IInv, RingInv
<1>13. WriterInv'
  BY <1>0 DEF IInv, WriterInv
<1>14. AcceptedInv'
  <2>1. \A n : InRing(Data(n)) => InRing(Data(n))'
    BY <1>0, <1>7 DEF InRing, Data
  <2>2. InRing(Data(appends))'
    BY <1>0, <1>1, <1>7 DEF InRing, Data
  <2>3. accepted' \subseteq accepted \cup {appends}
    BY <1>0
  <2>4. stop => accepted' = accepted
    BY <1>0
  <2>5. stopping => stop
    BY DEF IInv, WriterInv
  <2>6. ending = "Ok" => stop
    BY <1>0 DEF IInv, WriterInv
  <2> QED
    BY <1>0, <2>1, <2>2, <2>3, <2>4, <2>5, <2>6, SameFiles DEF IInv, AcceptedInv
<1> QED
  BY <1>0, <1>8, <1>9, <1>11, <1>12, <1>13, <1>14, SameFiles DEF IInv

(* Finish and the steps of the writer's loop that move nothing. *)
LEMMA IdleStep ==
  ASSUME IInv, Finish \/ LoadStop \/ Drained
  PROVE  IInv'
<1>0. /\ UNCHANGED <<session, ending, files, clean, error>>
      /\ UNCHANGED <<appends, append, pendingGap, dropped, ring, faults, accepted>>
  BY DEF Finish, LoadStop, Drained, producerVars, writerVars
<1>1. /\ writer' \in {"top", "drain", "timers", "last", "done"}
      /\ stop' \in BOOLEAN /\ stopping' \in BOOLEAN /\ wroteAny' \in BOOLEAN
  BY DEF IInv, Types, Flags, Finish, LoadStop, Drained, writerVars
<1>2. Types'
  BY <1>0, <1>1 DEF IInv, Types
<1>3. Flags' /\ QueueTypes'
  BY <1>0, <1>1 DEF IInv, Flags, QueueTypes
<1>4. Decided' = Decided /\ ProducerInv'
  BY <1>0 DEF IInv, ProducerInv, Decided
<1>5. RingInv'
  <2>1. Reached' = Reached
    BY <1>0, SameFiles DEF Reached
  <2> QED
    BY <1>0, <1>4, <2>1, SameFiles DEF IInv, RingInv
<1>6. WriterInv'
  BY <1>0 DEF IInv, Flags, WriterInv, Finish, LoadStop, Drained, writerVars
<1>7. AcceptedInv'
  <2>1. \A n : InRing(Data(n))' = InRing(Data(n))
    BY <1>0 DEF InRing, Data
  <2>2. CASE Drained
    <3>1. \A n : ~InRing(Data(n))
      BY <2>2 DEF Drained, InRing
    <3> QED
      BY <1>0, <2>1, <3>1, SameFiles DEF IInv, AcceptedInv
  <2>3. CASE Finish
    <3>1. writer' = writer /\ stopping' = stopping
      BY <2>3 DEF Finish, writerVars
    <3> QED
      BY <1>0, <2>1, <3>1, SameFiles DEF IInv, AcceptedInv
  <2>4. CASE LoadStop
    <3>1. writer' = "drain"
      BY <2>4 DEF LoadStop
    <3> QED
      BY <1>0, <2>1, <3>1, SameFiles DEF IInv, AcceptedInv
  <2> QED
    BY <2>2, <2>3, <2>4
<1> QED
  BY <1>0, <1>2, <1>3, <1>4, <1>5, <1>6, <1>7, SameFiles DEF IInv

(* After a failure the records of the ring are dropped. *)
LEMMA WriteLostStep ==
  ASSUME IInv, WriteLost
  PROVE  IInv'
<1>0. /\ UNCHANGED <<session, ending, files, clean, error>>
      /\ UNCHANGED <<appends, append, pendingGap, dropped, stop, writer, stopping, faults, accepted>>
      /\ error /\ ring # <<>> /\ ring' = Tail(ring) /\ wroteAny' = TRUE
  BY DEF WriteLost, Taken, producerVars
<1>1. Types'
  BY <1>0 DEF IInv, Types
<1>2. ring \in Seq(Records)
  BY DEF IInv, QueueTypes
<1>3. ring' \in Seq(Records) /\ Len(ring') <= Len(ring) /\ Len(ring) \in Nat /\ Len(ring') \in Nat
  BY <1>0, <1>2
<1>4. Flags' /\ QueueTypes'
  BY <1>0, <1>3 DEF IInv, Flags, QueueTypes
<1>5. ProducerInv'
  <2>1. Len(ring') <= RingSlots
    BY <1>3, JournalAssumption DEF IInv, ProducerInv
  <2> QED
    BY <1>0, <2>1 DEF IInv, ProducerInv, Decided
<1>6. RingInv'
  BY <1>0 DEF RingInv
<1>7. WriterInv'
  BY <1>0 DEF IInv, WriterInv
<1>8. AcceptedInv'
  <2>1. ending = "Open"
    BY <1>0 DEF IInv, WriterInv
  <2> QED
    BY <1>0, <2>1 DEF AcceptedInv
<1> QED
  BY <1>0, <1>1, <1>4, <1>5, <1>6, <1>7, <1>8, SameFiles DEF IInv

(***************************************************************************)
(* The steps that write what the open segment's buffer holds, or lose it.  *)
(***************************************************************************)

(* s is the open segment after some of its buffer was passed on. *)
Flushes(s) ==
  /\ s \in Segments
  /\ SegmentOK(s)
  /\ s.recs = Segment.recs
  /\ s.size = Segment.size
  /\ s.bad = Segment.bad

(* Flush, sync, and a loss of what was not synced only move how much has arrived. *)
LEMMA PartlyFlushed ==
  ASSUME IInv, ending = "Open"
  PROVE  /\ Flushes(Segment) /\ Flushes(Flushed(Segment)) /\ Flushes(Synced(Segment))
         /\ Synced(Segment).os = Segment.size
         /\ \A n \in Segment.synced .. Segment.size : Flushes([Segment EXCEPT !.os = n])
<1>1. PICK s : s = Segment
  OBVIOUS
<1>2. /\ s \in Segments /\ SegmentOK(s)
      /\ s.size \in Nat /\ s.os \in Nat /\ s.synced \in Nat
  BY <1>1, OpenSegment
<1>3. s.synced <= s.os /\ s.os <= s.size
  BY <1>2 DEF SegmentOK
<1>4. Flushes(s)
  BY <1>1, <1>2 DEF Flushes
<1>5. ASSUME NEW n \in s.synced .. s.size
      PROVE  Flushes([s EXCEPT !.os = n])
  <2>1. PICK t : t = [s EXCEPT !.os = n]
    OBVIOUS
  <2>2. n \in Nat /\ s.synced <= n /\ n <= s.size
    BY <1>2
  <2>3. /\ t \in Segments /\ t.recs = s.recs /\ t.size = s.size /\ t.bad = s.bad
        /\ t.synced = s.synced /\ t.os = n
    BY <1>2, <2>1, <2>2 DEF Segments
  <2>4. SegmentOK(t)
    BY <1>2, <2>2, <2>3 DEF SegmentOK
  <2> QED
    BY <1>1, <2>1, <2>3, <2>4 DEF Flushes
<1>6. Flushes(Flushed(s))
  <2>1. s.size \in s.synced .. s.size
    BY <1>2, <1>3
  <2> QED
    BY <1>5, <2>1 DEF Flushed
<1>7. Flushes(Synced(s)) /\ Synced(s).os = s.size
  <2>1. PICK t : t = Synced(s)
    OBVIOUS
  <2>2. /\ t \in Segments /\ t.recs = s.recs /\ t.size = s.size /\ t.bad = s.bad
        /\ t.synced = s.size /\ t.os = s.size
    BY <1>2, <2>1 DEF Segments, Synced
  <2>3. SegmentOK(t)
    BY <1>2, <2>2 DEF SegmentOK
  <2> QED
    BY <1>1, <2>1, <2>2, <2>3 DEF Flushes
<1> QED
  BY <1>1, <1>4, <1>5, <1>6, <1>7

(* So they keep what is said of the segments and of the records in them. *)
LEMMA Rewriting ==
  ASSUME IInv, ending = "Open", NEW s, Flushes(s), files' = Rewritten(s), session' = session
  PROVE  /\ files' \in Seq(Segments) /\ FilesInv'
         /\ Segment' = s /\ Len(files') = Len(files)
         /\ \A k \in 1 .. Len(files) - 1 : files'[k] = files[k]
         /\ Older(files, session) => Older(files', session')
         /\ \A n : Data(n)' = Data(n)
         /\ \A n : Kept(files, Data(n)) => Kept(files, Data(n))'
         /\ Written' = Written
<1>1. /\ files \in Seq(Segments) /\ Len(files) \in Nat /\ Len(files) \in 1 .. Len(files)
      /\ Segment = LastOf(files)
  BY OpenSegment
<1>2. SegmentsOK(files) /\ Linked(files) /\ Past(files, session)
  BY DEF IInv, FilesInv
<1>3. s \in Segments /\ SegmentOK(s) /\ s.recs = LastOf(files).recs
  BY <1>1 DEF Flushes
<1>4. PICK gs : gs = files'
  OBVIOUS
<1>5. gs = [files EXCEPT ![Len(files)] = s]
  BY <1>4 DEF Rewritten
<1>6. /\ gs \in Seq(Segments) /\ SegmentsOK(gs) /\ SameRecords(gs, files)
      /\ LastOf(gs) = s
      /\ \A k \in 1 .. Len(files) - 1 : gs[k] = files[k]
  <2>1. PICK fs : fs = files
    OBVIOUS
  <2>2. fs \in Seq(Segments) /\ Len(fs) > 0 /\ SegmentsOK(fs)
    BY <1>1, <1>2, <2>1
  <2>3. s.recs = LastOf(fs).recs /\ gs = [fs EXCEPT ![Len(fs)] = s]
    BY <1>3, <1>5, <2>1
  <2>4. /\ gs \in Seq(Segments) /\ SegmentsOK(gs) /\ SameRecords(gs, fs)
        /\ LastOf(gs) = s
        /\ \A k \in 1 .. Len(fs) - 1 : gs[k] = fs[k]
    BY <1>3, <2>2, <2>3, RewriteLast
  <2> QED
    BY <2>1, <2>4
<1>7. /\ Linked(gs) /\ Past(gs, session) /\ Len(gs) = Len(files)
      /\ Older(files, session) => Older(gs, session)
      /\ \A r : Kept(files, r) => Kept(gs, r)
  BY <1>1, <1>2, <1>6, SameRecordsKeep DEF SameRecords
<1>8. FilesInv'
  BY <1>4, <1>6, <1>7 DEF FilesInv
<1>9. Segment' = s
  BY <1>4, <1>6 DEF Segment, LastOf
<1>10. \A n : Data(n)' = Data(n)
  BY DEF Data
<1>11. \A n : Kept(files, Data(n)) => Kept(files, Data(n))'
  <2>1. \A n : Kept(files, Data(n)) => Kept(files', Data(n))
    BY <1>4, <1>7
  <2> QED
    BY <1>10, <2>1 DEF Kept
<1>12. Written' = Written
  BY <1>9 DEF Written, Flushes
<1> QED
  BY <1>4, <1>6, <1>7, <1>8, <1>9, <1>10, <1>11, <1>12

(* The session is still open, or it has ended. *)
LEMMA RewritingOpen ==
  ASSUME IInv, ending = "Open", NEW s, Flushes(s), files' = Rewritten(s), session' = session,
         error => error', ending' = "Open", clean' = clean
  PROVE  OpenInv' /\ CleanInv'
<1>1. /\ Segment' = s /\ Len(files') = Len(files)
      /\ \A k \in 1 .. Len(files) - 1 : files'[k] = files[k]
      /\ Older(files, session) => Older(files', session')
  BY Rewriting
<1>2. Len(files) \in Nat /\ Len(files) \in 1 .. Len(files)
  BY OpenSegment
<1>3. s.recs = Segment.recs /\ s.size = Segment.size /\ s.bad = Segment.bad
  BY DEF Flushes
<1>4. OpenInv'
  BY <1>1, <1>3 DEF IInv, OpenInv
<1>5. ASSUME clean
      PROVE  /\ \A k \in 1 .. Len(files) : files'[k].bad = {}
             /\ \A k \in 1 .. Len(files) - 1 : Whole(files'[k])
  <2>1. /\ \A k \in 1 .. Len(files) : files[k].bad = {}
        /\ \A k \in 1 .. Len(files) - 1 : Whole(files[k])
    BY <1>5 DEF IInv, CleanInv
  <2>2. files'[Len(files)].bad = {}
    BY <1>1, <1>2, <1>3, <2>1 DEF Segment
  <2>3. \A k \in 1 .. Len(files) : k = Len(files) \/ k \in 1 .. Len(files) - 1
    BY <1>2
  <2> QED
    BY <1>1, <2>1, <2>2, <2>3
<1>6. CleanInv'
  BY <1>1, <1>5 DEF CleanInv
<1> QED
  BY <1>4, <1>6

(* The steps that fail leave some of the buffer written. *)
LEMMA FailingStep ==
  ASSUME IInv, RotateFails \/ TimerFails \/ LastSyncFails
  PROVE  IInv'
<1>0. /\ session' = session /\ ending' = ending /\ clean' = clean
      /\ UNCHANGED <<appends, append, pendingGap, dropped, stop, stopping, accepted>>
      /\ error' = TRUE /\ faults < MaxFaults /\ faults' = faults + 1
      /\ writer # "done"
      /\ \E n \in Segment.os .. Segment.size : files' = Rewritten([Segment EXCEPT !.os = n])
  BY DEF RotateFails, TimerFails, LastSyncFails, Fails, Taken, producerVars
<1>1. ending = "Open"
  BY <1>0 DEF IInv, WriterInv, Types
<1>2. PICK n \in Segment.os .. Segment.size : files' = Rewritten([Segment EXCEPT !.os = n])
  BY <1>0
<1>3. n \in Segment.synced .. Segment.size
  BY <1>1, OpenSegment DEF SegmentOK
<1>4. PICK s : s = [Segment EXCEPT !.os = n]
  OBVIOUS
<1>5. Flushes(s) /\ files' = Rewritten(s)
  BY <1>1, <1>2, <1>3, <1>4, PartlyFlushed
<1>6. FilesInv' /\ OpenInv' /\ CleanInv' /\ files' \in Seq(Segments)
  BY <1>0, <1>1, <1>5, Rewriting, RewritingOpen
<1>7. ring' \in Seq(Records) /\ Len(ring') <= Len(ring) /\ Len(ring) \in Nat /\ Len(ring') \in Nat
  <2>1. ring \in Seq(Records)
    BY DEF IInv, QueueTypes
  <2>2. ring' = ring \/ (ring # <<>> /\ ring' = Tail(ring))
    BY DEF RotateFails, TimerFails, LastSyncFails, Taken
  <2> QED
    BY <2>1, <2>2
<1>8. Types'
  <2>1. faults' \in 0 .. MaxFaults
    BY <1>0, JournalAssumption DEF IInv, Types
  <2>2. writer' \in {"top", "drain", "timers", "last", "done"}
    BY DEF IInv, Types, RotateFails, TimerFails, LastSyncFails
  <2> QED
    BY <1>0, <2>1, <2>2 DEF IInv, Types
<1>9. Flags' /\ QueueTypes'
  <2>1. wroteAny' \in BOOLEAN
    BY DEF IInv, Flags, RotateFails, TimerFails, LastSyncFails, Taken
  <2> QED
    BY <1>0, <1>6, <1>7, <2>1 DEF IInv, Flags, QueueTypes
<1>10. ProducerInv'
  <2>1. Len(ring') <= RingSlots
    BY <1>7, JournalAssumption DEF IInv, ProducerInv
  <2> QED
    BY <1>0, <2>1 DEF IInv, ProducerInv, Decided
<1>11. RingInv' /\ AcceptedInv'
  BY <1>0, <1>1 DEF RingInv, AcceptedInv
<1>12. WriterInv'
  BY <1>0, <1>1 DEF IInv, WriterInv, RotateFails, TimerFails, LastSyncFails, Taken, Leaves
<1> QED
  BY <1>6, <1>8, <1>9, <1>10, <1>11, <1>12 DEF IInv

(* The flush and sync timers of the writer thread. *)
LEMMA TimersStep ==
  ASSUME IInv, Timers
  PROVE  IInv'
<1>0. /\ UNCHANGED <<session, ending, clean, error>>
      /\ UNCHANGED <<appends, append, pendingGap, dropped, stop, stopping, wroteAny, accepted, faults,
                     ring>>
      /\ writer = "timers" /\ writer' = IF Leaves THEN "last" ELSE "top"
      /\ files' \in {files, Rewritten(Flushed(Segment)), Rewritten(Synced(Segment))}
  BY DEF Timers, producerVars
<1>1. ending = "Open"
  BY <1>0 DEF IInv, WriterInv
<1>2. files = Rewritten(Segment)
  <2>1. files \in Seq(Segments) /\ Len(files) \in 1 .. Len(files)
    BY <1>1, OpenSegment
  <2> QED
    BY <2>1 DEF Rewritten, Segment
<1>3. PICK s : Flushes(s) /\ files' = Rewritten(s)
  BY <1>0, <1>1, <1>2, PartlyFlushed
<1>4. FilesInv' /\ OpenInv' /\ CleanInv' /\ files' \in Seq(Segments)
  BY <1>0, <1>1, <1>3, Rewriting, RewritingOpen
<1>5. /\ Written' = Written
      /\ \A n : Data(n)' = Data(n)
      /\ \A n : Kept(files, Data(n)) => Kept(files, Data(n))'
  BY <1>0, <1>1, <1>3, Rewriting
<1>6. Types'
  BY <1>0 DEF IInv, Types
<1>7. Flags' /\ QueueTypes'
  BY <1>0, <1>4 DEF IInv, Flags, QueueTypes
<1>8. ProducerInv' /\ Decided' = Decided
  BY <1>0 DEF IInv, ProducerInv, Decided
<1>9. RingInv'
  <2>1. Reached' = Reached
    BY <1>0, <1>5 DEF Reached
  <2> QED
    BY <1>0, <1>5, <1>8, <2>1 DEF IInv, RingInv
<1>10. WriterInv'
  BY <1>0, <1>1 DEF IInv, WriterInv, Leaves
<1>11. AcceptedInv'
  <2>1. \A n : InRing(Data(n))' = InRing(Data(n))
    BY <1>0 DEF InRing, Data
  <2> QED
    BY <1>0, <1>1, <1>5, <2>1 DEF IInv, AcceptedInv
<1> QED
  BY <1>4, <1>6, <1>7, <1>8, <1>9, <1>10, <1>11 DEF IInv

(* finish: everything is synced after the ring has been emptied. *)
LEMMA LastSyncStep ==
  ASSUME IInv, LastSync
  PROVE  IInv'
<1>0. /\ session' = session /\ clean' = clean /\ ending' = "Ok" /\ writer = "last" /\ ~error
      /\ UNCHANGED <<appends, append, pendingGap, dropped, stop, accepted, faults, ring>>
      /\ writer' = "done" /\ stopping' = FALSE /\ wroteAny' = FALSE /\ error' = FALSE
      /\ files' = Rewritten(Synced(Segment))
  BY DEF LastSync, Gone, producerVars
<1>1. ending = "Open" /\ stopping /\ stop
  BY <1>0 DEF IInv, WriterInv, Types
<1>2. PICK s : s = Synced(Segment)
  OBVIOUS
<1>3. Flushes(s) /\ files' = Rewritten(s) /\ s.os = Segment.size
  BY <1>0, <1>1, <1>2, PartlyFlushed
<1>4. /\ FilesInv' /\ files' \in Seq(Segments)
      /\ Segment' = s /\ Len(files') = Len(files)
      /\ \A k \in 1 .. Len(files) - 1 : files'[k] = files[k]
      /\ \A n : Kept(files, Data(n)) => Kept(files, Data(n))'
  BY <1>0, <1>1, <1>3, Rewriting
<1>5. Types'
  BY <1>0 DEF IInv, Types
<1>6. Flags' /\ QueueTypes'
  BY <1>0, <1>4 DEF IInv, Flags, QueueTypes
<1>7. ProducerInv'
  BY <1>0 DEF IInv, ProducerInv, Decided
<1>8. OpenInv' /\ RingInv' /\ WriterInv'
  BY <1>0, <1>1 DEF OpenInv, RingInv, WriterInv
<1>9. AcceptedInv'
  BY <1>0, <1>1, <1>4 DEF IInv, AcceptedInv
<1>10. CleanInv'
  <2>1. Len(files) \in Nat /\ Len(files) \in 1 .. Len(files)
    BY <1>1, OpenSegment
  <2>2. Segment.size = 1 + 2 * Len(Segment.recs)
    BY <1>0, <1>1 DEF IInv, OpenInv
  <2>3. Whole(s) /\ s.bad = Segment.bad
    BY <1>3, <2>2 DEF Whole, Flushes
  <2>4. ASSUME clean
        PROVE  /\ \A k \in 1 .. Len(files) : files'[k].bad = {}
               /\ \A k \in 1 .. Len(files) - 1 : Whole(files'[k])
    <3>1. /\ \A k \in 1 .. Len(files) : files[k].bad = {}
          /\ \A k \in 1 .. Len(files) - 1 : Whole(files[k])
      BY <2>4 DEF IInv, CleanInv
    <3>2. files'[Len(files)].bad = {}
      BY <1>4, <2>1, <2>3, <3>1 DEF Segment
    <3>3. \A k \in 1 .. Len(files) : k = Len(files) \/ k \in 1 .. Len(files) - 1
      BY <2>1
    <3> QED
      BY <1>4, <3>1, <3>2, <3>3
  <2> QED
    BY <1>0, <1>4, <2>3, <2>4 DEF CleanInv
<1> QED
  BY <1>4, <1>5, <1>6, <1>7, <1>8, <1>9, <1>10 DEF IInv

(* The writer thread ends with the error it met. *)
LEMMA EndFailedStep ==
  ASSUME IInv, EndFailed
  PROVE  IInv'
<1>0. /\ session' = session /\ clean' = FALSE /\ ending' = "Err" /\ writer = "last"
      /\ UNCHANGED <<appends, append, pendingGap, dropped, stop, accepted, faults, ring>>
      /\ writer' = "done" /\ stopping' = FALSE /\ wroteAny' = FALSE /\ error' = FALSE
      /\ \E n \in Segment.os .. Segment.size : files' = Rewritten([Segment EXCEPT !.os = n])
  BY DEF EndFailed, Gone, producerVars
<1>1. ending = "Open" /\ stop
  BY <1>0 DEF IInv, WriterInv, Types
<1>2. PICK n \in Segment.os .. Segment.size : files' = Rewritten([Segment EXCEPT !.os = n])
  BY <1>0
<1>3. n \in Segment.synced .. Segment.size
  BY <1>1, OpenSegment DEF SegmentOK
<1>4. PICK s : s = [Segment EXCEPT !.os = n]
  OBVIOUS
<1>5. Flushes(s) /\ files' = Rewritten(s)
  BY <1>1, <1>2, <1>3, <1>4, PartlyFlushed
<1>6. FilesInv' /\ files' \in Seq(Segments)
  BY <1>0, <1>1, <1>5, Rewriting
<1>7. Types'
  BY <1>0 DEF IInv, Types
<1>8. Flags' /\ QueueTypes'
  BY <1>0, <1>6 DEF IInv, Flags, QueueTypes
<1>9. ProducerInv'
  BY <1>0 DEF IInv, ProducerInv, Decided
<1>10. OpenInv' /\ RingInv' /\ WriterInv' /\ AcceptedInv' /\ CleanInv'
  BY <1>0, <1>1 DEF OpenInv, RingInv, WriterInv, AcceptedInv, CleanInv
<1> QED
  BY <1>6, <1>7, <1>8, <1>9, <1>10 DEF IInv

(* A crash keeps a prefix of what was written. *)
LEMMA CrashStep ==
  ASSUME IInv, Crash \/ PowerFailure
  PROVE  IInv'
<1>1. ending = "Open"
  BY DEF Crash, PowerFailure, Stopped
<1>2. PICK s : Flushes(s) /\ Stopped(s)
  <2>1. CASE Crash
    BY <1>1, <2>1, PartlyFlushed DEF Crash
  <2>2. CASE PowerFailure
    <3>1. PICK n \in Segment.synced .. Segment.os : Stopped([Segment EXCEPT !.os = n])
      BY <2>2 DEF PowerFailure
    <3>2. n \in Segment.synced .. Segment.size
      BY <1>1, OpenSegment DEF SegmentOK
    <3> QED
      BY <1>1, <3>1, <3>2, PartlyFlushed
  <2> QED
    BY <2>1, <2>2
<1>3. /\ session' = session /\ clean' = FALSE /\ ending' = "Crash" /\ faults' = faults
      /\ appends' = 0 /\ append' = "none" /\ pendingGap' = 0 /\ dropped' = 0 /\ stop' = FALSE
      /\ ring' = <<>> /\ accepted' = {}
      /\ writer' = "done" /\ stopping' = FALSE /\ wroteAny' = FALSE /\ error' = FALSE
      /\ files' = Rewritten(s)
  BY <1>2 DEF Stopped, Gone
<1>4. FilesInv' /\ files' \in Seq(Segments)
  BY <1>1, <1>2, <1>3, Rewriting
<1>5. Types'
  BY <1>3 DEF IInv, Types
<1>6. <<>> \in Seq(Records) /\ Len(<<>>) = 0 /\ RingSlots \in Nat
  BY JournalAssumption
<1>7. Flags' /\ QueueTypes'
  BY <1>3, <1>4, <1>6 DEF IInv, Flags, QueueTypes
<1>8. ProducerInv'
  BY <1>3, <1>6 DEF ProducerInv, Decided
<1>9. OpenInv' /\ RingInv' /\ WriterInv' /\ AcceptedInv' /\ CleanInv'
  BY <1>3 DEF OpenInv, RingInv, WriterInv, AcceptedInv, CleanInv
<1> QED
  BY <1>4, <1>5, <1>7, <1>8, <1>9 DEF IInv

(* A session is started. *)
LEMMA StartStep ==
  ASSUME IInv, Start
  PROVE  IInv'
<1>0. /\ ending # "Open" /\ session < MaxSessions /\ session' = session + 1 /\ ending' = "Open"
      /\ appends' = 0 /\ append' = "none" /\ pendingGap' = 0 /\ ring' = <<>> /\ dropped' = 0
      /\ stop' = FALSE /\ writer' = "top" /\ stopping' = FALSE /\ wroteAny' = FALSE
      /\ error' = FALSE /\ files' = Append(files, NewSegment) /\ accepted' = {}
      /\ faults' = faults /\ clean' = clean
  BY DEF Start
<1>1. /\ files \in Seq(Segments) /\ Len(files) \in Nat
      /\ SegmentsOK(files) /\ Linked(files) /\ Past(files, session)
      /\ session \in 0 .. MaxSessions /\ MaxSessions \in Nat /\ session \in Nat
  BY JournalAssumption DEF IInv, QueueTypes, FilesInv, Types
<1>2. PICK gs : gs = files'
  OBVIOUS
<1>3. /\ gs \in Seq(Segments) /\ SegmentsOK(gs) /\ Linked(gs)
      /\ Len(gs) = Len(files) + 1
      /\ LastOf(gs) = NewSegment
      /\ \A k \in 1 .. Len(files) : gs[k] = files[k]
      /\ \A t : Past(files, t) => Past(gs, t)
      /\ \A t : Older(files, t) => Older(gs, t)
  BY <1>0, <1>1, <1>2, AddSegment
<1>4. Past(files, session + 1) /\ Older(files, session + 1)
  <2>1. ASSUME NEW k \in 1 .. Len(files), NEW i \in 1 .. Len(files[k].recs)
        PROVE  /\ files[k].recs[i].session <= session + 1
               /\ files[k].recs[i].session < session + 1
    <3>1. files[k].recs[i].session <= session
      BY <1>1 DEF Past
    <3>2. files[k].recs[i] \in Records
      <4>1. files[k] \in Segments
        BY <1>1
      <4>2. files[k].recs \in Seq(Records)
        BY <4>1 DEF Segments
      <4> QED
        BY <4>2
    <3>3. files[k].recs[i].session \in Nat
      BY <3>2 DEF Records
    <3> QED
      BY <1>1, <3>1, <3>3
  <2> QED
    BY <2>1 DEF Past, Older
<1>5. FilesInv'
  BY <1>0, <1>2, <1>3, <1>4 DEF FilesInv
<1>6. Segment' = NewSegment
  BY <1>2, <1>3 DEF Segment, LastOf
<1>7. Types'
  <2>1. session' \in 0 .. MaxSessions
    BY <1>0, <1>1
  <2> QED
    BY <1>0, <2>1 DEF IInv, Types
<1>8. <<>> \in Seq(Records) /\ Len(<<>>) = 0 /\ RingSlots \in Nat
  BY JournalAssumption
<1>9. Flags' /\ QueueTypes'
  BY <1>0, <1>2, <1>3, <1>8 DEF IInv, Flags, QueueTypes
<1>10. ProducerInv' /\ Decided' = 0
  BY <1>0, <1>8 DEF ProducerInv, Decided
<1>11. OpenInv'
  <2>1. Older(files', session') /\ Len(files') > 0
    BY <1>0, <1>1, <1>2, <1>3, <1>4
  <2>2. Len(Segment'.recs) = 0 /\ Segment'.size = 1
    BY <1>6, <1>8, NewSegmentFacts
  <2> QED
    BY <2>1, <2>2 DEF OpenInv
<1>12. RingInv'
  <2>1. Written' = 0 /\ Reached' = 0
    BY <1>0, <1>6, NewSegmentFacts DEF Written, Reached
  <2>2. Chained(ring')
    BY <1>0, <1>8 DEF Chained
  <2> QED
    BY <1>0, <1>8, <1>10, <2>1, <2>2 DEF RingInv
<1>13. WriterInv' /\ AcceptedInv'
  BY <1>0 DEF WriterInv, AcceptedInv
<1>14. CleanInv'
  <2>1. ASSUME clean
        PROVE  /\ \A k \in 1 .. Len(gs) : gs[k].bad = {}
               /\ \A k \in 1 .. Len(gs) - 1 : Whole(gs[k])
    <3>1. /\ ending = "Ok"
          /\ \A k \in 1 .. Len(files) : files[k].bad = {}
          /\ \A k \in 1 .. Len(files) - 1 : Whole(files[k])
          /\ Len(files) > 0 => Whole(Segment)
      BY <1>0, <2>1 DEF IInv, CleanInv
    <3>2. \A k \in 1 .. Len(files) : Whole(files[k])
      <4>1. \A k \in 1 .. Len(files) : k \in 1 .. Len(files) - 1 \/ k = Len(files)
        BY <1>1
      <4> QED
        BY <3>1, <4>1 DEF Segment
    <3>3. \A k \in 1 .. Len(gs) : k \in 1 .. Len(files) \/ k = Len(gs)
      BY <1>1, <1>3
    <3>4. \A k \in 1 .. Len(gs) - 1 : k \in 1 .. Len(files)
      BY <1>1, <1>3
    <3>5. gs[Len(gs)].bad = {}
      BY <1>3, NewSegmentFacts DEF LastOf
    <3> QED
      BY <1>3, <3>1, <3>2, <3>3, <3>4, <3>5
  <2> QED
    BY <1>0, <1>2, <2>1 DEF CleanInv
<1> QED
  BY <1>5, <1>7, <1>9, <1>10, <1>11, <1>12, <1>13, <1>14 DEF IInv

(* A unit of a segment is damaged. *)
LEMMA DamageStep ==
  ASSUME IInv, Damage
  PROVE  IInv'
<1>0. /\ ending # "Open" /\ faults < MaxFaults /\ faults' = faults + 1 /\ clean' = FALSE
      /\ UNCHANGED <<session, ending, appends, append, pendingGap, dropped, ring, stop>>
      /\ UNCHANGED <<writer, stopping, wroteAny, error, accepted>>
  BY DEF Damage, producerVars, writerVars
<1>1. /\ files \in Seq(Segments) /\ Len(files) \in Nat /\ DOMAIN files = 1 .. Len(files)
      /\ SegmentsOK(files) /\ Linked(files) /\ Past(files, session)
  BY DEF IInv, QueueTypes, FilesInv
<1>2. PICK k \in 1 .. Len(files) : \E u \in 1 .. files[k].os :
        files' = [files EXCEPT ![k].bad = {u}]
  BY <1>1 DEF Damage
<1>3. PICK u \in 1 .. files[k].os : files' = [files EXCEPT ![k].bad = {u}]
  BY <1>2
<1>4. PICK s : s = [files[k] EXCEPT !.bad = {u}]
  OBVIOUS
<1>5. PICK gs : gs = [files EXCEPT ![k] = s]
  OBVIOUS
<1>6. files' = gs
  BY <1>3, <1>4, <1>5
<1>7. files[k] \in Segments /\ files[k].os \in Nat /\ {u} \in SUBSET Nat
  <2>1. files[k] \in Segments
    BY <1>1
  <2>2. files[k].os \in Nat
    BY <2>1 DEF Segments
  <2> QED
    BY <2>1, <2>2
<1>8. /\ s \in Segments /\ s.recs = files[k].recs /\ s.os = files[k].os
      /\ s.size = files[k].size /\ s.synced = files[k].synced
  BY <1>4, <1>7 DEF Segments
<1>9. SegmentOK(s)
  BY <1>1, <1>8 DEF SegmentsOK, SegmentOK
<1>10. gs \in Seq(Segments) /\ Len(gs) = Len(files)
  BY <1>1, <1>5, <1>8
<1>11. \A j \in 1 .. Len(files) : gs[j] = IF j = k THEN s ELSE files[j]
  BY <1>1, <1>5
<1>12. SegmentsOK(gs) /\ SameRecords(gs, files)
  <2>1. \A j \in 1 .. Len(files) - 1 : j \in 1 .. Len(files)
    BY <1>1
  <2> QED
    BY <1>1, <1>8, <1>9, <1>10, <1>11, <2>1 DEF SegmentsOK, SameRecords
<1>13. Linked(gs) /\ Past(gs, session) /\ \A r : Kept(files, r) => Kept(gs, r)
  BY <1>1, <1>10, <1>12, SameRecordsKeep
<1>14. FilesInv'
  BY <1>0, <1>6, <1>12, <1>13 DEF FilesInv
<1>15. Types'
  <2>1. faults' \in 0 .. MaxFaults
    BY <1>0, JournalAssumption DEF IInv, Types
  <2> QED
    BY <1>0, <2>1 DEF IInv, Types
<1>16. Flags' /\ QueueTypes'
  BY <1>0, <1>6, <1>10 DEF IInv, Flags, QueueTypes
<1>17. ProducerInv'
  BY <1>0 DEF IInv, ProducerInv, Decided
<1>18. OpenInv' /\ RingInv' /\ WriterInv' /\ CleanInv'
  BY <1>0 DEF IInv, OpenInv, RingInv, WriterInv, CleanInv
<1>19. AcceptedInv'
  <2>1. \A n : Data(n)' = Data(n)
    BY <1>0 DEF Data
  <2>2. \A n : Kept(files, Data(n)) => Kept(files', Data(n))
    BY <1>6, <1>13
  <2>3. \A n : Kept(files, Data(n)) => Kept(files, Data(n))'
    BY <2>1, <2>2 DEF Kept
  <2> QED
    BY <1>0, <2>3 DEF IInv, AcceptedInv
<1> QED
  BY <1>14, <1>15, <1>16, <1>17, <1>18, <1>19 DEF IInv

(***************************************************************************)
(* Sink::write                                                             *)
(***************************************************************************)

(* Where the next record goes: the open segment, or a new one after the    *)
(* open one was made whole.                                                *)
LEMMA RotatedFacts ==
  ASSUME IInv, ending = "Open", ~error, ring # <<>>, NEW rs, rs = Rotated
  PROVE  /\ rs \in Seq(Segments) /\ Len(rs) > 0
         /\ SegmentsOK(rs) /\ Linked(rs) /\ Past(rs, session)
         /\ LastOf(rs) \in Segments
         /\ LastOf(rs).size = 1 + 2 * Len(LastOf(rs).recs)
         /\ LastOf(rs).size < SegmentUnits
         /\ \A i \in 1 .. Len(LastOf(rs).recs) : LastOf(rs).recs[i].session = session
         /\ LastOf(rs).recs # <<>> => Follows(ring[1], LastOf(LastOf(rs).recs))
         /\ LastOf(rs).recs = <<>> => MayBegin(rs, ring[1], session)
         /\ \A r : Kept(files, r) => Kept(rs, r)
         /\ clean => /\ \A k \in 1 .. Len(rs) : rs[k].bad = {}
                     /\ \A k \in 1 .. Len(rs) - 1 : Whole(rs[k])
<1>1. /\ Segment \in Segments /\ SegmentOK(Segment) /\ Segment = LastOf(files)
      /\ Segment.recs \in Seq(Records) /\ Len(Segment.recs) \in Nat
      /\ Segment.size \in Nat /\ Segment.os \in Nat
      /\ Len(files) \in Nat /\ Len(files) \in 1 .. Len(files) /\ files \in Seq(Segments)
      /\ ring \in Seq(Records)
  BY OpenSegment
<1>2. SegmentsOK(files) /\ Linked(files) /\ Past(files, session)
  BY DEF IInv, FilesInv
<1>3. /\ Segment.size = 1 + 2 * Len(Segment.recs)
      /\ Segment.recs = <<>> => Older(files, session)
      /\ \A i \in 1 .. Len(Segment.recs) : Segment.recs[i].session = session
  BY DEF IInv, OpenInv
<1>4. /\ ring[1].upTo = Written + Weight(ring[1])
      /\ ring[1].session = session /\ ring[1] \in Records
  <2>1. 1 \in 1 .. Len(ring)
    BY <1>1
  <2> QED
    BY <1>1, <2>1 DEF IInv, RingInv
<1>5. Weight(ring[1]) \in Nat
  BY <1>4, WeightType
<1>6. Segment.recs # <<>> => Follows(ring[1], LastOf(Segment.recs))
  <2>1. Segment.recs # <<>> => Len(Segment.recs) \in 1 .. Len(Segment.recs)
    BY <1>1
  <2>2. Segment.recs # <<>> => LastOf(Segment.recs).session = session
    BY <1>3, <2>1 DEF LastOf
  <2> QED
    BY <1>4, <2>2 DEF Follows, Written
<1>7. Segment.recs = <<>> => ring[1].upTo = Weight(ring[1])
  BY <1>4, <1>5 DEF Written
<1>8. clean => /\ \A k \in 1 .. Len(files) : files[k].bad = {}
               /\ \A k \in 1 .. Len(files) - 1 : Whole(files[k])
  BY DEF IInv, CleanInv
<1>9. SegmentUnits \in Nat /\ SegmentUnits >= 2
  BY JournalAssumption
<1>10. CASE ~MustRotate
  <2>1. rs = files
    BY <1>10 DEF Rotated
  <2>2. Segment.size < SegmentUnits
    BY <1>1, <1>9, <1>10 DEF MustRotate
  <2>3. Len(files) > 0
    BY <1>1
  <2> QED
    BY <1>1, <1>2, <1>3, <1>6, <1>7, <1>8, <2>1, <2>2, <2>3 DEF MayBegin
<1>11. CASE MustRotate
  <2>1. PICK s : s = Synced(Segment)
    OBVIOUS
  <2>2. /\ s \in Segments /\ SegmentOK(s) /\ s.recs = Segment.recs /\ s.bad = Segment.bad
        /\ s.os = Segment.size
    BY <2>1, PartlyFlushed DEF Flushes
  <2>3. Whole(s)
    BY <1>3, <2>2 DEF Whole
  <2>4. PICK fs : fs = files
    OBVIOUS
  <2>5. PICK gs : gs = [fs EXCEPT ![Len(fs)] = s]
    OBVIOUS
  <2>6. /\ fs \in Seq(Segments) /\ Len(fs) > 0 /\ SegmentsOK(fs) /\ s.recs = LastOf(fs).recs
    BY <1>1, <1>2, <2>2, <2>4
  <2>7. /\ gs \in Seq(Segments) /\ SegmentsOK(gs) /\ SameRecords(gs, fs)
        /\ LastOf(gs) = s
        /\ \A k \in 1 .. Len(fs) - 1 : gs[k] = fs[k]
    BY <2>2, <2>5, <2>6, RewriteLast
  <2>8. /\ Linked(gs) /\ Past(gs, session) /\ Len(gs) = Len(files)
        /\ \A r : Kept(files, r) => Kept(gs, r)
    BY <1>2, <2>4, <2>6, <2>7, SameRecordsKeep DEF SameRecords
  <2>9. rs = Append(gs, NewSegment)
    BY <1>11, <2>1, <2>4, <2>5 DEF Rotated, Rewritten
  <2>10. /\ rs \in Seq(Segments) /\ SegmentsOK(rs) /\ Linked(rs)
         /\ Len(rs) = Len(gs) + 1
         /\ LastOf(rs) = NewSegment
         /\ \A k \in 1 .. Len(gs) : rs[k] = gs[k]
         /\ Past(rs, session)
         /\ \A r : Kept(files, r) => Kept(rs, r)
    BY <2>7, <2>8, <2>9, AddSegment
  <2>11. Len(NewSegment.recs) = 0 /\ NewSegment.recs = <<>> /\ NewSegment.size = 1
         /\ NewSegment.bad = {} /\ NewSegment \in Segments
    BY NewSegmentFacts
  <2>12. Segment.recs # <<>>
    <3>1. Segment.recs = <<>> => Len(Segment.recs) = 0
      OBVIOUS
    <3> QED
      BY <1>3, <1>9, <1>11, <3>1 DEF MustRotate
  <2>13. Len(rs) > 1 /\ Len(rs) - 1 = Len(gs) /\ rs[Len(rs) - 1] = s /\ Len(rs) > 0
    BY <1>1, <2>7, <2>8, <2>10 DEF LastOf
  <2>14. ASSUME clean
         PROVE  /\ \A k \in 1 .. Len(rs) : rs[k].bad = {}
                /\ \A k \in 1 .. Len(rs) - 1 : Whole(rs[k])
    <3>1. \A k \in 1 .. Len(gs) : k = Len(gs) \/ k \in 1 .. Len(files) - 1
      BY <1>1, <2>8
    <3>2. Segment.bad = {}
      BY <1>1, <1>8, <2>14 DEF Segment
    <3>3. gs[Len(gs)] = s
      BY <2>7 DEF LastOf
    <3>4. \A k \in 1 .. Len(gs) : gs[k].bad = {} /\ Whole(gs[k])
      <4>1. \A k \in 1 .. Len(files) - 1 : k \in 1 .. Len(files)
        BY <1>1
      <4> QED
        BY <1>8, <2>2, <2>3, <2>4, <2>7, <2>14, <3>1, <3>2, <3>3, <4>1
    <3>5. \A k \in 1 .. Len(rs) : k \in 1 .. Len(gs) \/ k = Len(rs)
      BY <1>1, <2>8, <2>10
    <3>6. rs[Len(rs)].bad = {}
      BY <2>10, <2>11 DEF LastOf
    <3> QED
      BY <2>10, <2>13, <3>4, <3>5, <3>6
  <2>15. 1 = 1 + 2 * 0 /\ 1 < SegmentUnits
    BY <1>9
  <2>16. Follows(ring[1], LastOf(s.recs)) /\ s.recs # <<>>
    BY <1>6, <2>2, <2>12, SMTT(30)
  <2>17. \A i \in 1 .. Len(LastOf(rs).recs) : LastOf(rs).recs[i].session = session
    BY <2>10, <2>11, SMTT(30)
  <2> QED
    BY <2>3, <2>10, <2>11, <2>13, <2>14, <2>15, <2>16, <2>17 DEF MayBegin
<1> QED
  BY <1>10, <1>11

(* The record s ends with was written: all or, after a failure, some of it. *)
LEMMA RecordWritten ==
  ASSUME IInv, ending = "Open", ~error, ring # <<>>, ring' = Tail(ring), session' = session,
         ending' = "Open", clean' = clean,
         NEW rs, rs = Rotated,
         NEW s \in Segments, s.recs = Append(LastOf(rs).recs, ring[1]),
         s.synced <= s.os, s.os <= s.size, s.size <= LastOf(rs).size + 2,
         ~error' => s.size = LastOf(rs).size + 2,
         s.bad = LastOf(rs).bad,
         files' = [rs EXCEPT ![Len(rs)] = s]
  PROVE  /\ files' \in Seq(Segments) /\ FilesInv' /\ OpenInv' /\ CleanInv'
         /\ \A n : Kept(files, Data(n)) => Kept(files', Data(n))
         /\ Kept(files', ring[1])
         /\ Written' = ring[1].upTo
<1>1. /\ rs \in Seq(Segments) /\ Len(rs) > 0
      /\ SegmentsOK(rs) /\ Linked(rs) /\ Past(rs, session)
      /\ LastOf(rs) \in Segments
      /\ LastOf(rs).size = 1 + 2 * Len(LastOf(rs).recs)
      /\ LastOf(rs).size < SegmentUnits
      /\ \A i \in 1 .. Len(LastOf(rs).recs) : LastOf(rs).recs[i].session = session
      /\ LastOf(rs).recs # <<>> => Follows(ring[1], LastOf(LastOf(rs).recs))
      /\ LastOf(rs).recs = <<>> => MayBegin(rs, ring[1], session)
  BY RotatedFacts
<1>2. /\ \A r : Kept(files, r) => Kept(rs, r)
      /\ clean => /\ \A k \in 1 .. Len(rs) : rs[k].bad = {}
                  /\ \A k \in 1 .. Len(rs) - 1 : Whole(rs[k])
  BY RotatedFacts
<1>3. PICK r : r = ring[1]
  OBVIOUS
<1>4. r \in Records /\ r.session = session /\ session \in Nat
  <2>1. ring \in Seq(Records) /\ 1 \in 1 .. Len(ring)
    BY OpenSegment
  <2> QED
    BY <1>3, <2>1, JournalAssumption DEF IInv, RingInv, Types
<1>5. PICK old : old = LastOf(rs).recs
  OBVIOUS
<1>6. old \in Seq(Records) /\ Len(old) \in Nat /\ Chained(old)
  <2>1. Len(rs) \in 1 .. Len(rs)
    BY <1>1
  <2>2. SegmentOK(LastOf(rs))
    BY <1>1, <2>1 DEF SegmentsOK, LastOf
  <2> QED
    BY <1>1, <1>5, <2>2 DEF Segments, SegmentOK
<1>7. s.recs = Append(old, r) /\ (old # <<>> => Follows(r, LastOf(old)))
  BY <1>1, <1>3, <1>5
<1>8. /\ Chained(s.recs) /\ Len(s.recs) = Len(old) + 1 /\ LastOf(s.recs) = r
      /\ \A i \in 1 .. Len(old) : s.recs[i] = old[i]
  BY <1>4, <1>6, <1>7, ChainedAppend
<1>9. s.size \in Nat /\ LastOf(rs).size = 1 + 2 * Len(old)
  BY <1>1, <1>5 DEF Segments
<1>10. SegmentOK(s)
  <2>1. s.size <= 1 + 2 * Len(s.recs)
    BY <1>6, <1>8, <1>9
  <2>2. s.size < SegmentUnits + 2
    BY <1>1, <1>6, <1>9, JournalAssumption, SMTT(30)
  <2> QED
    BY <1>8, <2>1, <2>2 DEF SegmentOK
<1>11. PICK gs : gs = files'
  OBVIOUS
<1>12. gs = [rs EXCEPT ![Len(rs)] = s]
  BY <1>11, SMTT(30)
<1>13. /\ gs \in Seq(Segments) /\ SegmentsOK(gs) /\ Linked(gs)
       /\ Past(gs, session)
       /\ Len(gs) = Len(rs) /\ LastOf(gs) = s
       /\ \A k \in 1 .. Len(rs) - 1 : gs[k] = rs[k]
       /\ \A q : Kept(rs, q) => Kept(gs, q)
       /\ Kept(gs, r)
  <2>1. s.recs = Append(LastOf(rs).recs, r)
    BY <1>3
  <2>2. Past(rs, r.session) /\ (LastOf(rs).recs = <<>> => MayBegin(rs, r, r.session))
    BY <1>1, <1>3, <1>4
  <2>3. rs \in Seq(Segments) /\ Len(rs) > 0 /\ SegmentsOK(rs) /\ Linked(rs)
    BY <1>1
  <2>4. Added([rs EXCEPT ![Len(rs)] = s], rs, s, r)
    BY <1>4, <1>10, <2>1, <2>2, <2>3, AddRecord
  <2> QED
    BY <1>4, <1>12, <2>4 DEF Added
<1>14. FilesInv'
  BY <1>11, <1>13 DEF FilesInv
<1>15. Segment' = s
  BY <1>11, <1>13 DEF Segment, LastOf
<1>16. s.recs # <<>>
  BY <1>6, <1>8, SMTT(30)
<1>17. \A i \in 1 .. Len(s.recs) : s.recs[i].session = session
  <2>1. \A i \in 1 .. Len(s.recs) : i \in 1 .. Len(old) \/ i = Len(s.recs)
    BY <1>6, <1>8
  <2> QED
    BY <1>1, <1>4, <1>5, <1>8, <2>1 DEF LastOf
<1>18. OpenInv'
  <2>1. ~error' => s.size = 1 + 2 * Len(s.recs)
    BY <1>6, <1>8, <1>9
  <2>2. Len(files') > 0
    BY <1>1, <1>11, <1>13
  <2> QED
    BY <1>15, <1>16, <1>17, <2>1, <2>2 DEF OpenInv
<1>19. CleanInv'
  <2>1. ASSUME clean
        PROVE  /\ \A k \in 1 .. Len(gs) : gs[k].bad = {}
               /\ \A k \in 1 .. Len(gs) - 1 : Whole(gs[k])
    <3>1. Len(rs) \in 1 .. Len(rs) /\ \A k \in 1 .. Len(rs) : k \in 1 .. Len(rs) - 1 \/ k = Len(rs)
      BY <1>1
    <3>2. gs[Len(gs)].bad = {}
      BY <1>2, <1>13, <2>1, <3>1 DEF LastOf
    <3> QED
      BY <1>2, <1>13, <2>1, <3>1, <3>2
  <2> QED
    BY <1>11, <2>1 DEF CleanInv
<1>20. Written' = r.upTo
  BY <1>8, <1>15, <1>16 DEF Written
<1> QED
  BY <1>2, <1>3, <1>11, <1>13, <1>14, <1>18, <1>19, <1>20

(* A record is written behind the one before it, in the same or in a new segment. *)
LEMMA WriteStep ==
  ASSUME IInv, Write
  PROVE  IInv'
<1>0. /\ UNCHANGED <<session, ending, clean, error>>
      /\ UNCHANGED <<appends, append, pendingGap, dropped, stop, writer, stopping, faults, accepted>>
      /\ writer = "drain" /\ ring # <<>> /\ ring' = Tail(ring) /\ wroteAny' = TRUE /\ ~error
  BY DEF Write, Taken, producerVars
<1>1. ending = "Open"
  BY <1>0 DEF IInv, WriterInv
<1>2. PICK rs : rs = Rotated
  OBVIOUS
<1>3. PICK o : o = LastOf(rs)
  OBVIOUS
<1>4. PICK n \in {o.os, o.size, o.size + 1} :
        files' = [rs EXCEPT ![Len(rs)] = WithRecord(o, Head(ring), o.size + 2, n)]
  BY <1>2, <1>3 DEF Write, LastOf
<1>5. rs \in Seq(Segments) /\ Len(rs) > 0 /\ SegmentsOK(rs) /\ o \in Segments
  BY <1>0, <1>1, <1>2, <1>3, RotatedFacts
<1>6. /\ o.recs \in Seq(Records) /\ o.size \in Nat /\ o.os \in Nat /\ o.synced \in Nat
  BY <1>5 DEF Segments
<1>7. o.synced <= o.os /\ o.os <= o.size
  <2>1. Len(rs) \in 1 .. Len(rs)
    BY <1>5
  <2> QED
    BY <1>3, <1>5, <2>1 DEF SegmentsOK, SegmentOK, LastOf
<1>8. ring \in Seq(Records) /\ Head(ring) = ring[1] /\ ring[1] \in Records /\ Chained(ring)
  <2>1. ring \in Seq(Records) /\ Chained(ring)
    BY <1>0, <1>1, OpenSegment DEF IInv, RingInv
  <2> QED
    BY <1>0, <2>1, ChainedTail
<1>9. PICK s : s = WithRecord(o, Head(ring), o.size + 2, n)
  OBVIOUS
<1>10. n \in Nat /\ o.synced <= n /\ n <= o.size + 2
  BY <1>4, <1>6, <1>7
<1>11. /\ s.recs = Append(o.recs, ring[1]) /\ s.size = o.size + 2 /\ s.os = n
       /\ s.synced = o.synced /\ s.bad = o.bad /\ s \in Segments
  <2>1. Append(o.recs, ring[1]) \in Seq(Records) /\ o.size + 2 \in Nat
    BY <1>6, <1>8
  <2> QED
    BY <1>5, <1>8, <1>9, <1>10, <2>1 DEF WithRecord, Segments
<1>12. /\ files' \in Seq(Segments) /\ FilesInv' /\ OpenInv' /\ CleanInv'
       /\ \A m : Kept(files, Data(m)) => Kept(files', Data(m))
       /\ Kept(files', ring[1])
       /\ Written' = ring[1].upTo
  <2>1. files' = [rs EXCEPT ![Len(rs)] = s]
    BY <1>4, <1>9
  <2>2. /\ s.recs = Append(LastOf(rs).recs, ring[1])
        /\ s.synced <= s.os /\ s.os <= s.size /\ s.size <= LastOf(rs).size + 2
        /\ s.size = LastOf(rs).size + 2
        /\ s.bad = LastOf(rs).bad
    BY <1>3, <1>6, <1>10, <1>11
  <2> QED
    BY <1>0, <1>1, <1>2, <1>11, <2>1, <2>2, RecordWritten
<1>13. PICK q : q = ring'
  OBVIOUS
<1>14. /\ q \in Seq(Records) /\ Chained(q) /\ Len(q) = Len(ring) - 1 /\ Len(ring) \in Nat
       /\ \A i \in 1 .. Len(q) : q[i] = ring[i + 1]
       /\ q = <<>> => LastOf(ring) = ring[1]
       /\ q # <<>> => Follows(q[1], ring[1]) /\ LastOf(q) = LastOf(ring)
  BY <1>0, <1>8, <1>13, ChainedTail
<1>15. Types'
  BY <1>0 DEF IInv, Types
<1>16. Flags' /\ QueueTypes'
  BY <1>0, <1>12, <1>13, <1>14 DEF IInv, Flags, QueueTypes
<1>17. ProducerInv' /\ Decided' = Decided
  <2>1. Len(ring') <= RingSlots
    BY <1>13, <1>14, JournalAssumption DEF IInv, ProducerInv
  <2> QED
    BY <1>0, <2>1 DEF IInv, ProducerInv, Decided
<1>18. RingInv'
  <2>1. Reached' = Reached
    <3>1. CASE q = <<>>
      BY <1>0, <1>12, <1>13, <1>14, <3>1 DEF Reached
    <3>2. CASE q # <<>>
      BY <1>0, <1>13, <1>14, <3>2 DEF Reached
    <3> QED
      BY <3>1, <3>2
  <2>2. \A i \in 1 .. Len(q) : q[i].session = session
    <3>1. \A i \in 1 .. Len(q) : i + 1 \in 1 .. Len(ring)
      BY <1>14
    <3>2. \A i \in 1 .. Len(ring) : ring[i].session = session
      BY <1>0, <1>1 DEF IInv, RingInv
    <3> QED
      BY <1>14, <3>1, <3>2
  <2>3. q # <<>> => q[1].upTo = Written' + Weight(q[1])
    BY <1>12, <1>14 DEF Follows
  <2>4. Reached + pendingGap = Decided
    BY <1>0, <1>1 DEF IInv, RingInv
  <2> QED
    BY <1>0, <1>13, <1>14, <1>17, <2>1, <2>2, <2>3, <2>4 DEF RingInv
<1>19. WriterInv'
  BY <1>0 DEF IInv, WriterInv
<1>20. AcceptedInv'
  <2>1. \A m : Data(m)' = Data(m)
    BY <1>0 DEF Data
  <2>2. ASSUME NEW m \in accepted
        PROVE  Kept(files', Data(m)) \/ \E i \in 1 .. Len(q) : q[i] = Data(m)
    <3>1. Kept(files, Data(m)) \/ InRing(Data(m))
      BY <1>0, <1>1 DEF IInv, AcceptedInv
    <3>2. CASE InRing(Data(m))
      <4>1. PICK i \in 1 .. Len(ring) : ring[i] = Data(m)
        BY <3>2 DEF InRing
      <4>2. CASE i = 1
        BY <1>12, <4>1, <4>2
      <4>3. CASE i # 1
        <5>1. i - 1 \in 1 .. Len(q) /\ (i - 1) + 1 = i
          BY <1>14, <4>3
        <5> QED
          BY <1>14, <4>1, <5>1
      <4> QED
        BY <4>2, <4>3
    <3> QED
      BY <1>12, <3>1, <3>2
  <2>3. \A m \in accepted : Kept(files, Data(m))' \/ InRing(Data(m))'
    BY <1>13, <2>1, <2>2 DEF Kept, InRing
  <2> QED
    BY <1>0, <1>1, <2>3 DEF AcceptedInv
<1> QED
  BY <1>12, <1>15, <1>16, <1>17, <1>18, <1>19, <1>20 DEF IInv

(* A write that fails leaves part of the record behind. *)
LEMMA WriteFailsStep ==
  ASSUME IInv, WriteFails
  PROVE  IInv'
<1>0. /\ UNCHANGED <<session, ending, clean>>
      /\ UNCHANGED <<appends, append, pendingGap, dropped, stop, writer, stopping, accepted>>
      /\ writer = "drain" /\ ring # <<>> /\ ring' = Tail(ring) /\ wroteAny' = TRUE /\ ~error
      /\ error' = TRUE /\ faults < MaxFaults /\ faults' = faults + 1
  BY DEF WriteFails, Taken, Fails, producerVars
<1>1. ending = "Open"
  BY <1>0 DEF IInv, WriterInv
<1>2. PICK rs : rs = Rotated
  OBVIOUS
<1>3. PICK o : o = LastOf(rs)
  OBVIOUS
<1>4. PICK m \in o.size .. o.size + 1 : \E n \in o.os .. m :
        files' = [rs EXCEPT ![Len(rs)] = WithRecord(o, Head(ring), m, n)]
  BY <1>2, <1>3 DEF WriteFails, LastOf
<1>5. PICK n \in o.os .. m :
        files' = [rs EXCEPT ![Len(rs)] = WithRecord(o, Head(ring), m, n)]
  BY <1>4
<1>6. rs \in Seq(Segments) /\ Len(rs) > 0 /\ SegmentsOK(rs) /\ o \in Segments
  BY <1>0, <1>1, <1>2, <1>3, RotatedFacts
<1>7. /\ o.recs \in Seq(Records) /\ o.size \in Nat /\ o.os \in Nat /\ o.synced \in Nat
  BY <1>6 DEF Segments
<1>8. o.synced <= o.os /\ o.os <= o.size
  <2>1. Len(rs) \in 1 .. Len(rs)
    BY <1>6
  <2> QED
    BY <1>3, <1>6, <2>1 DEF SegmentsOK, SegmentOK, LastOf
<1>9. ring \in Seq(Records) /\ Head(ring) = ring[1] /\ ring[1] \in Records /\ Chained(ring)
  <2>1. ring \in Seq(Records) /\ Chained(ring)
    BY <1>0, <1>1, OpenSegment DEF IInv, RingInv
  <2> QED
    BY <1>0, <2>1, ChainedTail
<1>10. PICK s : s = WithRecord(o, Head(ring), m, n)
  OBVIOUS
<1>11. n \in Nat /\ m \in Nat /\ o.synced <= n /\ n <= m /\ m <= o.size + 2
  BY <1>7, <1>8
<1>12. /\ s.recs = Append(o.recs, ring[1]) /\ s.size = m /\ s.os = n
       /\ s.synced = o.synced /\ s.bad = o.bad /\ s \in Segments
  <2>1. Append(o.recs, ring[1]) \in Seq(Records)
    BY <1>7, <1>9
  <2> QED
    BY <1>6, <1>9, <1>10, <1>11, <2>1 DEF WithRecord, Segments
<1>13. files' \in Seq(Segments) /\ FilesInv' /\ OpenInv' /\ CleanInv'
  <2>1. files' = [rs EXCEPT ![Len(rs)] = s]
    BY <1>5, <1>10
  <2>2. /\ s.recs = Append(LastOf(rs).recs, ring[1])
        /\ s.synced <= s.os /\ s.os <= s.size /\ s.size <= LastOf(rs).size + 2
        /\ s.bad = LastOf(rs).bad
    BY <1>3, <1>11, <1>12
  <2> QED
    BY <1>0, <1>1, <1>2, <1>12, <2>1, <2>2, RecordWritten
<1>14. ring' \in Seq(Records) /\ Len(ring') = Len(ring) - 1 /\ Len(ring) \in Nat
  BY <1>0, <1>9, ChainedTail
<1>15. Types'
  <2>1. faults' \in 0 .. MaxFaults
    BY <1>0, JournalAssumption DEF IInv, Types
  <2> QED
    BY <1>0, <2>1 DEF IInv, Types
<1>16. Flags' /\ QueueTypes'
  BY <1>0, <1>13, <1>14 DEF IInv, Flags, QueueTypes
<1>17. ProducerInv'
  <2>1. Len(ring') <= RingSlots
    BY <1>14, JournalAssumption DEF IInv, ProducerInv
  <2> QED
    BY <1>0, <2>1 DEF IInv, ProducerInv, Decided
<1>18. RingInv' /\ AcceptedInv'
  BY <1>0, <1>1 DEF RingInv, AcceptedInv
<1>19. WriterInv'
  BY <1>0, <1>1 DEF IInv, WriterInv
<1> QED
  BY <1>13, <1>15, <1>16, <1>17, <1>18, <1>19 DEF IInv

(* Nothing changes. *)
LEMMA StutterStep ==
  ASSUME IInv, UNCHANGED journalVars
  PROVE  IInv'
<1>0. /\ UNCHANGED <<session, ending, files, clean, error>>
      /\ UNCHANGED <<appends, append, pendingGap, dropped, ring, stop, faults, accepted>>
      /\ UNCHANGED <<writer, stopping, wroteAny>>
  BY DEF journalVars, producerVars, writerVars
<1>1. Types' /\ Flags' /\ QueueTypes'
  BY <1>0 DEF IInv, Types, Flags, QueueTypes
<1>2. ProducerInv' /\ WriterInv' /\ Decided' = Decided
  BY <1>0 DEF IInv, ProducerInv, Decided, WriterInv
<1>3. RingInv'
  <2>1. Reached' = Reached
    BY <1>0, SameFiles DEF Reached
  <2> QED
    BY <1>0, <1>2, <2>1, SameFiles DEF IInv, RingInv
<1>4. AcceptedInv'
  <2>1. \A n : InRing(Data(n))' = InRing(Data(n))
    BY <1>0 DEF InRing, Data
  <2> QED
    BY <1>0, <2>1, SameFiles DEF IInv, AcceptedInv
<1> QED
  BY <1>0, <1>1, <1>2, <1>3, <1>4, SameFiles DEF IInv

(* The invariant is inductive. *)
LEMMA InvStep == IInv /\ [JournalNext]_journalVars => IInv'
<1> SUFFICES ASSUME IInv, [JournalNext]_journalVars
             PROVE  IInv'
  OBVIOUS
<1>1. CASE AppendTooLarge \/ AppendFull
  BY <1>1, DroppedStep DEF AppendTooLarge, AppendFull, CanAppend
<1>2. CASE AppendBegin \/ WriteGap \/ WriteRecord
  BY <1>2, AppendBeginStep, WriteGapStep, WriteRecordStep
<1>3. CASE Finish \/ LoadStop \/ Drained \/ WriteLost
  BY <1>3, IdleStep, WriteLostStep
<1>4. CASE RotateFails \/ TimerFails \/ LastSyncFails
  BY <1>4, FailingStep
<1>5. CASE Timers \/ LastSync \/ EndFailed
  BY <1>5, TimersStep, LastSyncStep, EndFailedStep
<1>6. CASE Crash \/ PowerFailure \/ Damage \/ Start
  BY <1>6, CrashStep, DamageStep, StartStep
<1>7. CASE Write \/ WriteFails
  BY <1>7, WriteStep, WriteFailsStep
<1>8. CASE UNCHANGED journalVars
  BY <1>8, StutterStep
<1> QED
  BY <1>1, <1>2, <1>3, <1>4, <1>5, <1>6, <1>7, <1>8 DEF JournalNext

-----------------------------------------------------------------------------
(***************************************************************************)
(* The theorems.                                                           *)
(***************************************************************************)

(* The inductive invariant of the journal: what the segments hold is a chain that
   the ring continues, through rotation, faults, crashes and restarts (journal.rs). *)
THEOREM JournalInvariant == JournalSpec => []IInv
<1>1. JournalInit => IInv
  BY InitInv
<1>2. IInv /\ [JournalNext]_journalVars => IInv'
  BY InvStep
<1> QED
  BY <1>1, <1>2, PTL DEF JournalSpec

(* The invariant implies the type invariant. *)
LEMMA InvTypes == IInv => JournalTypeOK
<1> SUFFICES ASSUME IInv PROVE JournalTypeOK
  OBVIOUS
<1>1. /\ pendingGap \in 0 .. dropped /\ dropped \in 0 .. appends /\ Len(ring) <= RingSlots
      /\ accepted \subseteq 1 .. appends
  BY DEF IInv, Types, ProducerInv, Decided
<1>2. {stop, stopping, wroteAny, error, clean} \subseteq BOOLEAN
  BY DEF IInv, Flags
<1>3. ASSUME NEW k \in DOMAIN files
      PROVE  /\ 0 <= files[k].synced
             /\ files[k].synced <= files[k].os
             /\ files[k].os <= files[k].size
             /\ files[k].size < SegmentUnits + 2
  <2>1. k \in 1 .. Len(files) /\ files[k] \in Segments
    BY DEF IInv, QueueTypes
  <2>2. SegmentOK(files[k])
    BY <2>1 DEF IInv, FilesInv, SegmentsOK
  <2> QED
    BY <2>1, <2>2 DEF SegmentOK, Segments
<1> QED
  BY <1>1, <1>2, <1>3 DEF IInv, Types, JournalTypeOK

(* Segments that are linked are read back without a record missing unmarked. *)
LEMMA InvNothingMissing == IInv => NothingMissingUnmarked
<1> SUFFICES ASSUME IInv PROVE NothingMissingUnmarked
  OBVIOUS
<1>1. files \in Seq(Segments) /\ SegmentsOK(files) /\ Linked(files)
  BY DEF IInv, QueueTypes, FilesInv
<1>2. PICK recs : recs = ReadBack(files)
  OBVIOUS
<1>3. recs \in Seq(Records) /\ Complete(recs)
  BY <1>1, <1>2, ReadBackIsComplete
<1>4. \A k \in 1 .. Len(recs) : Accounted(recs, recs[k].session, k) = recs[k].upTo
  BY <1>3, CompleteIsAccounted
<1>5. DOMAIN recs = 1 .. Len(recs)
  BY <1>3
<1> QED
  BY <1>2, <1>4, <1>5 DEF NothingMissingUnmarked

(* A journal of whole segments is read to its end, and every record of it  *)
(* is returned.                                                            *)
LEMMA WholeIsRead ==
  ASSUME NEW fs \in Seq(Segments), SegmentsOK(fs),
         \A k \in 1 .. Len(fs) : Whole(fs[k]) /\ fs[k].bad = {}
  PROVE  /\ LastRead(fs) = Len(fs)
         /\ ReadEnd(fs) = "End"
         /\ \A r : Kept(fs, r) => Contains(ReadBack(fs), r)
<1>1. \A k \in 1 .. Len(fs) : fs[k] \in Segments /\ SegmentEnd(fs[k]) = "End"
  BY UndamagedIsReturned
<1>2. LastRead(fs) = Len(fs) /\ Len(fs) \in Nat
  BY <1>1, LastReadFacts
<1>3. ReadEnd(fs) = "End"
  <2>1. CASE fs = <<>>
    BY <2>1 DEF ReadEnd
  <2>2. CASE fs # <<>>
    <3>1. Len(fs) \in 1 .. Len(fs)
      BY <2>2
    <3>2. SegmentEnd(fs[LastRead(fs)]) = "End"
      BY <1>1, <1>2, <3>1
    <3> QED
      BY <2>2, <3>2 DEF ReadEnd
  <2> QED
    BY <2>1, <2>2
<1> DEFINE Returned(k, r) == \E l \in 1 .. Len(ReadUpTo(fs, k)) : ReadUpTo(fs, k)[l] = r
           S == {k \in Nat : k <= Len(fs) =>
                   \A j \in 1 .. k : \A i \in 1 .. Len(fs[j].recs) : Returned(k, fs[j].recs[i])}
<1>4. 0 \in S
  OBVIOUS
<1>5. ASSUME NEW k \in Nat, k \in S
      PROVE  k + 1 \in S
  <2> SUFFICES ASSUME k + 1 <= Len(fs), NEW j \in 1 .. k + 1, NEW i \in 1 .. Len(fs[j].recs)
               PROVE  Returned(k + 1, fs[j].recs[i])
    OBVIOUS
  <2>1. PICK m : m = k + 1
    OBVIOUS
  <2>2. m \in 1 .. Len(fs) /\ m - 1 = k /\ k \in 0 .. Len(fs) /\ m \in 0 .. Len(fs)
    BY <1>2, <2>1
  <2>3. PICK a : a = ReadUpTo(fs, k)
    OBVIOUS
  <2>4. PICK b : b = SegmentRecords(fs[m])
    OBVIOUS
  <2>5. ReadUpTo(fs, m) = a \o b /\ a \in Seq(Records)
    BY <2>2, <2>3, <2>4, ReadUpToStep
  <2>6. /\ fs[m] \in Segments /\ Whole(fs[m]) /\ SegmentEnd(fs[m]) = "End"
        /\ fs[m].os <= 1 + 2 * Len(fs[m].recs)
    <3>1. fs[m] \in Segments /\ Whole(fs[m]) /\ SegmentEnd(fs[m]) = "End"
      BY <1>1, <2>2
    <3> QED
      BY <3>1 DEF Whole, Segments
  <2>7. /\ b \in Seq(Records) /\ Len(b) = Len(fs[m].recs)
        /\ \A l \in 1 .. Len(b) : b[l] = fs[m].recs[l]
    BY <2>4, <2>6, WholeIsReturned, RecordsPrefix
  <2>8. /\ Len(a \o b) = Len(a) + Len(b) /\ Len(a) \in Nat /\ Len(b) \in Nat
        /\ \A l \in 1 .. Len(a) : (a \o b)[l] = a[l]
        /\ \A l \in 1 .. Len(b) : (a \o b)[Len(a) + l] = b[l]
    BY <2>5, <2>7, ConcatFacts
  <2>9. \E l \in 1 .. Len(a) + Len(b) : (a \o b)[l] = fs[j].recs[i]
    <3>1. CASE j = m
      <4>1. i \in 1 .. Len(b) /\ b[i] = fs[j].recs[i]
        BY <2>7, <3>1
      <4>2. Len(a) + i \in 1 .. Len(a) + Len(b)
        BY <2>8, <4>1
      <4> QED
        BY <2>8, <4>1, <4>2
    <3>2. CASE j # m
      <4>1. j \in 1 .. k /\ k <= Len(fs)
        BY <2>1, <2>2, <3>2
      <4>2. Returned(k, fs[j].recs[i])
        BY <1>5, <4>1
      <4>3. PICK l \in 1 .. Len(a) : a[l] = fs[j].recs[i]
        BY <2>3, <4>2
      <4>4. l \in 1 .. Len(a) + Len(b)
        BY <2>8
      <4> QED
        BY <2>8, <4>3, <4>4
    <3> QED
      BY <3>1, <3>2
  <2> QED
    BY <2>1, <2>5, <2>8, <2>9
<1>6. \A k \in Nat : k \in S
  <2> HIDE DEF S
  <2> QED
    BY <1>4, <1>5, SetInduction
<1>7. ASSUME NEW r, Kept(fs, r)
      PROVE  Contains(ReadBack(fs), r)
  <2>1. PICK j \in 1 .. Len(fs) : \E i \in 1 .. Len(fs[j].recs) : fs[j].recs[i] = r
    BY <1>7 DEF Kept
  <2>2. PICK i \in 1 .. Len(fs[j].recs) : fs[j].recs[i] = r
    BY <2>1
  <2>3. Returned(Len(fs), fs[j].recs[i])
    BY <1>2, <1>6
  <2> QED
    BY <1>2, <2>2, <2>3 DEF Contains, ReadBack
<1> QED
  BY <1>2, <1>3, <1>7

(* Segments that are whole and undamaged are read back to the end. *)
LEMMA InvFinished == IInv => FinishedIsWhole
<1> SUFFICES ASSUME IInv, ending = "Ok", clean
             PROVE  /\ ReadEnd(files) = "End"
                    /\ \A n \in accepted : Contains(ReadBack(files), Data(n))
  BY DEF FinishedIsWhole
<1>1. files \in Seq(Segments) /\ SegmentsOK(files) /\ Len(files) \in Nat
  BY DEF IInv, QueueTypes, FilesInv
<1>2. \A k \in 1 .. Len(files) : Whole(files[k]) /\ files[k].bad = {}
  <2>1. /\ \A k \in 1 .. Len(files) : files[k].bad = {}
        /\ \A k \in 1 .. Len(files) - 1 : Whole(files[k])
        /\ Len(files) > 0 => Whole(files[Len(files)])
    BY DEF IInv, CleanInv, Segment
  <2>2. \A k \in 1 .. Len(files) : k \in 1 .. Len(files) - 1 \/ k = Len(files)
    BY <1>1
  <2> QED
    BY <1>1, <2>1, <2>2
<1>3. \A n \in accepted : Kept(files, Data(n))
  BY DEF IInv, AcceptedInv
<1> QED
  BY <1>1, <1>2, <1>3, WholeIsRead

-----------------------------------------------------------------------------

(* Type correctness: the producer's counts stay in line with the calls of  *)
(* append, the ring in its bounds, and of a segment no more is synced than *)
(* written and no more written than buffered.                              *)
THEOREM JournalTypeCorrect == JournalSpec => []JournalTypeOK
BY JournalInvariant, InvTypes, PTL

(* "Never silently incomplete": however full the ring was, whatever failed *)
(* and wherever a session crashed or a file was damaged, JournalReader     *)
(* returns a beginning of each session in which every record or gap marker *)
(* stands where the records and the gaps before it add up to.              *)
THEOREM JournalNeverSilentlyIncomplete == JournalSpec => []NothingMissingUnmarked
BY JournalInvariant, InvNothingMissing, PTL

(* JournalHandle::finish returns Ok only for a journal that JournalReader  *)
(* reads to its end and that has every record append took before.          *)
THEOREM JournalFinishIsComplete == JournalSpec => []FinishedIsWhole
BY JournalInvariant, InvFinished, PTL

=============================================================================
