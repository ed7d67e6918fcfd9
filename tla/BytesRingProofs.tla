--------------------------- MODULE BytesRingProofs ---------------------------
(***************************************************************************)
(* Proofs about BytesRing, for every set of records, every capacity and    *)
(* every width of the counters: neither side touches the other's words,    *)
(* no region runs past the end of the buffer, and the ring implements the  *)
(* queue RecordQueue.                                                      *)
(***************************************************************************)
EXTENDS BytesRing, NatLemmas, TLAPS

(***************************************************************************)
(* The inductive invariant.  Positions are counted without wrapping: the   *)
(* records published and not yet removed lie between cut[1], the position  *)
(* of the consumer, and the last cut, the position of the producer, each   *)
(* from its cut to the next.                                               *)
(***************************************************************************)
First(cut) == cut[1]
Last(cut) == cut[Len(queue) + 1]

(* The record r lies at p: its header, and its payload without a break. *)
Lies(b, p, r) ==
  /\ Index(p) + Len(r) < Capacity
  /\ b[Index(p)] = Len(r)
  /\ \A j \in 1 .. Len(r) : b[Index(p) + j] = r[j]

(* The words from p to e are r's, or a wrap marker and the words up to the *)
(* end of the buffer, and r's after those.                                 *)
Spans(b, p, r, e) ==
  \/ /\ e = p + Size(Len(r))
     /\ Lies(b, p, r)
  \/ /\ e = p + ToEnd(p) + Size(Len(r))
     /\ b[Index(p)] = WrapMark
     /\ Lies(b, p + ToEnd(p), r)

(* The positions of both sides, and the ones they cached: ch is behind the *)
(* consumer, by no more than there is room, and cachedTail is where some   *)
(* record ended.                                                           *)
PositionsAreCuts(cut, ch) ==
  /\ sharedHead = head /\ sharedTail = tail
  /\ head = Wrapping(First(cut)) /\ tail = Wrapping(Last(cut))
  /\ cachedHead = Wrapping(ch)
  /\ ch <= First(cut) /\ Last(cut) - ch <= Capacity
  /\ \E k \in 1 .. Len(queue) + 1 : cachedTail = Wrapping(cut[k])
  /\ \A j, k \in 1 .. Len(queue) + 1 : j < k => cut[j] < cut[k]

RecordsLie(cut) ==
  \A k \in 1 .. Len(queue) : Spans(buf, cut[k], queue[k], cut[k + 1])

(* The consumer goes on only with a record, and knows what comes first. *)
ReaderIsAt(cut) ==
  /\ cpc \in {"header", "skip", "payload", "free"} => head # cachedTail
  /\ cpc = "skip" => cut[2] # cut[1] + Size(Len(queue[1]))
  /\ cpc \in {"payload", "free"} =>
       cut[2] = cut[1] + Size(Len(queue[1])) /\ len = Len(queue[1])
  /\ cpc = "free" => taken = queue[1]

(* The producer goes on only with room by its cached head, and what it has *)
(* written stays.                                                          *)
WriterIsAt(cut, ch) ==
  /\ ppc # "idle" => item \in Records
  /\ ppc \in {"mark", "fill", "header", "publish"} =>
       Last(cut) - ch + Needed(Len(item)) <= Capacity
  /\ ppc = "mark" => Skip(Len(item)) > 0
  /\ ppc \in {"fill", "header", "publish"} /\ Skip(Len(item)) > 0 =>
       buf[Index(tail)] = WrapMark
  /\ ppc \in {"header", "publish"} =>
       \A j \in 1 .. Len(item) : buf[StartsAt(Len(item)) + j] = item[j]
  /\ ppc = "publish" => buf[StartsAt(Len(item))] = Len(item)

Layout(cut, ch) ==
  /\ PositionsAreCuts(cut, ch)
  /\ RecordsLie(cut)
  /\ ReaderIsAt(cut)
  /\ WriterIsAt(cut, ch)

Cuts == [1 .. Len(queue) + 1 -> Nat]

IInv == BytesTypeOK /\ \E cut \in Cuts : \E ch \in Nat : Layout(cut, ch)

-----------------------------------------------------------------------------
(***************************************************************************)
(* Positions and words.                                                    *)
(***************************************************************************)

(* What channel() checks, as the arithmetic below needs it. *)
LEMMA Sizes ==
  /\ Capacity \in Nat \ {0} /\ Capacity >= 8
  /\ Wrap \in Nat \ {0} /\ Wrap > Capacity /\ Wrap % Capacity = 0
  /\ MaxRecord \in Nat /\ 2 * (MaxRecord + 1) <= Capacity
<1>1. /\ Capacity \in Nat \ {0} /\ Capacity >= 8
      /\ Wrap \in Nat \ {0} /\ Wrap > Capacity /\ Wrap % Capacity = 0
  BY BytesCapacityAssumption
<1>2. PICK two : two = 2
  OBVIOUS
<1>3. /\ Capacity % two \in 0 .. two - 1
      /\ Capacity = two * (Capacity \div two) + (Capacity % two)
      /\ Capacity \div two \in Int
  BY <1>1, <1>2, Division
<1> QED BY <1>1, <1>2, <1>3 DEF MaxRecord

(* The index of a position, and the words from there to the end. *)
LEMMA IndexInRange ==
  ASSUME NEW p \in Int
  PROVE  /\ Index(p) \in Indices /\ Index(p) \in Nat
         /\ ToEnd(p) \in 1 .. Capacity /\ ToEnd(p) \in Nat
         /\ Index(p) + ToEnd(p) = Capacity
<1>1. p % Capacity \in 0 .. Capacity - 1
  BY Sizes, Division
<1> QED BY <1>1, Sizes DEF Index, Indices, ToEnd

(* Words before the end of the buffer follow one another. *)
LEMMA IndexAdd ==
  ASSUME NEW p \in Int, NEW j \in Nat, Index(p) + j < Capacity
  PROVE  Index(p + j) = Index(p) + j
<1>1. PICK q, r, n : q = p \div Capacity /\ r = (p % Capacity) + j /\ n = p + j
  OBVIOUS
<1>2. /\ p % Capacity \in 0 .. Capacity - 1
      /\ p = Capacity * (p \div Capacity) + (p % Capacity)
      /\ p \div Capacity \in Int
  BY Sizes, Division
<1>3. q \in Int /\ r \in 0 .. Capacity - 1 /\ n \in Int /\ n = Capacity * q + r
  BY <1>1, <1>2, Sizes DEF Index
<1>4. n % Capacity = r
  BY <1>3, Sizes, UniqueRemainder
<1> QED BY <1>1, <1>4 DEF Index

(* The words up to the end lead to the start of the buffer. *)
LEMMA IndexToEnd ==
  ASSUME NEW p \in Int
  PROVE  Index(p + ToEnd(p)) = 0
<1>1. PICK q, n : q = (p \div Capacity) + 1 /\ n = p + ToEnd(p)
  OBVIOUS
<1>2. /\ p % Capacity \in 0 .. Capacity - 1
      /\ p = Capacity * (p \div Capacity) + (p % Capacity)
      /\ p \div Capacity \in Int
  BY Sizes, Division
<1>3. Capacity * ((p \div Capacity) + 1) = Capacity * (p \div Capacity) + Capacity
  BY <1>2, Sizes
<1>4. q \in Int /\ n \in Int /\ 0 \in 0 .. Capacity - 1 /\ n = Capacity * q + 0
  BY <1>1, <1>2, <1>3, Sizes DEF Index, ToEnd
<1>5. n % Capacity = 0
  BY <1>4, Sizes, UniqueRemainder
<1> QED BY <1>1, <1>5 DEF Index

(* The mask takes wrapping counters for the positions they stand for. *)
LEMMA IndexOfWrapped ==
  ASSUME NEW p \in Int
  PROVE  /\ Wrapping(p) \in Positions
         /\ Index(Wrapping(p)) = Index(p) /\ ToEnd(Wrapping(p)) = ToEnd(p)
<1>1. p % Wrap \in 0 .. Wrap - 1
  BY Sizes, Division
<1>2. PICK zero \in Int : zero = 0
  OBVIOUS
<1>3. ((p % Wrap) + zero) % Capacity = (p + zero) % Capacity
  BY Sizes, AddAfterWrap
<1>4. (p % Wrap) + zero = p % Wrap /\ p + zero = p
  BY <1>1, <1>2, Sizes
<1> QED BY <1>1, <1>3, <1>4 DEF Index, ToEnd, Wrapping, Positions

(* Adding to a wrapped counter. *)
LEMMA WrappingAdd ==
  ASSUME NEW p \in Int, NEW j \in Int
  PROVE  Wrapping(Wrapping(p) + j) = Wrapping(p + j)
BY Sizes, DividesItself, AddAfterWrap DEF Wrapping

(* The distance of two counters is the one of their positions. *)
LEMMA WrappingDistance ==
  ASSUME NEW p \in Int, NEW q \in Int, q <= p, p - q <= Capacity
  PROVE  Wrapping(Wrapping(p) - Wrapping(q)) = p - q
<1>1. PICK a : a = p % Wrap
  OBVIOUS
<1>2. a \in Int
  BY <1>1, Sizes, Division
<1>3. (a - (q % Wrap)) % Wrap = (a - q) % Wrap
  BY <1>2, Sizes, SubtractAfterWrap
<1>4. PICK m \in Int : m = -q
  OBVIOUS
<1>5. Wrapping(Wrapping(p) + m) = Wrapping(p + m)
  BY WrappingAdd
<1>6. a - q = a + m /\ p - q = p + m
  BY <1>2, <1>4
<1>7. p - q \in 0 .. Wrap - 1
  BY Sizes
<1>8. (p - q) % Wrap = p - q
  BY <1>7, Sizes, SmallRemainder
<1> QED BY <1>1, <1>3, <1>5, <1>6, <1>8 DEF Wrapping

(* Positions a lap apart at most have different counters. *)
LEMMA WrappingDistinct ==
  ASSUME NEW p \in Int, NEW q \in Int, q < p, p - q <= Capacity
  PROVE  Wrapping(p) # Wrapping(q)
<1>1. p - q < Wrap /\ q - p < Wrap /\ p # q
  BY Sizes
<1> QED BY <1>1, Sizes, DistinctRemainders DEF Wrapping

(* Positions less than a lap apart are different words. *)
LEMMA OtherWord ==
  ASSUME NEW p \in Int, NEW q \in Int, q < p, p - q < Capacity
  PROVE  Index(p) # Index(q)
<1>1. p - q < Capacity /\ q - p < Capacity /\ p # q
  BY Sizes
<1> QED BY <1>1, Sizes, DistinctRemainders DEF Index

(* What write_with accepts. *)
LEMMA RecordFacts ==
  ASSUME NEW r \in Records
  PROVE  /\ r \in Seq(Values) /\ Len(r) \in 0 .. MaxRecord /\ Len(r) \in Nat
         /\ Len(r) < Capacity /\ Len(r) # WrapMark
         /\ \A j \in 1 .. Len(r) : r[j] \in Values
<1>1. r \in Seq(Values) /\ Len(r) <= MaxRecord
  BY WordsAssumption DEF Records
<1>2. Len(r) \in Nat /\ \A j \in 1 .. Len(r) : r[j] \in Values
  BY <1>1
<1> QED BY <1>1, <1>2, Sizes DEF WrapMark

(* Words that are not written keep the records in them. *)
LEMMA SpansFrame ==
  ASSUME NEW b, NEW c, NEW p \in Nat, NEW e \in Nat, NEW r \in Records,
         Spans(b, p, r, e), \A x \in p .. e - 1 : c[Index(x)] = b[Index(x)]
  PROVE  Spans(c, p, r, e)
<1>1. Len(r) \in Nat /\ Size(Len(r)) = Len(r) + 1
  BY RecordFacts DEF Size
<1>2. ASSUME NEW q \in Nat, Lies(b, q, r), p <= q, q + Len(r) + 1 <= e
      PROVE  Lies(c, q, r)
  <2>1. \A j \in 0 .. Len(r) : Index(q + j) = Index(q) + j
    <3> SUFFICES ASSUME NEW j \in 0 .. Len(r) PROVE Index(q + j) = Index(q) + j
      OBVIOUS
    <3>1. Index(q) \in Nat /\ Capacity \in Nat /\ Index(q) + Len(r) < Capacity
      BY <1>2, IndexInRange, Sizes DEF Lies
    <3>2. j \in Nat /\ Index(q) + j < Capacity /\ q \in Int
      BY <1>1, <3>1
    <3> QED BY <3>2, IndexAdd
  <2>2. \A j \in 0 .. Len(r) : c[Index(q) + j] = b[Index(q) + j]
    <3> SUFFICES ASSUME NEW j \in 0 .. Len(r) PROVE c[Index(q) + j] = b[Index(q) + j]
      OBVIOUS
    <3>1. q + j \in p .. e - 1
      BY <1>1, <1>2
    <3> QED BY <2>1, <3>1
  <2>3. c[Index(q)] = b[Index(q)]
    <3>1. q \in Int
      OBVIOUS
    <3>2. Index(q) \in Nat
      BY <3>1, IndexInRange
    <3>3. Index(q) + 0 = Index(q)
      BY <3>2
    <3>4. 0 \in 0 .. Len(r)
      BY <1>1
    <3> QED BY <2>2, <3>3, <3>4
  <2>4. \A j \in 1 .. Len(r) : c[Index(q) + j] = b[Index(q) + j]
    <3>1. \A j \in 1 .. Len(r) : j \in 0 .. Len(r)
      BY <1>1
    <3> QED BY <2>2, <3>1
  <2> QED BY <1>2, <2>3, <2>4 DEF Lies
<1>3. CASE e = p + Size(Len(r)) /\ Lies(b, p, r)
  <2>1. p <= p /\ p + Len(r) + 1 <= e
    BY <1>1, <1>3
  <2> QED BY <1>2, <1>3, <2>1 DEF Spans
<1>4. CASE /\ e = p + ToEnd(p) + Size(Len(r))
           /\ b[Index(p)] = WrapMark
           /\ Lies(b, p + ToEnd(p), r)
  <2>1. PICK q : q = p + ToEnd(p)
    OBVIOUS
  <2>2. ToEnd(p) \in Nat
    BY IndexInRange
  <2>3. q \in Nat /\ p <= q /\ q + Len(r) + 1 <= e /\ p \in p .. e - 1
    BY <1>1, <1>4, <2>1, <2>2
  <2>4. c[Index(p)] = WrapMark
    BY <1>4, <2>3
  <2>5. Lies(c, q, r)
    BY <1>2, <1>4, <2>1, <2>3
  <2> QED BY <1>4, <2>1, <2>4, <2>5 DEF Spans
<1> QED BY <1>3, <1>4 DEF Spans

(* Where write_with puts a record: after the position p of the producer,   *)
(* or after the words it skips there, and before the end of the buffer.    *)
LEMMA WriterPlaces ==
  ASSUME NEW p \in Nat, tail = Wrapping(p), NEW n \in 0 .. MaxRecord
  PROVE  /\ Index(tail) = Index(p) /\ Skip(n) \in Nat /\ StartsAt(n) \in Nat
         /\ Skip(n) > 0 => Skip(n) = ToEnd(p)
         /\ Needed(n) = Skip(n) + n + 1 /\ Needed(n) <= Capacity
         /\ StartsAt(n) = Index(p + Skip(n))
         /\ StartsAt(n) + n < Capacity
         /\ \A j \in 0 .. n : StartsAt(n) + j = Index(p + Skip(n) + j)
<1>1. Index(tail) = Index(p) /\ ToEnd(tail) = ToEnd(p) /\ p \in Int
  BY IndexOfWrapped
<1>2. /\ Index(p) \in Nat /\ ToEnd(p) \in Nat /\ ToEnd(p) >= 1
      /\ Index(p) + ToEnd(p) = Capacity /\ Index(p + ToEnd(p)) = 0
  BY IndexInRange, IndexToEnd
<1>3. n \in Nat /\ 2 * (n + 1) <= Capacity /\ Size(n) = n + 1
  BY Sizes DEF Size
<1>4. /\ Skip(n) \in Nat /\ StartsAt(n) \in Nat
      /\ Skip(n) > 0 => Skip(n) = ToEnd(p)
      /\ Needed(n) = Skip(n) + n + 1 /\ Needed(n) <= Capacity
      /\ StartsAt(n) + n < Capacity
  BY <1>1, <1>2, <1>3, Sizes DEF Skip, StartsAt, Needed
<1>5. StartsAt(n) = Index(p + Skip(n))
  <2>1. CASE Skip(n) > 0
    BY <1>2, <1>4, <2>1 DEF StartsAt
  <2>2. CASE Skip(n) = 0
    BY <1>1, <2>2 DEF StartsAt
  <2> QED BY <1>4, <2>1, <2>2
<1>6. ASSUME NEW j \in 0 .. n PROVE StartsAt(n) + j = Index(p + Skip(n) + j)
  <2>1. PICK q : q = p + Skip(n)
    OBVIOUS
  <2>2. q \in Int /\ Index(q) = StartsAt(n)
    BY <1>4, <1>5, <2>1
  <2>3. j \in Nat /\ Index(q) + j < Capacity
    BY <1>3, <1>4, <2>2, Sizes
  <2>4. Index(q + j) = Index(q) + j
    BY <2>2, <2>3, IndexAdd
  <2> QED BY <1>5, <2>1, <2>4
<1> QED BY <1>1, <1>4, <1>5, <1>6

-----------------------------------------------------------------------------
(***************************************************************************)
(* What the layout says.                                                   *)
(***************************************************************************)

(* The cuts ascend from the consumer to the producer, a lap at most. *)
LEMMA LayoutFacts ==
  ASSUME BytesTypeOK, NEW cut \in Cuts, NEW ch \in Nat, PositionsAreCuts(cut, ch)
  PROVE  /\ Len(queue) \in Nat
         /\ First(cut) \in Nat /\ Last(cut) \in Nat
         /\ First(cut) <= Last(cut) /\ Last(cut) - First(cut) <= Capacity
         /\ \A k \in 1 .. Len(queue) + 1 :
              cut[k] \in Nat /\ First(cut) <= cut[k] /\ cut[k] <= Last(cut)
         /\ \A k \in 1 .. Len(queue) :
              queue[k] \in Records /\ k + 1 \in 1 .. Len(queue) + 1 /\ cut[k] < cut[k + 1]
<1>1. Len(queue) \in Nat /\ \A k \in 1 .. Len(queue) : queue[k] \in Records
  BY DEF BytesTypeOK
<1>2. \A k \in 1 .. Len(queue) + 1 : cut[k] \in Nat
  BY DEF Cuts
<1>3. 1 \in 1 .. Len(queue) + 1 /\ Len(queue) + 1 \in 1 .. Len(queue) + 1
  BY <1>1
<1>4. \A k \in 1 .. Len(queue) + 1 : First(cut) <= cut[k] /\ cut[k] <= Last(cut)
  <2> SUFFICES ASSUME NEW k \in 1 .. Len(queue) + 1
               PROVE  First(cut) <= cut[k] /\ cut[k] <= Last(cut)
    OBVIOUS
  <2>1. k = 1 \/ cut[1] < cut[k]
    BY <1>1, <1>3 DEF PositionsAreCuts
  <2>2. k = Len(queue) + 1 \/ cut[k] < cut[Len(queue) + 1]
    BY <1>1, <1>3 DEF PositionsAreCuts
  <2> QED BY <1>2, <1>3, <2>1, <2>2 DEF First, Last
<1>5. First(cut) \in Nat /\ Last(cut) \in Nat /\ First(cut) <= Last(cut)
  BY <1>2, <1>3, <1>4 DEF First, Last
<1>6. Last(cut) - First(cut) <= Capacity
  BY <1>5, Sizes DEF PositionsAreCuts
<1>7. \A k \in 1 .. Len(queue) : k + 1 \in 1 .. Len(queue) + 1 /\ cut[k] < cut[k + 1]
  BY <1>1 DEF PositionsAreCuts
<1> QED BY <1>1, <1>2, <1>4, <1>5, <1>6, <1>7

(* A consumer that is past its checks has a record before it.             *)
LEMMA ReaderHasRecord ==
  ASSUME BytesTypeOK, NEW cut \in Cuts, NEW ch \in Nat, PositionsAreCuts(cut, ch),
         head # cachedTail
  PROVE  /\ Len(queue) > 0 /\ 1 \in 1 .. Len(queue)
         /\ \E k \in 2 .. Len(queue) + 1 : cachedTail = Wrapping(cut[k])
<1>1. PICK k \in 1 .. Len(queue) + 1 : cachedTail = Wrapping(cut[k])
  BY DEF PositionsAreCuts
<1>2. k # 1
  BY <1>1 DEF PositionsAreCuts, First
<1>3. Len(queue) \in Nat
  BY DEF BytesTypeOK
<1>4. k \in 2 .. Len(queue) + 1 /\ Len(queue) > 0 /\ 1 \in 1 .. Len(queue)
  BY <1>2, <1>3
<1> QED BY <1>1, <1>4

(* What the consumer finds at its position: the first record, or a wrap    *)
(* marker before it.                                                       *)
LEMMA FirstWord ==
  ASSUME BytesTypeOK, NEW cut \in Cuts, NEW ch \in Nat, PositionsAreCuts(cut, ch),
         RecordsLie(cut), Len(queue) > 0
  PROVE  /\ queue[1] \in Records /\ cut[1] \in Nat /\ cut[2] \in Nat
         /\ Index(head) = Index(cut[1]) /\ ToEnd(head) = ToEnd(cut[1])
         /\ cut[2] = cut[1] + Size(Len(queue[1])) =>
              Lies(buf, cut[1], queue[1]) /\ buf[Index(head)] # WrapMark
         /\ cut[2] # cut[1] + Size(Len(queue[1])) =>
              /\ cut[2] = cut[1] + ToEnd(cut[1]) + Size(Len(queue[1]))
              /\ Lies(buf, cut[1] + ToEnd(cut[1]), queue[1])
              /\ buf[Index(head)] = WrapMark
<1>1. Len(queue) \in Nat
  BY DEF BytesTypeOK
<1>2. 1 \in 1 .. Len(queue) /\ 1 \in 1 .. Len(queue) + 1 /\ 2 \in 1 .. Len(queue) + 1
  BY <1>1
<1>3. queue[1] \in Records /\ cut[1] \in Nat /\ cut[2] \in Nat
  BY <1>2, LayoutFacts
<1>4. Spans(buf, cut[1], queue[1], cut[1 + 1])
  BY <1>2 DEF RecordsLie
<1>5. Spans(buf, cut[1], queue[1], cut[2])
  BY <1>4
<1>6. Index(head) = Index(cut[1]) /\ ToEnd(head) = ToEnd(cut[1])
  BY <1>3, IndexOfWrapped DEF PositionsAreCuts, First
<1>7. Len(queue[1]) \in Nat /\ Len(queue[1]) # WrapMark /\ ToEnd(cut[1]) \in Nat /\ ToEnd(cut[1]) >= 1
  BY <1>3, RecordFacts, IndexInRange
<1>8. cut[1] + ToEnd(cut[1]) + Size(Len(queue[1])) # cut[1] + Size(Len(queue[1]))
  BY <1>3, <1>7 DEF Size
<1> QED BY <1>3, <1>5, <1>6, <1>7, <1>8 DEF Spans, Lies

(* The room write_with finds, by its cached head and by the real one. *)
LEMMA RoomFacts ==
  ASSUME BytesTypeOK, NEW cut \in Cuts, NEW ch \in Nat, PositionsAreCuts(cut, ch),
         NEW n \in 0 .. MaxRecord
  PROVE  /\ NoRoom(n, cachedHead) <=> Capacity < Last(cut) - ch + Needed(n)
         /\ NoRoom(n, sharedHead) <=> Capacity < Last(cut) - First(cut) + Needed(n)
<1>1. /\ First(cut) \in Nat /\ Last(cut) \in Nat
      /\ First(cut) <= Last(cut) /\ Last(cut) - First(cut) <= Capacity
  BY LayoutFacts
<1>2. ch <= Last(cut) /\ Last(cut) - ch <= Capacity
  BY <1>1, Sizes DEF PositionsAreCuts
<1>3. PICK p : p = Last(cut)
  OBVIOUS
<1>4. PICK q : q = First(cut)
  OBVIOUS
<1>5. Wrapping(Wrapping(p) - Wrapping(ch)) = p - ch
  <2>1. p \in Int /\ ch \in Int /\ ch <= p /\ p - ch <= Capacity
    BY <1>1, <1>2, <1>3
  <2> QED BY <2>1, WrappingDistance
<1>6. Wrapping(Wrapping(p) - Wrapping(q)) = p - q
  <2>1. p \in Int /\ q \in Int /\ q <= p /\ p - q <= Capacity
    BY <1>1, <1>3, <1>4
  <2> QED BY <2>1, WrappingDistance
<1>7. /\ Wrapping(tail - cachedHead) = p - ch
      /\ Wrapping(tail - sharedHead) = p - q
  BY <1>3, <1>4, <1>5, <1>6 DEF PositionsAreCuts
<1>8. Needed(n) \in Nat
  <2>1. p \in Nat /\ tail = Wrapping(p)
    BY <1>1, <1>3 DEF PositionsAreCuts
  <2>2. Skip(n) \in Nat /\ Needed(n) = Skip(n) + n + 1
    BY <2>1, WriterPlaces
  <2> QED BY <2>2, Sizes
<1> QED BY <1>1, <1>3, <1>4, <1>7, <1>8, Sizes DEF NoRoom

(* While the writer has room, no word it writes is one of a record. *)
LEMMA WriterIsApart ==
  ASSUME BytesTypeOK, NEW cut \in Cuts, NEW ch \in Nat, PositionsAreCuts(cut, ch),
         NEW m \in Nat, Last(cut) - ch + m <= Capacity,
         NEW o \in 0 .. m - 1, NEW x \in First(cut) .. Last(cut) - 1
  PROVE  Index(Last(cut) + o) # Index(x)
<1>1. PICK p : p = Last(cut) + o
  OBVIOUS
<1>2. First(cut) \in Nat /\ Last(cut) \in Nat /\ ch <= First(cut)
  BY LayoutFacts DEF PositionsAreCuts
<1>3. p \in Int /\ x \in Int /\ x < p /\ p - x < Capacity
  BY <1>1, <1>2, Sizes
<1> QED BY <1>1, <1>3, OtherWord

(* So the records stay where they lie. *)
LEMMA RecordsStay ==
  ASSUME BytesTypeOK, NEW cut \in Cuts, NEW ch \in Nat, PositionsAreCuts(cut, ch), RecordsLie(cut),
         queue' = queue, \A x \in First(cut) .. Last(cut) - 1 : buf'[Index(x)] = buf[Index(x)]
  PROVE  RecordsLie(cut)'
<1> SUFFICES ASSUME NEW k \in 1 .. Len(queue)
             PROVE  Spans(buf', cut[k], queue[k], cut[k + 1])
  BY DEF RecordsLie, Spans, Lies
<1>1. PICK p, e, r : p = cut[k] /\ e = cut[k + 1] /\ r = queue[k]
  OBVIOUS
<1>2. /\ p \in Nat /\ e \in Nat /\ r \in Records
      /\ First(cut) \in Nat /\ Last(cut) \in Nat
      /\ First(cut) <= p /\ e <= Last(cut)
  <2>1. k \in 1 .. Len(queue) + 1 /\ k + 1 \in 1 .. Len(queue) + 1
    BY DEF BytesTypeOK
  <2> QED BY <1>1, <2>1, LayoutFacts
<1>3. Spans(buf, p, r, e)
  BY <1>1 DEF RecordsLie
<1>4. PICK c : c = buf'
  OBVIOUS
<1>5. \A x \in p .. e - 1 : x \in First(cut) .. Last(cut) - 1
  BY <1>2
<1>6. \A x \in p .. e - 1 : c[Index(x)] = buf[Index(x)]
  BY <1>4, <1>5
<1>7. Spans(c, p, r, e)
  BY <1>2, <1>3, <1>6, SpansFrame
<1> QED BY <1>1, <1>4, <1>7

-----------------------------------------------------------------------------
(***************************************************************************)
(* Every step keeps the invariant.                                         *)
(***************************************************************************)

(* channel: nothing written, both sides at 0. *)
LEMMA InitIInv == BytesInit => IInv
<1> SUFFICES ASSUME BytesInit PROVE IInv
  OBVIOUS
<1>1. BytesTypeOK
  <2>1. 0 \in Words /\ 0 \in Positions
    BY Sizes DEF Words, Positions
  <2>2. queue \in Seq(Records)
    BY DEF BytesInit
  <2> QED BY <2>1, <2>2, Sizes DEF BytesInit, BytesTypeOK
<1>2. PICK cut : cut = [k \in {1} |-> 0]
  OBVIOUS
<1>3. Len(queue) = 0 /\ Len(queue) + 1 = 1 /\ 1 .. 1 = {1} /\ 0 \in Nat
  BY DEF BytesInit
<1>4. cut \in [{1} -> Nat] /\ cut[1] = 0
  BY <1>2
<1>5. cut \in Cuts
  BY <1>3, <1>4 DEF Cuts
<1>6. Wrapping(0) = 0
  BY Sizes, SmallRemainder DEF Wrapping
<1>7. PositionsAreCuts(cut, 0)
  BY <1>3, <1>4, <1>6, Sizes DEF BytesInit, PositionsAreCuts, First, Last
<1>8. RecordsLie(cut)
  BY <1>3 DEF RecordsLie
<1>9. ReaderIsAt(cut) /\ WriterIsAt(cut, 0)
  BY DEF BytesInit, ReaderIsAt, WriterIsAt
<1> QED BY <1>1, <1>3, <1>5, <1>7, <1>8, <1>9 DEF IInv, Layout

(* A step of the producer leaves the consumer where it is. *)
LEMMA ReaderStays ==
  ASSUME NEW cut, ReaderIsAt(cut), UNCHANGED <<consumerVars, queue>>
  PROVE  ReaderIsAt(cut)'
BY DEF ReaderIsAt, consumerVars

(* A step of the consumer leaves the producer where it is. *)
LEMMA WriterStays ==
  ASSUME NEW cut, NEW ch, NEW d, WriterIsAt(cut, ch), UNCHANGED <<buf, byteProducerVars>>,
         Last(d)' = Last(cut)
  PROVE  WriterIsAt(d, ch)'
BY DEF WriterIsAt, byteProducerVars, Needed, Skip, StartsAt, ToEnd

(* write_with refuses a record that is too large. *)
LEMMA WriteTooLargeIInv ==
  ASSUME IInv, WriteTooLarge
  PROVE  IInv'
<1>1. PICK cut \in Cuts, ch \in Nat : Layout(cut, ch)
  BY DEF IInv
<1>2. BytesTypeOK'
  BY DEF IInv, BytesTypeOK, WriteTooLarge, consumerVars
<1>3. PositionsAreCuts(cut, ch)' /\ RecordsLie(cut)' /\ cut \in Cuts'
  BY <1>1 DEF Layout, PositionsAreCuts, RecordsLie, First, Last, Cuts, Spans, Lies,
              WriteTooLarge, consumerVars
<1>4. ReaderIsAt(cut)'
  BY <1>1, ReaderStays DEF Layout, WriteTooLarge
<1>5. WriterIsAt(cut, ch)'
  BY <1>1 DEF Layout, WriterIsAt, WriteTooLarge, Last, Needed, Skip, StartsAt, ToEnd
<1> QED BY <1>2, <1>3, <1>4, <1>5 DEF IInv, Layout

(* write_with goes on with the room its cached head leaves. *)
LEMMA WriteCallIInv ==
  ASSUME IInv, NEW r \in Records, WriteCall(r)
  PROVE  IInv'
<1>1. PICK cut \in Cuts, ch \in Nat : Layout(cut, ch)
  BY DEF IInv
<1>2. BytesTypeOK'
  BY DEF IInv, BytesTypeOK, WriteCall, AfterRoom, consumerVars
<1>3. PositionsAreCuts(cut, ch)' /\ RecordsLie(cut)' /\ cut \in Cuts'
  BY <1>1 DEF Layout, PositionsAreCuts, RecordsLie, First, Last, Cuts, Spans, Lies,
              WriteCall, consumerVars
<1>4. ReaderIsAt(cut)'
  BY <1>1, ReaderStays DEF Layout, WriteCall
<1>5. WriterIsAt(cut, ch)'
  <2>1. Len(r) \in 0 .. MaxRecord
    BY RecordFacts
  <2>2. NoRoom(Len(r), cachedHead) <=> Capacity < Last(cut) - ch + Needed(Len(r))
    BY <1>1, <2>1, RoomFacts DEF IInv, Layout
  <2>3. Last(cut) \in Nat /\ tail = Wrapping(Last(cut))
    BY <1>1, LayoutFacts DEF IInv, Layout, PositionsAreCuts
  <2>4. Skip(Len(r)) \in Nat /\ Needed(Len(r)) = Skip(Len(r)) + Len(r) + 1
    BY <2>1, <2>3, WriterPlaces
  <2>5. ~NoRoom(Len(r), cachedHead) => Last(cut) - ch + Needed(Len(r)) <= Capacity
    BY <2>1, <2>2, <2>3, <2>4, Sizes
  <2>6. /\ item' = r /\ tail' = tail /\ queue' = queue /\ buf' = buf
        /\ ppc' = IF NoRoom(Len(r), cachedHead) THEN "load" ELSE AfterRoom(Len(r))
    BY DEF WriteCall
  <2>7. CASE NoRoom(Len(r), cachedHead)
    BY <2>6, <2>7 DEF WriterIsAt
  <2>8. CASE ~NoRoom(Len(r), cachedHead)
    <3>1. /\ ppc' \in {"mark", "fill"}
          /\ ppc' = "mark" <=> Skip(Len(r)) > 0
      BY <2>6, <2>8 DEF AfterRoom
    <3>2. Skip(Len(item))' = Skip(Len(r)) /\ Needed(Len(item))' = Needed(Len(r))
          /\ Last(cut)' = Last(cut)
      BY <2>6 DEF Skip, Needed, ToEnd, Last
    <3> QED BY <2>5, <2>6, <2>8, <3>1, <3>2 DEF WriterIsAt
  <2> QED BY <2>7, <2>8
<1> QED BY <1>2, <1>3, <1>4, <1>5 DEF IInv, Layout

(* write_with loads the real head, and goes on or gives up. *)
LEMMA WriteLoadHeadIInv ==
  ASSUME IInv, WriteLoadHead
  PROVE  IInv'
<1>1. PICK cut \in Cuts, ch \in Nat : Layout(cut, ch)
  BY DEF IInv
<1>2. PICK first : first = First(cut)
  OBVIOUS
<1>3. /\ Last(cut) \in Nat /\ tail = Wrapping(Last(cut))
      /\ first \in Nat /\ Last(cut) - first <= Capacity
  BY <1>1, <1>2, LayoutFacts DEF IInv, Layout, PositionsAreCuts
<1>4. BytesTypeOK'
  BY DEF IInv, BytesTypeOK, WriteLoadHead, AfterRoom, consumerVars
<1>5. PositionsAreCuts(cut, first)'
  BY <1>1, <1>2, <1>3 DEF Layout, PositionsAreCuts, First, Last, WriteLoadHead, consumerVars
<1>6. RecordsLie(cut)' /\ cut \in Cuts'
  BY <1>1 DEF Layout, RecordsLie, Cuts, Spans, Lies, WriteLoadHead
<1>7. ReaderIsAt(cut)'
  BY <1>1, ReaderStays DEF Layout, WriteLoadHead
<1>8. WriterIsAt(cut, first)'
  <2>1. item \in Records
    BY <1>1 DEF Layout, WriterIsAt, WriteLoadHead
  <2>2. Len(item) \in 0 .. MaxRecord
    BY <2>1, RecordFacts
  <2>3. NoRoom(Len(item), sharedHead) <=> Capacity < Last(cut) - first + Needed(Len(item))
    BY <1>1, <1>2, <2>2, RoomFacts DEF IInv, Layout
  <2>4. Skip(Len(item)) \in Nat /\ Needed(Len(item)) = Skip(Len(item)) + Len(item) + 1
    BY <1>3, <2>2, WriterPlaces
  <2>5. ~NoRoom(Len(item), sharedHead) => Last(cut) - first + Needed(Len(item)) <= Capacity
    BY <1>3, <2>2, <2>3, <2>4, Sizes
  <2>6. CASE NoRoom(Len(item), sharedHead)
    BY <2>6 DEF WriterIsAt, WriteLoadHead
  <2>7. CASE ~NoRoom(Len(item), sharedHead)
    <3>1. /\ item' = item /\ tail' = tail /\ queue' = queue /\ buf' = buf
          /\ ppc' = AfterRoom(Len(item))
      BY <2>7 DEF WriteLoadHead
    <3>2. /\ ppc' \in {"mark", "fill"}
          /\ ppc' = "mark" <=> Skip(Len(item)) > 0
      BY <3>1 DEF AfterRoom
    <3>3. Skip(Len(item))' = Skip(Len(item)) /\ Needed(Len(item))' = Needed(Len(item))
          /\ Last(cut)' = Last(cut)
      BY <3>1 DEF Skip, Needed, ToEnd, Last
    <3> QED BY <2>1, <2>5, <2>7, <3>1, <3>2, <3>3 DEF WriterIsAt
  <2> QED BY <2>6, <2>7
<1> QED BY <1>3, <1>4, <1>5, <1>6, <1>7, <1>8 DEF IInv, Layout

(* What write_with knows once it has found room. *)
LEMMA Writing ==
  ASSUME BytesTypeOK, NEW cut \in Cuts, NEW ch \in Nat, Layout(cut, ch),
         ppc \in {"mark", "fill", "header", "publish"}
  PROVE  /\ item \in Records /\ Len(item) \in 0 .. MaxRecord
         /\ Last(cut) \in Nat /\ tail = Wrapping(Last(cut))
         /\ Last(cut) - ch + Needed(Len(item)) <= Capacity
         /\ Index(tail) = Index(Last(cut))
         /\ Skip(Len(item)) \in Nat /\ StartsAt(Len(item)) \in Nat
         /\ Skip(Len(item)) > 0 => Skip(Len(item)) = ToEnd(Last(cut))
         /\ Needed(Len(item)) = Skip(Len(item)) + Len(item) + 1
         /\ Needed(Len(item)) \in Nat /\ Needed(Len(item)) <= Capacity
         /\ StartsAt(Len(item)) = Index(Last(cut) + Skip(Len(item)))
         /\ StartsAt(Len(item)) + Len(item) < Capacity
         /\ \A j \in 0 .. Len(item) :
              StartsAt(Len(item)) + j = Index(Last(cut) + Skip(Len(item)) + j)
<1>1. item \in Records /\ Last(cut) - ch + Needed(Len(item)) <= Capacity
  BY DEF Layout, WriterIsAt
<1>2. Len(item) \in 0 .. MaxRecord
  BY <1>1, RecordFacts
<1>3. PICK p, n : p = Last(cut) /\ n = Len(item)
  OBVIOUS
<1>4. p \in Nat /\ tail = Wrapping(p) /\ n \in 0 .. MaxRecord
  BY <1>2, <1>3, LayoutFacts DEF Layout, PositionsAreCuts
<1>5. /\ Index(tail) = Index(p) /\ Skip(n) \in Nat /\ StartsAt(n) \in Nat
      /\ Skip(n) > 0 => Skip(n) = ToEnd(p)
      /\ Needed(n) = Skip(n) + n + 1 /\ Needed(n) <= Capacity
      /\ StartsAt(n) = Index(p + Skip(n))
      /\ StartsAt(n) + n < Capacity
      /\ \A j \in 0 .. n : StartsAt(n) + j = Index(p + Skip(n) + j)
  BY <1>4, WriterPlaces
<1>6. Needed(n) \in Nat
  BY <1>4, <1>5, Sizes
<1> QED BY <1>1, <1>3, <1>4, <1>5, <1>6

(* A word that write_with writes is none of a record. *)
LEMMA WrittenIsApart ==
  ASSUME BytesTypeOK, NEW cut \in Cuts, NEW ch \in Nat, Layout(cut, ch),
         ppc \in {"mark", "fill", "header", "publish"},
         NEW x \in First(cut) .. Last(cut) - 1
  PROVE  /\ Index(x) # Index(tail)
         /\ \A j \in 0 .. Len(item) : Index(x) # StartsAt(Len(item)) + j
<1>1. PICK p, m : p = Last(cut) /\ m = Needed(Len(item))
  OBVIOUS
<1>2. /\ m \in Nat /\ Last(cut) - ch + m <= Capacity
      /\ Len(item) \in Nat /\ Skip(Len(item)) \in Nat
      /\ m = Skip(Len(item)) + Len(item) + 1
      /\ p \in Nat /\ Index(tail) = Index(p)
      /\ \A j \in 0 .. Len(item) : StartsAt(Len(item)) + j = Index(p + Skip(Len(item)) + j)
  BY <1>1, Writing, Sizes
<1>3. \A o \in 0 .. m - 1 : Index(Last(cut) + o) # Index(x)
  BY <1>2, WriterIsApart DEF Layout
<1>4. 0 \in 0 .. m - 1 /\ p + 0 = p
  BY <1>2
<1>5. Index(x) # Index(tail)
  BY <1>1, <1>2, <1>3, <1>4
<1>6. ASSUME NEW j \in 0 .. Len(item) PROVE Index(x) # StartsAt(Len(item)) + j
  <2>1. PICK o : o = Skip(Len(item)) + j
    OBVIOUS
  <2>2. o \in 0 .. m - 1 /\ p + Skip(Len(item)) + j = p + o
    BY <1>2, <2>1
  <2> QED BY <1>1, <1>2, <1>3, <2>2
<1> QED BY <1>5, <1>6

(* Nor is the wrap marker one of the words of the record being written. *)
LEMMA MarkerIsApart ==
  ASSUME BytesTypeOK, NEW cut \in Cuts, NEW ch \in Nat, Layout(cut, ch),
         ppc \in {"mark", "fill", "header", "publish"}, Skip(Len(item)) > 0,
         NEW j \in 0 .. Len(item)
  PROVE  Index(tail) # StartsAt(Len(item)) + j
<1>1. PICK p, q : p = Last(cut) /\ q = p + Skip(Len(item)) + j
  OBVIOUS
<1>2. /\ p \in Nat /\ Len(item) \in Nat /\ Skip(Len(item)) \in Nat
      /\ Needed(Len(item)) = Skip(Len(item)) + Len(item) + 1
      /\ Needed(Len(item)) <= Capacity
      /\ Index(tail) = Index(p) /\ StartsAt(Len(item)) + j = Index(q)
  BY <1>1, Writing, Sizes
<1>3. p \in Int /\ q \in Int /\ p < q /\ q - p < Capacity
  BY <1>1, <1>2, Sizes
<1> QED BY <1>2, <1>3, OtherWord

(* write_with marks the words it skips. *)
LEMMA WriteMarkIInv ==
  ASSUME IInv, WriteMark
  PROVE  IInv'
<1>1. PICK cut \in Cuts, ch \in Nat : Layout(cut, ch)
  BY DEF IInv
<1>2. /\ BytesTypeOK /\ ppc = "mark" /\ ppc' = "fill" /\ item' = item /\ tail' = tail /\ queue' = queue
      /\ buf' = [buf EXCEPT ![Index(tail)] = WrapMark] /\ buf \in [Indices -> Words]
  BY DEF IInv, BytesTypeOK, WriteMark
<1>3. Index(tail) \in Indices /\ WrapMark \in Words
  BY <1>1, <1>2, Writing, IndexInRange DEF Words
<1>4. BytesTypeOK'
  <2>1. buf' \in [Indices -> Words]
    BY <1>2, <1>3
  <2> QED BY <2>1 DEF IInv, BytesTypeOK, WriteMark, consumerVars
<1>5. PositionsAreCuts(cut, ch)' /\ cut \in Cuts'
  BY <1>1 DEF Layout, PositionsAreCuts, First, Last, Cuts, WriteMark, consumerVars
<1>6. RecordsLie(cut)'
  <2>1. ASSUME NEW x \in First(cut) .. Last(cut) - 1 PROVE buf'[Index(x)] = buf[Index(x)]
    <3>1. Index(x) # Index(tail)
      BY <1>1, <1>2, WrittenIsApart
    <3>2. First(cut) \in Nat /\ Last(cut) \in Nat
      BY <1>1, <1>2, LayoutFacts DEF Layout
    <3>3. Index(x) \in Indices
      BY <3>2, IndexInRange
    <3> QED BY <1>2, <3>1, <3>3
  <2> QED BY <1>1, <1>2, <2>1, RecordsStay DEF Layout
<1>7. ReaderIsAt(cut)'
  BY <1>1, ReaderStays DEF Layout, WriteMark
<1>8. WriterIsAt(cut, ch)'
  <2>1. buf'[Index(tail)] = WrapMark
    BY <1>2, <1>3
  <2>2. item \in Records /\ Last(cut) - ch + Needed(Len(item)) <= Capacity
    BY <1>1, <1>2, Writing
  <2>3. Needed(Len(item))' = Needed(Len(item)) /\ Last(cut)' = Last(cut)
    BY <1>2 DEF Skip, Needed, ToEnd, Last
  <2> QED BY <1>2, <2>1, <2>2, <2>3 DEF WriterIsAt
<1> QED BY <1>4, <1>5, <1>6, <1>7, <1>8 DEF IInv, Layout

(* fill writes the payload. *)
LEMMA WriteFillIInv ==
  ASSUME IInv, WriteFill
  PROVE  IInv'
<1>1. PICK cut \in Cuts, ch \in Nat : Layout(cut, ch)
  BY DEF IInv
<1>2. PICK st, n : st = StartsAt(Len(item)) /\ n = Len(item)
  OBVIOUS
<1>3. /\ BytesTypeOK /\ ppc = "fill" /\ ppc' = "header"
      /\ item' = item /\ tail' = tail /\ queue' = queue
      /\ buf' = [k \in Indices |-> IF k \in (st + 1) .. (st + n) THEN item[k - st] ELSE buf[k]]
      /\ buf \in [Indices -> Words]
  BY <1>2 DEF IInv, BytesTypeOK, WriteFill, Payload
<1>4. /\ item \in Records /\ n \in Nat /\ st \in Nat /\ st + n < Capacity
      /\ Last(cut) \in Nat /\ First(cut) \in Nat
      /\ \A j \in 1 .. n : item[j] \in Values
  BY <1>1, <1>2, <1>3, Writing, LayoutFacts, RecordFacts DEF Layout
<1>5. \A k \in (st + 1) .. (st + n) :
        k - st \in 1 .. n /\ k - st \in 0 .. n /\ k = st + (k - st)
  BY <1>4
<1>6. BytesTypeOK'
  <2>1. \A k \in Indices : buf'[k] \in Words
    BY <1>3, <1>4, <1>5 DEF Words
  <2>2. buf' \in [Indices -> Words]
    BY <1>3, <2>1
  <2> QED BY <2>2 DEF IInv, BytesTypeOK, WriteFill, consumerVars
<1>7. PositionsAreCuts(cut, ch)' /\ cut \in Cuts'
  BY <1>1 DEF Layout, PositionsAreCuts, First, Last, Cuts, WriteFill, consumerVars
<1>8. RecordsLie(cut)'
  <2>1. ASSUME NEW x \in First(cut) .. Last(cut) - 1 PROVE buf'[Index(x)] = buf[Index(x)]
    <3>1. \A j \in 0 .. n : Index(x) # st + j
      BY <1>1, <1>2, <1>3, WrittenIsApart
    <3>2. Index(x) \in Indices
      BY <1>4, IndexInRange
    <3>3. Index(x) \notin (st + 1) .. (st + n)
      BY <1>5, <3>1
    <3> QED BY <1>3, <3>2, <3>3
  <2> QED BY <1>1, <1>3, <2>1, RecordsStay DEF Layout
<1>9. ReaderIsAt(cut)'
  BY <1>1, ReaderStays DEF Layout, WriteFill
<1>10. WriterIsAt(cut, ch)'
  <2>1. Last(cut) - ch + Needed(Len(item)) <= Capacity
    BY <1>1, <1>3, Writing
  <2>2. /\ Needed(Len(item))' = Needed(Len(item)) /\ Last(cut)' = Last(cut)
        /\ Skip(Len(item))' = Skip(Len(item)) /\ StartsAt(Len(item))' = st
    BY <1>2, <1>3 DEF Skip, Needed, ToEnd, Last, StartsAt
  <2>3. ASSUME NEW j \in 1 .. n PROVE buf'[st + j] = item[j]
    <3>1. st + j \in Indices /\ st + j \in (st + 1) .. (st + n) /\ (st + j) - st = j
      BY <1>4, Sizes DEF Indices
    <3> QED BY <1>3, <3>1
  <2>4. ASSUME Skip(Len(item)) > 0 PROVE buf'[Index(tail)] = WrapMark
    <3>1. buf[Index(tail)] = WrapMark
      BY <1>1, <1>3, <2>4 DEF Layout, WriterIsAt
    <3>2. Index(tail) \in Indices
      BY <1>1, <1>3, <1>4, Writing, IndexInRange
    <3>3. \A j \in 0 .. n : Index(tail) # st + j
      BY <1>1, <1>2, <1>3, <2>4, MarkerIsApart
    <3>4. Index(tail) \notin (st + 1) .. (st + n)
      BY <1>5, <3>3
    <3> QED BY <1>3, <3>1, <3>2, <3>4
  <2> QED BY <1>2, <1>3, <1>4, <2>1, <2>2, <2>3, <2>4 DEF WriterIsAt
<1> QED BY <1>6, <1>7, <1>8, <1>9, <1>10 DEF IInv, Layout

(* write_with writes the header. *)
LEMMA WriteHeaderIInv ==
  ASSUME IInv, WriteHeader
  PROVE  IInv'
<1>1. PICK cut \in Cuts, ch \in Nat : Layout(cut, ch)
  BY DEF IInv
<1>2. PICK st, n : st = StartsAt(Len(item)) /\ n = Len(item)
  OBVIOUS
<1>3. /\ BytesTypeOK /\ ppc = "header" /\ ppc' = "publish"
      /\ item' = item /\ tail' = tail /\ queue' = queue
      /\ buf' = [buf EXCEPT ![st] = n] /\ buf \in [Indices -> Words]
  BY <1>2 DEF IInv, BytesTypeOK, WriteHeader
<1>4. /\ item \in Records /\ n \in 0 .. MaxRecord /\ n \in Nat
      /\ st \in Nat /\ st + n < Capacity
      /\ Last(cut) \in Nat /\ First(cut) \in Nat
  BY <1>1, <1>2, <1>3, Writing, LayoutFacts, RecordFacts DEF Layout
<1>5. st \in Indices /\ n \in Words /\ 0 \in 0 .. n /\ st + 0 = st
  BY <1>4, Sizes DEF Indices, Words
<1>6. BytesTypeOK'
  <2>1. buf' \in [Indices -> Words]
    BY <1>3, <1>5
  <2> QED BY <2>1 DEF IInv, BytesTypeOK, WriteHeader, consumerVars
<1>7. PositionsAreCuts(cut, ch)' /\ cut \in Cuts'
  BY <1>1 DEF Layout, PositionsAreCuts, First, Last, Cuts, WriteHeader, consumerVars
<1>8. RecordsLie(cut)'
  <2>1. ASSUME NEW x \in First(cut) .. Last(cut) - 1 PROVE buf'[Index(x)] = buf[Index(x)]
    <3>1. \A j \in 0 .. n : Index(x) # st + j
      BY <1>1, <1>2, <1>3, WrittenIsApart
    <3>2. Index(x) \in Indices
      BY <1>4, IndexInRange
    <3>3. Index(x) # st
      BY <1>5, <3>1
    <3> QED BY <1>3, <3>2, <3>3
  <2> QED BY <1>1, <1>3, <2>1, RecordsStay DEF Layout
<1>9. ReaderIsAt(cut)'
  BY <1>1, ReaderStays DEF Layout, WriteHeader
<1>10. WriterIsAt(cut, ch)'
  <2>1. Last(cut) - ch + Needed(Len(item)) <= Capacity
    BY <1>1, <1>3, Writing
  <2>2. /\ Needed(Len(item))' = Needed(Len(item)) /\ Last(cut)' = Last(cut)
        /\ Skip(Len(item))' = Skip(Len(item)) /\ StartsAt(Len(item))' = st
    BY <1>2, <1>3 DEF Skip, Needed, ToEnd, Last, StartsAt
  <2>3. ASSUME NEW j \in 1 .. n PROVE buf'[st + j] = item[j]
    <3>1. st + j \in Indices /\ st + j # st
      BY <1>4, Sizes DEF Indices
    <3>2. buf[st + j] = item[j]
      BY <1>1, <1>2, <1>3 DEF Layout, WriterIsAt
    <3> QED BY <1>3, <3>1, <3>2
  <2>4. ASSUME Skip(Len(item)) > 0 PROVE buf'[Index(tail)] = WrapMark
    <3>1. buf[Index(tail)] = WrapMark
      BY <1>1, <1>3, <2>4 DEF Layout, WriterIsAt
    <3>2. Index(tail) \in Indices
      BY <1>1, <1>3, <1>4, Writing, IndexInRange
    <3>3. \A j \in 0 .. n : Index(tail) # st + j
      BY <1>1, <1>2, <1>3, <2>4, MarkerIsApart
    <3>4. Index(tail) # st
      BY <1>5, <3>3
    <3> QED BY <1>3, <3>1, <3>2, <3>4
  <2>5. buf'[st] = n
    BY <1>3, <1>5
  <2> QED BY <1>2, <1>3, <1>4, <2>1, <2>2, <2>3, <2>4, <2>5 DEF WriterIsAt
<1> QED BY <1>6, <1>7, <1>8, <1>9, <1>10 DEF IInv, Layout

(* What write_with has written is a record, with its marker if it skipped. *)
LEMMA WrittenSpans ==
  ASSUME BytesTypeOK, NEW cut \in Cuts, NEW ch \in Nat, Layout(cut, ch), ppc = "publish"
  PROVE  Spans(buf, Last(cut), item, Last(cut) + Needed(Len(item)))
<1>1. PICK p, n : p = Last(cut) /\ n = Len(item)
  OBVIOUS
<1>2. /\ p \in Nat /\ n \in Nat /\ Skip(n) \in Nat /\ StartsAt(n) \in Nat
      /\ Skip(n) > 0 => Skip(n) = ToEnd(p)
      /\ Needed(n) = Skip(n) + n + 1 /\ Index(tail) = Index(p)
      /\ StartsAt(n) = Index(p + Skip(n)) /\ StartsAt(n) + n < Capacity
  BY <1>1, Writing, Sizes
<1>3. /\ Skip(n) > 0 => buf[Index(p)] = WrapMark
      /\ \A j \in 1 .. n : buf[StartsAt(n) + j] = item[j]
      /\ buf[StartsAt(n)] = n
  BY <1>1, <1>2 DEF Layout, WriterIsAt
<1>4. Lies(buf, p + Skip(n), item)
  BY <1>1, <1>2, <1>3 DEF Lies
<1>5. CASE Skip(n) > 0
  <2>1. p + Needed(n) = p + ToEnd(p) + Size(n)
    BY <1>2, <1>5 DEF Size
  <2> QED BY <1>1, <1>2, <1>3, <1>4, <1>5, <2>1 DEF Spans
<1>6. CASE Skip(n) = 0
  <2>1. p + Needed(n) = p + Size(n) /\ p + Skip(n) = p
    BY <1>2, <1>6 DEF Size
  <2> QED BY <1>1, <1>4, <2>1 DEF Spans
<1> QED BY <1>2, <1>5, <1>6

(* The store of tail: the record is the queue's last. *)
LEMMA WritePublishIInv ==
  ASSUME IInv, WritePublish
  PROVE  IInv'
<1>1. PICK cut \in Cuts, ch \in Nat : Layout(cut, ch)
  BY DEF IInv
<1>2. PICK n, p, m : n = Len(queue) /\ p = Last(cut) /\ m = Needed(Len(item))
  OBVIOUS
<1>3. /\ BytesTypeOK /\ ppc = "publish" /\ ppc' = "idle" /\ queue' = Append(queue, item)
      /\ tail' = Wrapping(tail + m) /\ sharedTail' = tail'
      /\ UNCHANGED <<buf, sharedHead, cachedHead, consumerVars>>
      /\ item' = Nothing /\ written' = "Ok"
  BY <1>2 DEF IInv, WritePublish
<1>4. /\ n \in Nat /\ p \in Nat /\ m \in Nat /\ m > 0 /\ item \in Records
      /\ p - ch + m <= Capacity /\ tail = Wrapping(p)
  BY <1>1, <1>2, <1>3, Writing, LayoutFacts DEF Layout
<1>5. PICK d : d = [k \in 1 .. n + 2 |-> IF k <= n + 1 THEN cut[k] ELSE p + m]
  OBVIOUS
<1>6. /\ \A k \in 1 .. n + 1 : d[k] = cut[k] /\ cut[k] \in Nat /\ cut[k] <= p
      /\ d[n + 2] = p + m /\ d[n + 1] = p
  BY <1>1, <1>2, <1>3, <1>4, <1>5, LayoutFacts DEF Layout, Last
<1>7. /\ Len(queue') = n + 1 /\ queue' \in Seq(Records)
      /\ \A k \in 1 .. n : queue'[k] = queue[k]
      /\ queue'[n + 1] = item
  BY <1>2, <1>3, <1>4 DEF BytesTypeOK
<1>8. d \in Cuts'
  <2>1. \A k \in 1 .. n + 2 : d[k] \in Nat
    BY <1>4, <1>5, <1>6
  <2>2. d \in [1 .. n + 2 -> Nat]
    BY <1>5, <2>1
  <2>3. (n + 1) + 1 = n + 2
    BY <1>4
  <2> QED BY <1>7, <2>2, <2>3 DEF Cuts
<1>9. tail' = Wrapping(p + m)
  BY <1>3, <1>4, WrappingAdd
<1>10. BytesTypeOK'
  <2>1. tail' \in Positions
    BY <1>4, <1>9, IndexOfWrapped
  <2> QED BY <1>3, <1>7, <2>1 DEF BytesTypeOK, consumerVars
<1>11. First(d) = First(cut) /\ Last(d)' = p + m
  <2>1. 1 \in 1 .. n + 1 /\ (n + 1) + 1 = n + 2
    BY <1>4
  <2> QED BY <1>6, <1>7, <2>1 DEF First, Last
<1>12. PositionsAreCuts(d, ch)'
  <2>1. \E k \in 1 .. Len(queue') + 1 : cachedTail' = Wrapping(d[k])
    <3>1. PICK k \in 1 .. n + 1 : cachedTail = Wrapping(cut[k])
      BY <1>1, <1>2 DEF Layout, PositionsAreCuts
    <3>2. k \in 1 .. Len(queue') + 1
      BY <1>4, <1>7
    <3> QED BY <1>3, <1>6, <3>1, <3>2 DEF consumerVars
  <2>2. \A j, k \in 1 .. Len(queue') + 1 : j < k => d[j] < d[k]
    <3> SUFFICES ASSUME NEW j \in 1 .. n + 2, NEW k \in 1 .. n + 2, j < k PROVE d[j] < d[k]
      BY <1>4, <1>7
    <3>1. CASE k <= n + 1
      <4>1. j \in 1 .. n + 1 /\ k \in 1 .. n + 1
        BY <1>4, <3>1
      <4>2. cut[j] < cut[k]
        BY <1>1, <1>2, <4>1 DEF Layout, PositionsAreCuts
      <4> QED BY <1>6, <4>1, <4>2
    <3>2. CASE k > n + 1
      <4>1. j \in 1 .. n + 1 /\ k = n + 2
        BY <1>4, <3>2
      <4> QED BY <1>4, <1>6, <4>1
    <3> QED BY <1>4, <3>1, <3>2
  <2>3. /\ sharedHead = head /\ head = Wrapping(First(cut))
        /\ cachedHead = Wrapping(ch) /\ ch <= First(cut)
    BY <1>1 DEF Layout, PositionsAreCuts
  <2>4. (p + m) - ch <= Capacity
    BY <1>4, Sizes
  <2>5. First(d)' = First(d)
    BY DEF First
  <2> QED BY <1>3, <1>9, <1>11, <2>1, <2>2, <2>3, <2>4, <2>5 DEF PositionsAreCuts, consumerVars
<1>13. RecordsLie(d)'
  <2> SUFFICES ASSUME NEW k \in 1 .. n + 1
               PROVE  Spans(buf, d[k], queue'[k], d[k + 1])
    BY <1>3, <1>7 DEF RecordsLie, Spans, Lies
  <2>1. CASE k \in 1 .. n
    <3>1. k + 1 \in 1 .. n + 1
      BY <1>4, <2>1
    <3>2. Spans(buf, cut[k], queue[k], cut[k + 1])
      BY <1>1, <1>2, <2>1 DEF Layout, RecordsLie
    <3> QED BY <1>6, <1>7, <2>1, <3>1, <3>2
  <2>2. CASE k = n + 1
    <3>1. Spans(buf, p, item, p + m)
      BY <1>1, <1>2, <1>3, WrittenSpans
    <3>2. k + 1 = n + 2
      BY <1>4, <2>2
    <3> QED BY <1>6, <1>7, <2>2, <3>1, <3>2
  <2> QED BY <1>4, <2>1, <2>2
<1>14. ReaderIsAt(d)'
  <2>1. CASE head # cachedTail
    <3>1. n > 0
      BY <1>1, <1>2, <1>3, <2>1, ReaderHasRecord DEF Layout
    <3>2. 1 \in 1 .. n /\ 1 \in 1 .. n + 1 /\ 2 \in 1 .. n + 1
      BY <1>4, <3>1
    <3>3. d[1] = cut[1] /\ d[2] = cut[2] /\ queue'[1] = queue[1]
      BY <1>6, <1>7, <3>2
    <3> QED BY <1>1, <1>3, <3>3 DEF Layout, ReaderIsAt, consumerVars
  <2>2. CASE head = cachedTail
    BY <1>1, <1>3, <2>2 DEF Layout, ReaderIsAt, consumerVars
  <2> QED BY <2>1, <2>2
<1>15. WriterIsAt(d, ch)'
  BY <1>3 DEF WriterIsAt
<1> QED BY <1>8, <1>10, <1>12, <1>13, <1>14, <1>15 DEF IInv, Layout

(* read_with looks whether its cached tail leaves it a record. *)
LEMMA ReadCallIInv ==
  ASSUME IInv, ReadCall
  PROVE  IInv'
<1>1. PICK cut \in Cuts, ch \in Nat : Layout(cut, ch)
  BY DEF IInv
<1>2. BytesTypeOK'
  BY DEF IInv, BytesTypeOK, ReadCall, byteProducerVars
<1>3. PositionsAreCuts(cut, ch)' /\ RecordsLie(cut)' /\ cut \in Cuts' /\ Last(cut)' = Last(cut)
  BY <1>1 DEF Layout, PositionsAreCuts, RecordsLie, First, Last, Cuts, Spans, Lies,
              ReadCall, byteProducerVars
<1>4. ReaderIsAt(cut)'
  BY <1>1 DEF Layout, ReaderIsAt, ReadCall
<1>5. WriterIsAt(cut, ch)'
  BY <1>1, <1>3, WriterStays DEF Layout, ReadCall
<1> QED BY <1>2, <1>3, <1>4, <1>5 DEF IInv, Layout

(* read_with loads the real tail. *)
LEMMA ReadLoadTailIInv ==
  ASSUME IInv, ReadLoadTail
  PROVE  IInv'
<1>1. PICK cut \in Cuts, ch \in Nat : Layout(cut, ch)
  BY DEF IInv
<1>2. BytesTypeOK'
  BY DEF IInv, BytesTypeOK, ReadLoadTail, byteProducerVars
<1>3. RecordsLie(cut)' /\ cut \in Cuts' /\ Last(cut)' = Last(cut)
  BY <1>1 DEF Layout, RecordsLie, Last, Cuts, Spans, Lies, ReadLoadTail
<1>4. PositionsAreCuts(cut, ch)'
  <2>1. \E k \in 1 .. Len(queue) + 1 : sharedTail = Wrapping(cut[k])
    <3>1. Len(queue) + 1 \in 1 .. Len(queue) + 1
      BY DEF IInv, BytesTypeOK
    <3> QED BY <1>1, <3>1 DEF Layout, PositionsAreCuts, Last
  <2> QED BY <1>1, <2>1 DEF Layout, PositionsAreCuts, First, Last, ReadLoadTail, byteProducerVars
<1>5. ReaderIsAt(cut)'
  BY <1>1 DEF Layout, ReaderIsAt, ReadLoadTail
<1>6. WriterIsAt(cut, ch)'
  BY <1>1, <1>3, WriterStays DEF Layout, ReadLoadTail
<1> QED BY <1>2, <1>3, <1>4, <1>5, <1>6 DEF IInv, Layout

(* read_with reads a header: the length of the first record, or a marker. *)
LEMMA ReadHeaderIInv ==
  ASSUME IInv, ReadHeader
  PROVE  IInv'
<1>1. PICK cut \in Cuts, ch \in Nat : Layout(cut, ch)
  BY DEF IInv
<1>2. BytesTypeOK /\ cpc = "header" /\ head # cachedTail
  BY <1>1 DEF IInv, Layout, ReaderIsAt, ReadHeader
<1>3. Len(queue) > 0
  BY <1>1, <1>2, ReaderHasRecord DEF Layout
<1>4. /\ queue[1] \in Records /\ Index(head) = Index(cut[1])
      /\ cut[2] = cut[1] + Size(Len(queue[1])) =>
           Lies(buf, cut[1], queue[1]) /\ buf[Index(head)] # WrapMark
      /\ cut[2] # cut[1] + Size(Len(queue[1])) => buf[Index(head)] = WrapMark
  BY <1>1, <1>2, <1>3, FirstWord DEF Layout
<1>5. len' = buf[Index(head)] /\ cpc' = IF len' = WrapMark THEN "skip" ELSE "payload"
  BY DEF ReadHeader
<1>6. cpc' # "skip" => cut[2] = cut[1] + Size(Len(queue[1])) /\ len' = Len(queue[1])
  BY <1>4, <1>5 DEF Lies
<1>7. cpc' = "skip" => cut[2] # cut[1] + Size(Len(queue[1]))
  BY <1>4, <1>5
<1>8. BytesTypeOK'
  <2>1. len' \in (0 .. MaxRecord) \cup {WrapMark}
    BY <1>4, <1>5, <1>6, RecordFacts
  <2> QED BY <2>1 DEF IInv, BytesTypeOK, ReadHeader, byteProducerVars
<1>9. PositionsAreCuts(cut, ch)' /\ RecordsLie(cut)' /\ cut \in Cuts' /\ Last(cut)' = Last(cut)
  BY <1>1 DEF Layout, PositionsAreCuts, RecordsLie, First, Last, Cuts, Spans, Lies,
              ReadHeader, byteProducerVars
<1>10. ReaderIsAt(cut)'
  BY <1>2, <1>5, <1>6, <1>7 DEF ReaderIsAt, ReadHeader
<1>11. WriterIsAt(cut, ch)'
  BY <1>1, <1>9, WriterStays DEF Layout, ReadHeader
<1> QED BY <1>8, <1>9, <1>10, <1>11 DEF IInv, Layout

(* read_with goes on at the start of the buffer, where the record lies. *)
LEMMA ReadSkipIInv ==
  ASSUME IInv, ReadSkip
  PROVE  IInv'
<1>1. PICK cut \in Cuts, ch \in Nat : Layout(cut, ch)
  BY DEF IInv
<1>2. /\ BytesTypeOK /\ cpc = "skip" /\ head # cachedTail
      /\ cut[2] # cut[1] + Size(Len(queue[1]))
  BY <1>1 DEF IInv, Layout, ReaderIsAt, ReadSkip
<1>3. /\ Len(queue) > 0
      /\ \E k \in 2 .. Len(queue) + 1 : cachedTail = Wrapping(cut[k])
  BY <1>1, <1>2, ReaderHasRecord DEF Layout
<1>4. PICK n, p, e : n = Len(queue) /\ p = cut[1] + ToEnd(cut[1]) /\ e = ToEnd(cut[1])
  OBVIOUS
<1>5. /\ queue[1] \in Records /\ cut[1] \in Nat /\ cut[2] \in Nat
      /\ ToEnd(head) = e
      /\ cut[2] = p + Size(Len(queue[1])) /\ Lies(buf, p, queue[1])
  BY <1>1, <1>2, <1>3, <1>4, FirstWord DEF Layout
<1>6. /\ n \in Nat /\ n > 0 /\ e \in Nat /\ e >= 1 /\ p \in Nat /\ cut[1] < p /\ p < cut[2]
      /\ p = cut[1] + e
  <2>1. e \in Nat /\ e >= 1
    <3>1. cut[1] \in Int
      BY <1>5
    <3>2. ToEnd(cut[1]) \in 1 .. Capacity
      BY <3>1, IndexInRange
    <3> QED BY <1>4, <3>2, Sizes
  <2>2. Len(queue[1]) \in Nat
    BY <1>5, RecordFacts
  <2> QED BY <1>2, <1>3, <1>4, <1>5, <2>1, <2>2 DEF BytesTypeOK, Size
<1>7. head' = Wrapping(p) /\ sharedHead' = head'
  <2>1. head = Wrapping(cut[1]) /\ cut[1] \in Int /\ e \in Int
    BY <1>1, <1>5, <1>6 DEF Layout, PositionsAreCuts, First
  <2>2. head' = Wrapping(head + e) /\ sharedHead' = head'
    BY <1>5 DEF ReadSkip
  <2> QED BY <1>6, <2>1, <2>2, WrappingAdd
<1>8. /\ queue' = queue /\ UNCHANGED <<buf, byteProducerVars>> /\ cachedTail' = cachedTail
      /\ sharedTail' = sharedTail
      /\ cpc' = IF head' = cachedTail THEN "load" ELSE "header"
      /\ len' = 0
  BY DEF ReadSkip
<1>9. BytesTypeOK'
  <2>1. head' \in Positions /\ 0 \in 0 .. MaxRecord
    BY <1>6, <1>7, IndexOfWrapped, Sizes
  <2> QED BY <1>2, <1>7, <1>8, <2>1 DEF BytesTypeOK, ReadSkip, byteProducerVars
<1>10. PICK d : d = [cut EXCEPT ![1] = p]
  OBVIOUS
<1>11. /\ d \in [1 .. n + 1 -> Nat] /\ d[1] = p
       /\ \A k \in 2 .. n + 1 : d[k] = cut[k] /\ k \in 1 .. n + 1
       /\ 1 \in 1 .. n + 1 /\ 2 \in 2 .. n + 1
  <2>1. cut \in [1 .. n + 1 -> Nat] /\ 1 \in 1 .. n + 1 /\ 2 \in 2 .. n + 1
    BY <1>4, <1>6 DEF Cuts
  <2>2. \A k \in 2 .. n + 1 : k \in 1 .. n + 1 /\ k # 1
    BY <1>6
  <2> QED BY <1>6, <1>10, <2>1, <2>2
<1>12. d \in Cuts' /\ First(d) = p /\ Last(d)' = Last(cut)
  <2>1. n + 1 \in 2 .. n + 1
    BY <1>6
  <2> QED BY <1>4, <1>8, <1>11, <2>1 DEF Cuts, First, Last
<1>13. PositionsAreCuts(d, ch)'
  <2>1. \E k \in 1 .. n + 1 : cachedTail' = Wrapping(d[k])
    BY <1>3, <1>4, <1>8, <1>11
  <2>2. \A j, k \in 1 .. n + 1 : j < k => d[j] < d[k]
    <3> SUFFICES ASSUME NEW j \in 1 .. n + 1, NEW k \in 1 .. n + 1, j < k PROVE d[j] < d[k]
      OBVIOUS
    <3>1. k \in 2 .. n + 1 /\ d[k] = cut[k] /\ cut[k] \in Nat
      <4>1. k \in 2 .. n + 1
        BY <1>6
      <4> QED BY <1>11, <4>1
    <3>2. CASE j = 1
      <4>1. k = 2 \/ cut[2] < cut[k]
        BY <1>1, <1>4, <1>11, <3>1 DEF Layout, PositionsAreCuts
      <4> QED BY <1>5, <1>6, <1>11, <3>1, <3>2, <4>1
    <3>3. CASE j # 1
      <4>1. j \in 2 .. n + 1
        BY <3>3
      <4>2. cut[j] < cut[k]
        BY <1>1, <1>4 DEF Layout, PositionsAreCuts
      <4> QED BY <1>11, <3>1, <4>1, <4>2
    <3> QED BY <3>2, <3>3
  <2>3. ch <= p
    BY <1>1, <1>5, <1>6 DEF Layout, PositionsAreCuts, First
  <2>4. First(d)' = First(d)
    BY DEF First
  <2> QED BY <1>1, <1>4, <1>7, <1>8, <1>12, <2>1, <2>2, <2>3, <2>4
          DEF Layout, PositionsAreCuts, byteProducerVars
<1>14. RecordsLie(d)'
  <2> SUFFICES ASSUME NEW k \in 1 .. n
               PROVE  Spans(buf, d[k], queue[k], d[k + 1])
    BY <1>4, <1>8 DEF RecordsLie, Spans, Lies
  <2>1. CASE k = 1
    BY <1>5, <1>11, <2>1 DEF Spans
  <2>2. CASE k # 1
    <3>1. k \in 2 .. n + 1 /\ k + 1 \in 2 .. n + 1
      BY <1>6, <2>2
    <3> QED BY <1>1, <1>4, <1>11, <3>1 DEF Layout, RecordsLie
  <2> QED BY <2>1, <2>2
<1>15. ReaderIsAt(d)'
  BY <1>8 DEF ReaderIsAt
<1>16. WriterIsAt(d, ch)'
  BY <1>1, <1>8, <1>12, WriterStays DEF Layout
<1> QED BY <1>9, <1>12, <1>13, <1>14, <1>15, <1>16 DEF IInv, Layout

(* read_with takes the payload: the whole of the first record. *)
LEMMA ReadPayloadIInv ==
  ASSUME IInv, ReadPayload
  PROVE  IInv'
<1>1. PICK cut \in Cuts, ch \in Nat : Layout(cut, ch)
  BY DEF IInv
<1>2. /\ BytesTypeOK /\ cpc = "payload" /\ head # cachedTail
      /\ cut[2] = cut[1] + Size(Len(queue[1])) /\ len = Len(queue[1])
  BY <1>1 DEF IInv, Layout, ReaderIsAt, ReadPayload
<1>3. Len(queue) > 0
  BY <1>1, <1>2, ReaderHasRecord DEF Layout
<1>4. queue[1] \in Records /\ Index(head) = Index(cut[1]) /\ Lies(buf, cut[1], queue[1])
  BY <1>1, <1>2, <1>3, FirstWord DEF Layout
<1>5. taken' = queue[1]
  <2>1. taken' = [k \in 1 .. len |-> buf[Index(head) + k]]
    BY DEF ReadPayload
  <2>2. taken' = [k \in 1 .. len |-> queue[1][k]]
    BY <1>2, <1>4, <2>1 DEF Lies
  <2>3. PICK r : r = queue[1]
    OBVIOUS
  <2>4. r \in Seq(Values)
    BY <1>4, <2>3, RecordFacts
  <2>5. r = [k \in 1 .. Len(r) |-> r[k]]
    BY <2>4
  <2> QED BY <1>2, <2>2, <2>3, <2>5
<1>6. BytesTypeOK'
  BY <1>4, <1>5 DEF IInv, BytesTypeOK, ReadPayload, byteProducerVars
<1>7. PositionsAreCuts(cut, ch)' /\ RecordsLie(cut)' /\ cut \in Cuts' /\ Last(cut)' = Last(cut)
  BY <1>1 DEF Layout, PositionsAreCuts, RecordsLie, First, Last, Cuts, Spans, Lies,
              ReadPayload, byteProducerVars
<1>8. ReaderIsAt(cut)'
  BY <1>2, <1>5 DEF ReaderIsAt, ReadPayload
<1>9. WriterIsAt(cut, ch)'
  BY <1>1, <1>7, WriterStays DEF Layout, ReadPayload
<1> QED BY <1>6, <1>7, <1>8, <1>9 DEF IInv, Layout

(* read_with removes the record: the next one is the queue's first. *)
LEMMA ReadFreeIInv ==
  ASSUME IInv, ReadFree
  PROVE  IInv'
<1>1. PICK cut \in Cuts, ch \in Nat : Layout(cut, ch)
  BY DEF IInv
<1>2. /\ BytesTypeOK /\ cpc = "free" /\ head # cachedTail
      /\ cut[2] = cut[1] + Size(Len(queue[1])) /\ len = Len(queue[1])
      /\ taken = queue[1]
  BY <1>1 DEF IInv, Layout, ReaderIsAt, ReadFree
<1>3. /\ Len(queue) > 0
      /\ \E k \in 2 .. Len(queue) + 1 : cachedTail = Wrapping(cut[k])
  BY <1>1, <1>2, ReaderHasRecord DEF Layout
<1>4. PICK n : n = Len(queue)
  OBVIOUS
<1>5. /\ queue[1] \in Records /\ cut[1] \in Nat /\ cut[2] \in Nat
      /\ n \in Nat /\ n > 0 /\ len \in Nat /\ Size(len) \in Nat /\ cut[2] = cut[1] + Size(len)
  <2>1. queue[1] \in Records /\ cut[1] \in Nat /\ cut[2] \in Nat
    BY <1>1, <1>2, <1>3, FirstWord DEF Layout
  <2>2. Len(queue[1]) \in Nat
    BY <2>1, RecordFacts
  <2> QED BY <1>2, <1>3, <1>4, <2>1, <2>2 DEF BytesTypeOK, Size
<1>6. /\ queue' = SubSeq(queue, 2, n) /\ UNCHANGED <<buf, byteProducerVars>>
      /\ cachedTail' = cachedTail /\ sharedTail' = sharedTail
      /\ cpc' = "idle" /\ len' = 0 /\ taken' = <<>> /\ popped' = taken
  BY <1>4 DEF ReadFree
<1>7. /\ Len(queue') = n - 1 /\ queue' \in Seq(Records)
      /\ \A k \in 1 .. n - 1 : queue'[k] = queue[k + 1]
  BY <1>2, <1>4, <1>5, <1>6 DEF BytesTypeOK
<1>8. head' = Wrapping(cut[2]) /\ sharedHead' = head'
  <2>1. head = Wrapping(cut[1]) /\ cut[1] \in Int /\ Size(len) \in Int
    BY <1>1, <1>5 DEF Layout, PositionsAreCuts, First
  <2>2. head' = Wrapping(head + Size(len)) /\ sharedHead' = head'
    BY DEF ReadFree
  <2> QED BY <1>5, <2>1, <2>2, WrappingAdd
<1>9. BytesTypeOK'
  <2>1. head' \in Positions /\ 0 \in 0 .. MaxRecord
    BY <1>5, <1>8, IndexOfWrapped, Sizes
  <2> QED BY <1>2, <1>5, <1>6, <1>7, <1>8, <2>1 DEF BytesTypeOK, byteProducerVars
<1>10. PICK d : d = [k \in 1 .. n |-> cut[k + 1]]
  OBVIOUS
<1>11. /\ d \in [1 .. n -> Nat] /\ 1 \in 1 .. n /\ n \in 1 .. n /\ d[1] = cut[2]
       /\ \A k \in 1 .. n : d[k] = cut[k + 1] /\ k + 1 \in 1 .. n + 1
  <2>1. \A k \in 1 .. n : k + 1 \in 1 .. n + 1 /\ cut[k + 1] \in Nat
    BY <1>4, <1>5 DEF Cuts
  <2>2. 1 \in 1 .. n /\ n \in 1 .. n /\ 1 + 1 = 2
    BY <1>5
  <2> QED BY <1>10, <2>1, <2>2
<1>12. Len(queue') + 1 = n
  BY <1>5, <1>7
<1>13. d \in Cuts' /\ First(d) = cut[2] /\ Last(d)' = Last(cut)
  BY <1>4, <1>11, <1>12 DEF Cuts, First, Last
<1>14. PositionsAreCuts(d, ch)'
  <2>1. \E k \in 1 .. n : cachedTail' = Wrapping(d[k])
    <3>1. PICK k \in 2 .. n + 1 : cachedTail = Wrapping(cut[k])
      BY <1>3, <1>4
    <3>2. k - 1 \in 1 .. n /\ (k - 1) + 1 = k
      BY <1>5
    <3>3. d[k - 1] = cut[k]
      BY <1>11, <3>2
    <3> QED BY <1>6, <3>1, <3>2, <3>3
  <2>2. \A j, k \in 1 .. n : j < k => d[j] < d[k]
    <3> SUFFICES ASSUME NEW j \in 1 .. n, NEW k \in 1 .. n, j < k PROVE d[j] < d[k]
      OBVIOUS
    <3>1. j + 1 \in 1 .. n + 1 /\ k + 1 \in 1 .. n + 1 /\ j + 1 < k + 1
      BY <1>5
    <3>2. cut[j + 1] < cut[k + 1]
      BY <1>1, <1>4, <3>1 DEF Layout, PositionsAreCuts
    <3> QED BY <1>11, <3>2
  <2>3. ch <= cut[2]
    BY <1>1, <1>5 DEF Layout, PositionsAreCuts, First
  <2>4. First(d)' = First(d)
    BY DEF First
  <2> QED BY <1>1, <1>6, <1>8, <1>12, <1>13, <2>1, <2>2, <2>3, <2>4
          DEF Layout, PositionsAreCuts, byteProducerVars
<1>15. RecordsLie(d)'
  <2> SUFFICES ASSUME NEW k \in 1 .. n - 1
               PROVE  Spans(buf, d[k], queue'[k], d[k + 1])
    BY <1>6, <1>7 DEF RecordsLie, Spans, Lies
  <2>1. k \in 1 .. n /\ k + 1 \in 1 .. n
    BY <1>5
  <2>2. Spans(buf, cut[k + 1], queue[k + 1], cut[(k + 1) + 1])
    BY <1>1, <1>4, <2>1 DEF Layout, RecordsLie
  <2> QED BY <1>7, <1>11, <2>1, <2>2
<1>16. ReaderIsAt(d)'
  BY <1>6 DEF ReaderIsAt
<1>17. WriterIsAt(d, ch)'
  BY <1>1, <1>6, <1>13, WriterStays DEF Layout
<1> QED BY <1>9, <1>13, <1>14, <1>15, <1>16, <1>17 DEF IInv, Layout

(* Every step. *)
LEMMA NextIInv == IInv /\ [BytesNext]_bytesVars => IInv'
<1> SUFFICES ASSUME IInv, [BytesNext]_bytesVars PROVE IInv'
  OBVIOUS
<1>1. CASE UNCHANGED bytesVars
  <2>1. PICK cut \in Cuts, ch \in Nat : Layout(cut, ch)
    BY DEF IInv
  <2>2. /\ UNCHANGED <<buf, sharedHead, sharedTail, queue>>
        /\ UNCHANGED byteProducerVars /\ UNCHANGED consumerVars
    BY <1>1 DEF bytesVars
  <2>3. BytesTypeOK'
    BY <2>2 DEF IInv, BytesTypeOK, byteProducerVars, consumerVars
  <2>4. PositionsAreCuts(cut, ch)' /\ RecordsLie(cut)' /\ cut \in Cuts' /\ Last(cut)' = Last(cut)
    BY <2>1, <2>2 DEF Layout, PositionsAreCuts, RecordsLie, First, Last, Cuts, Spans, Lies,
                      byteProducerVars, consumerVars
  <2>5. ReaderIsAt(cut)' /\ WriterIsAt(cut, ch)'
    BY <2>1, <2>2, <2>4, ReaderStays, WriterStays DEF Layout
  <2> QED BY <2>3, <2>4, <2>5 DEF IInv, Layout
<1>2. CASE BytesNext
  BY <1>2, WriteTooLargeIInv, WriteCallIInv, WriteLoadHeadIInv, WriteMarkIInv, WriteFillIInv,
     WriteHeaderIInv, WritePublishIInv, ReadCallIInv, ReadLoadTailIInv, ReadHeaderIInv,
     ReadSkipIInv, ReadPayloadIInv, ReadFreeIInv DEF BytesNext
<1> QED BY <1>1, <1>2

-----------------------------------------------------------------------------
(***************************************************************************)
(* The theorems.                                                           *)
(***************************************************************************)

(* write_with and read_with keep the invariant, however they interleave. *)
THEOREM BytesInvariant == BytesSpec => []IInv
BY InitIInv, NextIInv, PTL DEF BytesSpec

(* They keep the ring's fields well-formed. *)
THEOREM BytesTypeCorrect == BytesSpec => []BytesTypeOK
<1>1. IInv => BytesTypeOK
  BY DEF IInv
<1> QED BY <1>1, BytesInvariant, PTL

(* The words the consumer is about to access are of the first record, or   *)
(* of the marker before it.                                                *)
LEMMA ConsumerRegionIsOfRecord ==
  ASSUME BytesTypeOK, NEW cut \in Cuts, NEW ch \in Nat, Layout(cut, ch), NEW a \in ConsumerRegion
  PROVE  /\ a \in Indices
         /\ \E x \in First(cut) .. Last(cut) - 1 : a = Index(x)
<1>1. cpc \in {"header", "payload", "free"}
  BY DEF ConsumerRegion
<1>2. head # cachedTail
  BY <1>1 DEF Layout, ReaderIsAt
<1>3. Len(queue) > 0
  BY <1>2, ReaderHasRecord DEF Layout
<1>4. PICK p : p = cut[1]
  OBVIOUS
<1>5. /\ p \in Nat /\ First(cut) = p /\ Last(cut) \in Nat /\ p < cut[2] /\ cut[2] <= Last(cut)
      /\ cut[2] \in Nat
  <2>1. Len(queue) \in Nat
    BY DEF BytesTypeOK
  <2>2. 1 \in 1 .. Len(queue) /\ 2 \in 1 .. Len(queue) + 1 /\ 1 + 1 = 2
    BY <1>3, <2>1
  <2> QED BY <1>4, <2>2, LayoutFacts DEF Layout, First
<1>6. Index(head) = Index(p) /\ Index(p) \in Indices /\ Index(p) \in Nat /\ queue[1] \in Records
  <2>1. Index(head) = Index(p) /\ queue[1] \in Records
    BY <1>3, <1>4, FirstWord DEF Layout
  <2>2. p \in Int
    BY <1>5
  <2> QED BY <2>1, <2>2, IndexInRange
<1>7. CASE cpc = "header"
  <2>1. a = Index(p)
    BY <1>6, <1>7 DEF ConsumerRegion
  <2>2. p \in First(cut) .. Last(cut) - 1
    BY <1>5
  <2> QED BY <1>6, <2>1, <2>2
<1>8. CASE cpc \in {"payload", "free"}
  <2>1. cut[2] = p + Size(Len(queue[1])) /\ len = Len(queue[1])
    BY <1>4, <1>8 DEF Layout, ReaderIsAt
  <2>2. Lies(buf, p, queue[1])
    BY <1>3, <1>4, <2>1, FirstWord DEF Layout
  <2>3. len \in Nat /\ Index(p) + len < Capacity /\ cut[2] = p + len + 1
    BY <1>5, <1>6, <2>1, <2>2, RecordFacts DEF Lies, Size
  <2>4. a \in (Index(p) + 1) .. (Index(p) + len)
    BY <1>6, <1>8 DEF ConsumerRegion, Payload
  <2>5. PICK j : j = a - Index(p)
    OBVIOUS
  <2>6. j \in Nat /\ j <= len /\ Index(p) + j < Capacity /\ a = Index(p) + j
    BY <1>6, <2>3, <2>4, <2>5, Sizes
  <2>7. a = Index(p + j)
    BY <1>5, <2>6, IndexAdd
  <2>8. p + j \in First(cut) .. Last(cut) - 1
    BY <1>5, <2>3, <2>6
  <2>9. a \in Indices
    BY <1>6, <2>6, Sizes DEF Indices
  <2> QED BY <2>7, <2>8, <2>9
<1> QED BY <1>1, <1>7, <1>8

(* The words the producer is about to write are in the buffer. *)
LEMMA ProducerRegionIsWritten ==
  ASSUME BytesTypeOK, NEW cut \in Cuts, NEW ch \in Nat, Layout(cut, ch), NEW a \in ProducerRegion
  PROVE  /\ a \in Indices /\ ppc \in {"mark", "fill", "header", "publish"}
         /\ a = Index(tail) \/ \E j \in 0 .. Len(item) : a = StartsAt(Len(item)) + j
<1>1. ppc \in {"mark", "fill", "header"}
  BY DEF ProducerRegion
<1>2. PICK n, st : n = Len(item) /\ st = StartsAt(Len(item))
  OBVIOUS
<1>3. n \in Nat /\ st \in Nat /\ st + n < Capacity /\ Index(tail) \in Indices
  <2>1. n \in 0 .. MaxRecord /\ st \in Nat /\ st + n < Capacity
    BY <1>1, <1>2, Writing
  <2>2. tail \in Int
    BY Sizes DEF BytesTypeOK, Positions
  <2> QED BY <2>1, <2>2, IndexInRange, Sizes
<1>4. CASE ppc = "mark"
  BY <1>3, <1>4 DEF ProducerRegion
<1>5. CASE ppc = "fill"
  <2>1. a \in (st + 1) .. (st + n)
    BY <1>2, <1>5 DEF ProducerRegion, Payload
  <2>2. a - st \in 0 .. n /\ a = st + (a - st) /\ a \in Indices
    BY <1>3, <2>1, Sizes DEF Indices
  <2> QED BY <1>2, <1>5, <2>2
<1>6. CASE ppc = "header"
  <2>1. a = st
    BY <1>2, <1>6 DEF ProducerRegion
  <2>2. 0 \in 0 .. n /\ st = st + 0 /\ st \in Indices
    BY <1>3, Sizes DEF Indices
  <2> QED BY <1>2, <1>6, <2>1, <2>2
<1> QED BY <1>1, <1>4, <1>5, <1>6

(* region and region_mut: no region either side asks for runs past the     *)
(* end of the buffer, so neither thread is ever stopped.                   *)
THEOREM BytesRegionsInBounds == BytesSpec => []RegionsInBounds
<1>1. IInv => RegionsInBounds
  <2> SUFFICES ASSUME IInv PROVE RegionsInBounds
    OBVIOUS
  <2>1. PICK cut \in Cuts, ch \in Nat : Layout(cut, ch)
    BY DEF IInv
  <2> QED BY <2>1, ConsumerRegionIsOfRecord, ProducerRegionIsWritten DEF IInv, RegionsInBounds
<1> QED BY <1>1, BytesInvariant, PTL

(* The SAFETY comments of Shared: whatever the two sides have cached, the  *)
(* producer never writes a word the consumer may be reading.               *)
THEOREM BytesNoRegionRace == BytesSpec => []NoRegionRace
<1>1. IInv => NoRegionRace
  <2> SUFFICES ASSUME IInv, NEW a \in ProducerRegion, a \in ConsumerRegion PROVE FALSE
    BY DEF NoRegionRace
  <2>1. PICK cut \in Cuts, ch \in Nat : Layout(cut, ch)
    BY DEF IInv
  <2>2. PICK x \in First(cut) .. Last(cut) - 1 : a = Index(x)
    BY <2>1, ConsumerRegionIsOfRecord DEF IInv
  <2>3. /\ ppc \in {"mark", "fill", "header", "publish"}
        /\ a = Index(tail) \/ \E j \in 0 .. Len(item) : a = StartsAt(Len(item)) + j
    BY <2>1, ProducerRegionIsWritten DEF IInv
  <2>4. /\ Index(x) # Index(tail)
        /\ \A j \in 0 .. Len(item) : Index(x) # StartsAt(Len(item)) + j
    BY <2>1, <2>3, WrittenIsApart DEF IInv
  <2> QED BY <2>2, <2>3, <2>4
<1> QED BY <1>1, BytesInvariant, PTL

-----------------------------------------------------------------------------
(***************************************************************************)
(* The ring implements RecordQueue.                                        *)
(***************************************************************************)

(* An empty ring has room for any record. *)
LEMMA EmptyHasRoom ==
  ASSUME IInv, queue = <<>>, item \in Records
  PROVE  ~NoRoom(Len(item), sharedHead)
<1>1. PICK cut \in Cuts, ch \in Nat : Layout(cut, ch)
  BY DEF IInv
<1>2. Len(item) \in 0 .. MaxRecord
  BY RecordFacts
<1>3. NoRoom(Len(item), sharedHead) <=>
        Capacity < Last(cut) - First(cut) + Needed(Len(item))
  BY <1>1, <1>2, RoomFacts DEF IInv, Layout
<1>4. Last(cut) = First(cut) /\ Last(cut) \in Nat /\ tail = Wrapping(Last(cut))
  BY <1>1, LayoutFacts DEF IInv, Layout, PositionsAreCuts, First, Last
<1>5. /\ Skip(Len(item)) \in Nat /\ Needed(Len(item)) = Skip(Len(item)) + Len(item) + 1
      /\ Needed(Len(item)) <= Capacity
  BY <1>2, <1>4, WriterPlaces
<1> QED BY <1>2, <1>3, <1>4, <1>5, Sizes

(* A consumer that finds its position at the tail has read everything. *)
LEMMA NothingLeft ==
  ASSUME IInv, head = sharedTail
  PROVE  queue = <<>>
<1>1. PICK cut \in Cuts, ch \in Nat : Layout(cut, ch)
  BY DEF IInv
<1>2. PICK p, q : p = Last(cut) /\ q = First(cut)
  OBVIOUS
<1>3. /\ p \in Nat /\ q \in Nat /\ q <= p /\ p - q <= Capacity
      /\ Wrapping(p) = Wrapping(q) /\ Len(queue) \in Nat
  BY <1>1, <1>2, LayoutFacts DEF IInv, Layout, PositionsAreCuts
<1>4. p = q
  <2>1. CASE q < p
    <3>1. p \in Int /\ q \in Int
      BY <1>3
    <3> QED BY <1>3, <2>1, <3>1, WrappingDistinct
  <2> QED BY <1>3, <2>1
<1>5. Len(queue) = 0
  <2>1. CASE Len(queue) > 0
    <3>1. 1 \in 1 .. Len(queue) + 1 /\ Len(queue) + 1 \in 1 .. Len(queue) + 1 /\ 1 < Len(queue) + 1
      BY <1>3, <2>1
    <3>2. cut[1] < cut[Len(queue) + 1]
      BY <1>1, <3>1 DEF Layout, PositionsAreCuts
    <3> QED BY <1>2, <1>3, <1>4, <3>2 DEF First, Last
  <2> QED BY <1>3, <2>1
<1> QED BY <1>5 DEF IInv, BytesTypeOK

(* A step of the ring is a step of the queue or none. *)
LEMMA StepOfQueue ==
  ASSUME IInv, BytesNext
  PROVE  Promised!Next \/ UNCHANGED <<queue, written, popped>>
<1>1. CASE WriteTooLarge
  BY <1>1 DEF WriteTooLarge, Promised!Next, Promised!WriteTooLarge, consumerVars
<1>2. CASE \E r \in Records : WriteCall(r)
  BY <1>2 DEF WriteCall, Promised!Next, Promised!WriteCall, consumerVars
<1>3. CASE WriteLoadHead
  <2>1. item \in Records
    BY <1>3 DEF IInv, Layout, WriterIsAt, WriteLoadHead
  <2>2. CASE NoRoom(Len(item), sharedHead)
    <3>1. queue # <<>>
      BY <2>1, <2>2, EmptyHasRoom
    <3> QED BY <1>3, <2>2, <3>1 DEF WriteLoadHead, Promised!Next, Promised!WriteFull, consumerVars
  <2>3. CASE ~NoRoom(Len(item), sharedHead)
    BY <1>3, <2>3 DEF WriteLoadHead, consumerVars
  <2> QED BY <2>2, <2>3
<1>4. CASE WriteMark \/ WriteFill \/ WriteHeader
  BY <1>4 DEF WriteMark, WriteFill, WriteHeader, consumerVars
<1>5. CASE WritePublish
  <2>1. item \in Records
    BY <1>5 DEF IInv, Layout, WriterIsAt, WritePublish
  <2>2. item \in Promised!Records
    <3>1. item \in Seq(Values) /\ Len(item) \in 0 .. MaxRecord
      BY <2>1, RecordFacts
    <3>2. item \in [1 .. Len(item) -> Values]
      BY <3>1
    <3> QED BY <3>1, <3>2 DEF Promised!Records
  <2> QED BY <1>5, <2>2 DEF WritePublish, Promised!Next, Promised!Write, consumerVars
<1>6. CASE ReadCall
  BY <1>6 DEF ReadCall, Promised!Next, Promised!ReadCall, byteProducerVars
<1>7. CASE ReadLoadTail
  <2>1. CASE head = sharedTail
    <3>1. queue = <<>>
      BY <2>1, NothingLeft
    <3> QED BY <1>7, <2>1, <3>1 DEF ReadLoadTail, Promised!Next, Promised!ReadNothing, byteProducerVars
  <2>2. CASE head # sharedTail
    BY <1>7, <2>2 DEF ReadLoadTail, byteProducerVars
  <2> QED BY <2>1, <2>2
<1>8. CASE ReadHeader \/ ReadSkip \/ ReadPayload
  BY <1>8 DEF ReadHeader, ReadSkip, ReadPayload, byteProducerVars
<1>9. CASE ReadFree
  <2>1. PICK cut \in Cuts, ch \in Nat : Layout(cut, ch)
    BY DEF IInv
  <2>2. BytesTypeOK /\ head # cachedTail /\ taken = queue[1]
    BY <1>9, <2>1 DEF IInv, Layout, ReaderIsAt, ReadFree
  <2>3. Len(queue) > 0
    BY <2>1, <2>2, ReaderHasRecord DEF Layout
  <2>4. queue # <<>> /\ Head(queue) = queue[1] /\ Tail(queue) = SubSeq(queue, 2, Len(queue))
    BY <2>2, <2>3 DEF BytesTypeOK
  <2> QED BY <1>9, <2>2, <2>4 DEF ReadFree, Promised!Next, Promised!Read, byteProducerVars
<1> QED BY <1>1, <1>2, <1>3, <1>4, <1>5, <1>6, <1>7, <1>8, <1>9 DEF BytesNext

(* The ring is a queue of records: whatever their lengths and contents and *)
(* however write_with and read_with interleave, each record is read once,  *)
(* in order and whole, Full is never answered by an empty ring, and None   *)
(* only by one.                                                            *)
THEOREM BytesImplementsRecordQueue == BytesSpec => ImplementsRecordQueue
<1>1. BytesInit => Promised!Init
  BY DEF BytesInit, Promised!Init
<1>2. IInv /\ [BytesNext]_bytesVars => [Promised!Next]_<<queue, written, popped>>
  <2> SUFFICES ASSUME IInv, [BytesNext]_bytesVars
               PROVE  [Promised!Next]_<<queue, written, popped>>
    OBVIOUS
  <2>1. CASE UNCHANGED bytesVars
    BY <2>1 DEF bytesVars, byteProducerVars, consumerVars
  <2>2. CASE BytesNext
    BY <2>2, StepOfQueue
  <2> QED BY <2>1, <2>2
<1> QED BY <1>1, <1>2, BytesInvariant, PTL DEF BytesSpec, ImplementsRecordQueue, Promised!Spec

=============================================================================
