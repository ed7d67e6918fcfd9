---------------------------- MODULE SpscRingProofs ----------------------------
(***************************************************************************)
(* Proofs about SpscRing, for every set of values, every capacity and      *)
(* every width of the counters: NoSlotRace, and that the ring implements   *)
(* the bounded queue Fifo.                                                 *)
(***************************************************************************)
EXTENDS SpscRing, NatLemmas, TLAPS

(***************************************************************************)
(* The inductive invariant.                                                *)
(***************************************************************************)

(* The number of slots published and not yet freed. *)
Filled == Wrapping(position - reading)

(* The cached head is behind the real one, by no more than there is room.        *)
CachedHeadIsBehind ==
  /\ sharedHead = reading
  /\ Wrapping(reading - cachedHead) + Filled <= Capacity

(* A filled slot carries the sequence number pop waits for.  Any other     *)
(* carries the number it was last filled with, a lap ago, or the one it    *)
(* was made with; pop takes neither for the one it waits for.              *)
PublishedSeq(k) == Wrapping(reading + k + 1)
OldSeqs(k) == {Wrapping(reading + k + 1 - Capacity), Wrapping(reading + k - 1)}

SlotsAreStamped ==
  \A k \in Slots :
    IF k < Filled THEN seq[Slot(reading + k)] = PublishedSeq(k)
                  ELSE seq[Slot(reading + k)] \in OldSeqs(k)

(* push goes on only with room by its cached head, and pop only with an          *)
(* element.                                                                *)
CallsAreJustified ==
  /\ ppc \in {"write", "publish"} => ~LooksFull(position, cachedHead)
  /\ ppc # "idle" => item \in Values
  /\ ppc = "publish" => value[Slot(position)] = item
  /\ cpc # "idle" => Filled > 0
  /\ cpc = "free" => popping = value[Slot(reading)]

IInv == RingTypeOK /\ CachedHeadIsBehind /\ SlotsAreStamped /\ CallsAreJustified

-----------------------------------------------------------------------------
(***************************************************************************)
(* Counters and slots.                                                     *)
(***************************************************************************)

(* What channel() checks, as the arithmetic below needs it. *)
LEMMA Sizes ==
  /\ Capacity \in Nat \ {0} /\ Capacity >= 2
  /\ Wrap \in Nat \ {0} /\ Wrap > Capacity
  /\ Wrap % Capacity = 0
BY CapacityAssumption

(* Counters stay in range, and one in range is left alone. *)
LEMMA WrappingInRange ==
  ASSUME NEW n \in Int
  PROVE  /\ Wrapping(n) \in Positions
         /\ n \in Positions => Wrapping(n) = n
BY Sizes, Division, SmallRemainder DEF Wrapping, Positions

(* Slots exist. *)
LEMMA SlotInRange ==
  ASSUME NEW n \in Int
  PROVE  Slot(n) \in Slots
BY Sizes, Division DEF Slot, Slots

(* Adding to a wrapped counter, and subtracting from one. *)
LEMMA WrappingAdd ==
  ASSUME NEW n \in Int, NEW k \in Int
  PROVE  /\ Wrapping(Wrapping(n) + k) = Wrapping(n + k)
         /\ Wrapping(k - Wrapping(n)) = Wrapping(k - n)
<1>1. Wrap \in Nat \ {0}
  BY Sizes
<1>2. Wrap % Wrap = 0
  BY <1>1, DividesItself
<1>3. ((n % Wrap) + k) % Wrap = (n + k) % Wrap
  BY <1>1, <1>2, AddAfterWrap
<1>4. (k - (n % Wrap)) % Wrap = (k - n) % Wrap
  BY <1>1, SubtractAfterWrap
<1> QED BY <1>3, <1>4 DEF Wrapping

(* The mask gives the same slot for a counter before and after it wraps:   *)
(* this is where the capacity has to divide the counter's range.           *)
LEMMA SlotOfWrapped ==
  ASSUME NEW n \in Int, NEW k \in Int
  PROVE  Slot(Wrapping(n) + k) = Slot(n + k)
BY Sizes, AddAfterWrap DEF Wrapping, Slot

(* Positions within one lap have slots of their own. *)
LEMMA SlotsAreDistinct ==
  ASSUME NEW n \in Int, NEW j \in Slots, NEW k \in Slots, Slot(n + j) = Slot(n + k)
  PROVE  j = k
<1> DEFINE a == n + j
           b == n + k
<1>1. a \in Int /\ b \in Int /\ a - b < Capacity /\ b - a < Capacity
  BY Sizes DEF Slots
<1>2. a % Capacity = b % Capacity
  BY DEF Slot
<1>3. a = b
  <2> HIDE DEF a, b
  <2> QED BY <1>1, <1>2, Sizes, DistinctRemainders
<1> QED BY <1>3, Sizes DEF Slots

(* The sequence number pop waits for is none of the old ones. *)
LEMMA OldSeqsDiffer ==
  ASSUME NEW n \in Int
  PROVE  /\ Wrapping(n + 1) # Wrapping(n + 1 - Capacity)
         /\ Wrapping(n + 1) # Wrapping(n - 1)
<1> DEFINE a == n + 1
           b == n + 1 - Capacity
           c == n - 1
<1>1. /\ a \in Int /\ b \in Int /\ c \in Int /\ a # b /\ a # c
      /\ a - b < Wrap /\ b - a < Wrap /\ a - c < Wrap /\ c - a < Wrap
  BY Sizes
<1>2. a % Wrap # b % Wrap /\ a % Wrap # c % Wrap
  <2> HIDE DEF a, b, c
  <2> QED BY <1>1, Sizes, DistinctRemainders
<1> QED BY <1>2 DEF Wrapping

(* Filled is the distance between the two sides' positions. *)
LEMMA FilledIsDistance ==
  ASSUME RingTypeOK
  PROVE  /\ Filled \in Positions /\ Filled \in Nat
         /\ position = Wrapping(reading + Filled)
         /\ \A k \in Int : Slot(position + k) = Slot(reading + Filled + k)
<1>1. position \in Positions /\ reading \in Positions /\ position \in Int /\ reading \in Int
  BY Sizes DEF RingTypeOK, Positions
<1>2. Filled \in Positions /\ Filled \in Nat
  BY <1>1, WrappingInRange DEF Filled, Positions
<1>3. Wrapping(reading + Filled) = Wrapping(position)
  <2>1. Wrapping(Wrapping(position - reading) + reading) = Wrapping((position - reading) + reading)
    BY <1>1, WrappingAdd
  <2>2. (position - reading) + reading = position /\ reading + Filled = Filled + reading
    BY <1>1, <1>2
  <2> QED BY <2>1, <2>2 DEF Filled
<1>4. Wrapping(position) = position
  BY <1>1, WrappingInRange
<1>5. ASSUME NEW k \in Int PROVE Slot(position + k) = Slot(reading + Filled + k)
  <2>1. reading + Filled \in Int
    BY <1>1, <1>2
  <2> QED BY <2>1, <1>3, <1>4, SlotOfWrapped
<1> QED BY <1>2, <1>3, <1>4, <1>5

(* The room push computes from its cached head. *)
LEMMA CachedRoom ==
  ASSUME RingTypeOK, CachedHeadIsBehind
  PROVE  /\ Wrapping(reading - cachedHead) \in Nat
         /\ Wrapping(position - cachedHead) = Wrapping(reading - cachedHead) + Filled
         /\ Filled <= Capacity
         /\ ~LooksFull(position, cachedHead) =>
              Wrapping(reading - cachedHead) + Filled < Capacity /\ Filled < Capacity
<1> DEFINE a == reading - cachedHead
           b == position - reading
<1>1. a \in Int /\ b \in Int /\ position - cachedHead = a + b
  BY Sizes DEF RingTypeOK, Positions
<1> HIDE DEF a, b
<1>2. Wrapping(a) \in Positions /\ Wrapping(b) \in Positions
  BY <1>1, WrappingInRange
<1>3. Wrapping(a) + Wrapping(b) <= Capacity
  BY DEF CachedHeadIsBehind, Filled, a, b
<1>4. Wrapping(a) + Wrapping(b) \in Positions
  BY <1>2, <1>3, Sizes DEF Positions
<1>5. Wrapping(a) + Wrapping(b) = Wrapping(Wrapping(a) + Wrapping(b))
  BY <1>4, WrappingInRange DEF Positions
<1>6. Wrapping(Wrapping(a) + Wrapping(b)) = Wrapping(a + Wrapping(b))
  BY <1>1, <1>2, WrappingAdd DEF Positions
<1>7. Wrapping(a + Wrapping(b)) = Wrapping(a + b)
  <2>1. a + Wrapping(b) = Wrapping(b) + a /\ a + b = b + a
    BY <1>1, <1>2 DEF Positions
  <2>2. Wrapping(Wrapping(b) + a) = Wrapping(b + a)
    BY <1>1, WrappingAdd
  <2> QED BY <2>1, <2>2
<1>8. Wrapping(a) + Wrapping(b) = Wrapping(a + b)
  BY <1>1, <1>5, <1>6, <1>7
<1> QED BY <1>1, <1>2, <1>3, <1>8, Sizes DEF Positions, Filled, LooksFull, a, b

(* With some slots filled but not all, the two sides are at two slots. *)
LEMMA SidesAreApart ==
  ASSUME RingTypeOK, Filled > 0, Filled < Capacity
  PROVE  Slot(position) # Slot(reading)
<1>1. reading \in Int /\ position \in Int
  BY Sizes DEF RingTypeOK, Positions
<1>2. Filled \in Slots /\ 0 \in Slots /\ Filled # 0
  BY FilledIsDistance, Sizes DEF Slots
<1>3. Slot(position + 0) = Slot(reading + Filled + 0)
  BY FilledIsDistance
<1>4. Slot(position) = Slot(reading + Filled)
  BY <1>1, <1>2, <1>3, Sizes DEF Slots
<1>5. Slot(reading + Filled) # Slot(reading + 0)
  BY <1>1, <1>2, SlotsAreDistinct
<1> QED BY <1>1, <1>4, <1>5

-----------------------------------------------------------------------------
(***************************************************************************)
(* The invariant is inductive.                                             *)
(***************************************************************************)

(* channel() establishes it. *)
LEMMA InitIInv == RingInit => IInv
<1> SUFFICES ASSUME RingInit PROVE IInv
  OBVIOUS
<1>1. \A s \in Slots : s \in Int /\ s - 1 \in Int /\ Wrapping(s - 1) \in Positions
  BY WrappingInRange, Sizes DEF Slots
<1>2. RingTypeOK
  BY <1>1, Sizes DEF RingInit, RingTypeOK, Positions, StartingSeq
<1>3. Wrapping(0) = 0
  BY WrappingInRange, Sizes DEF Positions
<1>4. Filled = 0 /\ CachedHeadIsBehind
  BY <1>3, Sizes DEF RingInit, Filled, CachedHeadIsBehind
<1>5. SlotsAreStamped
  <2> SUFFICES ASSUME NEW k \in Slots PROVE seq[Slot(reading + k)] \in OldSeqs(k)
    BY <1>4, Sizes DEF SlotsAreStamped, Slots
  <2>1. Slot(k) = k /\ reading + k = k
    BY SmallRemainder, Sizes DEF Slot, Slots, RingInit
  <2>2. seq[k] = Wrapping(k - 1)
    BY DEF RingInit, StartingSeq
  <2>3. reading + k - 1 = k - 1
    BY <2>1, Sizes DEF RingInit, Slots
  <2> QED BY <2>1, <2>2, <2>3 DEF OldSeqs
<1> QED BY <1>2, <1>4, <1>5 DEF IInv, CallsAreJustified, RingInit

(* push finds room by its cached head only where there is room. *)
LEMMA PushCallIInv ==
  ASSUME IInv, NEW v \in Values, PushCall(v)
  PROVE  IInv'
<1> USE DEF IInv, PushCall, consumerVars
<1>1. RingTypeOK'
  BY DEF RingTypeOK
<1>2. Filled' = Filled /\ CachedHeadIsBehind'
  BY DEF Filled, CachedHeadIsBehind
<1>3. SlotsAreStamped'
  BY <1>2 DEF SlotsAreStamped, PublishedSeq, OldSeqs
<1> QED BY <1>1, <1>2, <1>3 DEF CallsAreJustified, LooksFull

(* The cached head is the real one after the load. *)
LEMMA PushLoadHeadIInv ==
  ASSUME IInv, PushLoadHead
  PROVE  IInv'
<1> USE DEF IInv, PushLoadHead, consumerVars
<1>1. RingTypeOK'
  BY DEF RingTypeOK
<1>2. Filled' = Filled /\ Filled = Wrapping(position - sharedHead)
  BY DEF Filled, CachedHeadIsBehind
<1>3. Wrapping(reading - sharedHead) = 0
  <2>1. reading - sharedHead = 0
    BY Sizes DEF CachedHeadIsBehind, RingTypeOK, Positions
  <2> QED BY <2>1, WrappingInRange, Sizes DEF Positions
<1>4. CachedHeadIsBehind'
  BY <1>2, <1>3, CachedRoom, FilledIsDistance DEF CachedHeadIsBehind
<1>5. SlotsAreStamped'
  BY <1>2 DEF SlotsAreStamped, PublishedSeq, OldSeqs
<1> QED BY <1>1, <1>2, <1>4, <1>5 DEF CallsAreJustified, LooksFull

(* The write disturbs no slot that pop is reading. *)
LEMMA PushWriteIInv ==
  ASSUME IInv, PushWrite
  PROVE  IInv'
<1> USE DEF IInv, PushWrite, consumerVars
<1>1. Slot(position) \in Slots /\ Slot(reading) \in Slots
  BY SlotInRange, Sizes DEF RingTypeOK, Positions
<1>2. RingTypeOK'
  BY <1>1 DEF RingTypeOK
<1>3. Filled' = Filled /\ CachedHeadIsBehind'
  BY DEF Filled, CachedHeadIsBehind
<1>4. SlotsAreStamped'
  BY <1>3 DEF SlotsAreStamped, PublishedSeq, OldSeqs
<1>5. value'[Slot(position)] = item
  BY <1>1 DEF RingTypeOK
<1>6. cpc # "idle" => value'[Slot(reading)] = value[Slot(reading)]
  BY <1>1, SidesAreApart, CachedRoom DEF CallsAreJustified, RingTypeOK
<1> QED BY <1>2, <1>3, <1>4, <1>5, <1>6 DEF CallsAreJustified, LooksFull

(* The slot published is the first one that was not filled. *)
LEMMA PushPublishIInv ==
  ASSUME IInv, PushPublish
  PROVE  /\ IInv'
         /\ Filled' = Filled + 1
         /\ Slot(position) = Slot(reading + Filled)
<1> USE DEF IInv, PushPublish, consumerVars
<1>1. /\ position \in Int /\ reading \in Int
      /\ Filled \in Nat /\ Filled < Capacity /\ Filled \in Slots
      /\ reading' = reading
  <2>1. position \in Int /\ reading \in Int
    BY Sizes DEF RingTypeOK, Positions
  <2>2. Filled \in Nat /\ Filled < Capacity
    BY FilledIsDistance, CachedRoom DEF CallsAreJustified
  <2> QED BY <2>1, <2>2, Sizes DEF Slots
<1>2. Filled' = Filled + 1
  <2> DEFINE a == position + 1
             b == position - reading
  <2>1. a \in Int /\ b \in Int /\ a - reading = b + 1 /\ -reading \in Int
    BY <1>1
  <2>2. Wrapping(Wrapping(a) + (-reading)) = Wrapping(a + (-reading))
    <3> HIDE DEF a
    <3> QED BY <2>1, WrappingAdd
  <2>3. Wrapping(a) + (-reading) = position' - reading /\ a + (-reading) = b + 1
    BY <1>1, <2>1, WrappingInRange DEF Positions
  <2>4. Filled' = Wrapping(b + 1)
    BY <1>1, <2>2, <2>3 DEF Filled
  <2>5. Wrapping(Wrapping(b) + 1) = Wrapping(b + 1)
    <3> HIDE DEF b
    <3> QED BY <2>1, WrappingAdd
  <2>6. Filled + 1 \in Positions /\ Filled + 1 \in Int
    BY <1>1, Sizes DEF Positions
  <2>7. Wrapping(Filled + 1) = Filled + 1
    BY <2>6, WrappingInRange
  <2> QED BY <2>4, <2>5, <2>7 DEF Filled
<1>3. /\ Slot(position) = Slot(reading + Filled)
      /\ Wrapping(position + 1) = Wrapping(reading + Filled + 1)
  <2>1. position + 0 = position /\ reading + Filled + 0 = reading + Filled
        /\ reading + Filled \in Int
    BY <1>1
  <2>2. position = Wrapping(reading + Filled) /\ Slot(position + 0) = Slot(reading + Filled + 0)
    BY FilledIsDistance
  <2> QED BY <2>1, <2>2, WrappingAdd
<1>4. Slot(position) \in Slots /\ Wrapping(position + 1) \in Positions
  BY <1>1, SlotInRange, WrappingInRange
<1>5. RingTypeOK'
  BY <1>4 DEF RingTypeOK
<1>6. CachedHeadIsBehind'
  <2>1. Wrapping(reading - cachedHead) + Filled < Capacity
    BY CachedRoom DEF CallsAreJustified, CachedHeadIsBehind
  <2> QED BY <1>1, <1>2, <2>1, CachedRoom, Sizes DEF CachedHeadIsBehind
<1>7. SlotsAreStamped'
  <2> SUFFICES ASSUME NEW k \in Slots
               PROVE  IF k < Filled + 1 THEN seq'[Slot(reading + k)] = PublishedSeq(k)
                                        ELSE seq'[Slot(reading + k)] \in OldSeqs(k)
    BY <1>1, <1>2 DEF SlotsAreStamped, PublishedSeq, OldSeqs
  <2>1. CASE k = Filled
    BY <1>1, <1>3, <1>4, <2>1 DEF RingTypeOK, PublishedSeq
  <2>2. CASE k # Filled
    <3>1. Slot(reading + k) # Slot(position)
      BY <1>1, <1>3, <2>2, SlotsAreDistinct
    <3>2. seq'[Slot(reading + k)] = seq[Slot(reading + k)]
      BY <3>1, <1>4 DEF RingTypeOK
    <3>3. k < Filled + 1 <=> k < Filled
      BY <1>1, <2>2, Sizes DEF Slots
    <3> QED BY <3>2, <3>3 DEF SlotsAreStamped
  <2> QED BY <2>1, <2>2
<1> QED BY <1>1, <1>2, <1>3, <1>5, <1>6, <1>7, Sizes DEF CallsAreJustified

(* pop goes on exactly when there is an element. *)
LEMMA PopLoadSeqIInv ==
  ASSUME IInv, PopLoadSeq
  PROVE  /\ IInv'
         /\ cpc' = "idle" => Filled = 0
<1> USE DEF IInv, PopLoadSeq, producerVars
<1>1. RingTypeOK'
  BY DEF RingTypeOK
<1>2. Filled' = Filled /\ CachedHeadIsBehind'
  BY DEF Filled, CachedHeadIsBehind
<1>3. SlotsAreStamped'
  BY <1>2 DEF SlotsAreStamped, PublishedSeq, OldSeqs
<1>4. seq[Slot(reading)] = Wrapping(reading + 1) <=> Filled > 0
  <2>1. reading \in Int /\ 0 \in Slots /\ reading + 0 = reading
    BY Sizes DEF RingTypeOK, Positions, Slots
  <2>2. IF 0 < Filled THEN seq[Slot(reading)] = Wrapping(reading + 1)
        ELSE seq[Slot(reading)] \in {Wrapping(reading + 1 - Capacity), Wrapping(reading - 1)}
    BY <2>1 DEF SlotsAreStamped, PublishedSeq, OldSeqs
  <2> QED BY <2>1, <2>2, OldSeqsDiffer, FilledIsDistance
<1>5. cpc' = "idle" => Filled = 0
  BY <1>4, FilledIsDistance
<1> QED BY <1>1, <1>2, <1>3, <1>4, <1>5 DEF CallsAreJustified, LooksFull

(* The value read is the one in the slot, whose producer is elsewhere. *)
LEMMA PopReadIInv ==
  ASSUME IInv, PopRead
  PROVE  IInv'
<1> USE DEF IInv, PopRead, producerVars
<1>1. RingTypeOK'
  <2>1. Slot(reading) \in Slots
    BY SlotInRange, Sizes DEF RingTypeOK, Positions
  <2> QED BY <2>1 DEF RingTypeOK
<1>2. Filled' = Filled /\ CachedHeadIsBehind'
  BY DEF Filled, CachedHeadIsBehind
<1>3. SlotsAreStamped'
  BY <1>2 DEF SlotsAreStamped, PublishedSeq, OldSeqs
<1> QED BY <1>1, <1>2, <1>3 DEF CallsAreJustified, LooksFull

(* The slot freed becomes the last one of the next lap. *)
LEMMA PopFreeIInv ==
  ASSUME IInv, PopFree
  PROVE  /\ IInv'
         /\ Filled > 0 /\ Filled' = Filled - 1
         /\ \A k \in Int : Slot(reading' + k) = Slot(reading + 1 + k)
<1> USE DEF IInv, PopFree, producerVars
<1>1. /\ position \in Int /\ reading \in Int /\ reading + 1 \in Int /\ cachedHead \in Int
      /\ position' = position /\ cachedHead' = cachedHead
  BY Sizes DEF RingTypeOK, Positions
<1>2. Filled \in Nat /\ Filled > 0 /\ Filled <= Capacity /\ Filled \in Positions
  BY FilledIsDistance, CachedRoom DEF CallsAreJustified
<1>3. Filled' = Filled - 1
  <2> DEFINE a == reading + 1
             b == position - reading
  <2>1. a \in Int /\ b \in Int /\ position - a = b + (-1) /\ -1 \in Int
    BY <1>1
  <2>2. Filled' = Wrapping(position - Wrapping(a))
    BY <1>1 DEF Filled
  <2>3. Wrapping(position - Wrapping(a)) = Wrapping(position - a)
    <3> HIDE DEF a
    <3> QED BY <1>1, <2>1, WrappingAdd
  <2>4. Wrapping(Wrapping(b) + (-1)) = Wrapping(b + (-1))
    <3> HIDE DEF b
    <3> QED BY <2>1, WrappingAdd
  <2>5. Filled + (-1) = Filled - 1 /\ Filled - 1 \in Positions /\ Filled - 1 \in Int
    BY <1>2, Sizes DEF Positions
  <2>6. Wrapping(Filled - 1) = Filled - 1
    BY <2>5, WrappingInRange
  <2> QED BY <2>1, <2>2, <2>3, <2>4, <2>5, <2>6 DEF Filled
<1>4. \A k \in Int : /\ Slot(reading' + k) = Slot(reading + 1 + k)
                     /\ Wrapping(reading' + k) = Wrapping(reading + 1 + k)
  BY <1>1, SlotOfWrapped, WrappingAdd
<1>5. RingTypeOK'
  BY <1>1, WrappingInRange DEF RingTypeOK
<1>6. Wrapping(reading' - cachedHead') <= Wrapping(reading - cachedHead) + 1
      /\ Wrapping(reading' - cachedHead') \in Nat
  <2> DEFINE a == reading - cachedHead
  <2>1. a \in Int /\ -cachedHead \in Int
    BY <1>1
  <2>2. Wrapping(reading' + (-cachedHead)) = Wrapping(reading + 1 + (-cachedHead))
    BY <1>4, <2>1
  <2>3. reading' + (-cachedHead) = reading' - cachedHead' /\ reading + 1 + (-cachedHead) = a + 1
    BY <1>1, <1>5, Sizes DEF RingTypeOK, Positions
  <2> HIDE DEF a
  <2>4. Wrapping(a + 1) = Wrapping(Wrapping(a) + 1)
    BY <2>1, WrappingAdd
  <2>5. Wrapping(a) \in 0 .. Capacity - 1
    BY <2>1, <1>2, WrappingInRange, Sizes DEF Positions, CachedHeadIsBehind, a
  <2>6. Wrapping(a) + 1 \in Positions /\ Wrapping(a) + 1 \in Nat
    BY <2>5, Sizes DEF Positions
  <2>7. Wrapping(Wrapping(a) + 1) = Wrapping(a) + 1
    BY <2>6, WrappingInRange
  <2> QED BY <2>2, <2>3, <2>4, <2>6, <2>7 DEF a
<1>7. CachedHeadIsBehind'
  <2>1. Wrapping(reading - cachedHead) \in Nat
    BY CachedRoom
  <2> QED BY <1>2, <1>3, <1>6, <2>1, Sizes DEF CachedHeadIsBehind
<1>8. SlotsAreStamped'
  <2> SUFFICES ASSUME NEW k \in Slots
               PROVE  IF k < Filled' THEN seq[Slot(reading' + k)] = Wrapping(reading' + k + 1)
                      ELSE seq[Slot(reading' + k)] \in {Wrapping(reading' + k + 1 - Capacity),
                                                        Wrapping(reading' + k - 1)}
    BY DEF SlotsAreStamped, PublishedSeq, OldSeqs
  <2> DEFINE j == k + 1
  <2>1. /\ k \in Int /\ j \in Int /\ reading' \in Int /\ Capacity \in Int
        /\ k < Filled' <=> j < Filled
        /\ reading + 1 + k = reading + j
        /\ 0 \in Slots
    BY <1>1, <1>2, <1>3, <1>5, Sizes DEF Slots, RingTypeOK, Positions
  <2>2. Slot(reading' + k) = Slot(reading + j)
    BY <1>4, <2>1
  <2>3. /\ Wrapping(reading' + k + 1) = Wrapping(reading + j + 1)
        /\ Wrapping(reading' + k - 1) = Wrapping(reading + j - 1)
        /\ Wrapping(reading' + k + 1 - Capacity) = Wrapping(reading + j + 1 - Capacity)
    <3>1. ASSUME NEW d \in Int PROVE Wrapping(reading' + k + d) = Wrapping(reading + j + d)
      <4> DEFINE e == k + d
      <4>1. e \in Int /\ reading' + k + d = reading' + e /\ reading + 1 + e = reading + j + d
        BY <1>1, <2>1
      <4>2. Wrapping(reading' + e) = Wrapping(reading + 1 + e)
        <5> HIDE DEF e
        <5> QED BY <4>1, <1>4
      <4> QED BY <4>1, <4>2
    <3>2. 1 \in Int /\ -1 \in Int /\ 1 - Capacity \in Int
      BY <2>1
    <3>3. /\ reading' + k - 1 = reading' + k + (-1) /\ reading + j - 1 = reading + j + (-1)
          /\ reading' + k + 1 - Capacity = reading' + k + (1 - Capacity)
          /\ reading + j + 1 - Capacity = reading + j + (1 - Capacity)
      BY <1>1, <2>1
    <3>4. /\ Wrapping(reading' + k + 1) = Wrapping(reading + j + 1)
          /\ Wrapping(reading' + k + (-1)) = Wrapping(reading + j + (-1))
          /\ Wrapping(reading' + k + (1 - Capacity)) = Wrapping(reading + j + (1 - Capacity))
      <4> HIDE DEF j
      <4> QED BY <3>1, <3>2
    <3> QED BY <3>3, <3>4
  <2>4. CASE k < Capacity - 1
    <3>1. j \in Slots
      BY <2>4, Sizes DEF Slots
    <3>2. IF j < Filled THEN seq[Slot(reading + j)] = Wrapping(reading + j + 1)
          ELSE seq[Slot(reading + j)] \in {Wrapping(reading + j + 1 - Capacity),
                                            Wrapping(reading + j - 1)}
      <4> HIDE DEF j
      <4> QED BY <3>1 DEF SlotsAreStamped, PublishedSeq, OldSeqs
    <3> HIDE DEF j
    <3> QED BY <2>1, <2>2, <2>3, <3>2
  <2>5. CASE ~(k < Capacity - 1)
    <3>1. j = Capacity
      BY <2>5, Sizes DEF Slots
    <3>2. Slot(reading + j) = Slot(reading)
      <4>1. (reading + Capacity) % Capacity = reading % Capacity
        BY <1>1, Sizes, RemainderPlusDivisor
      <4> QED BY <3>1, <4>1 DEF Slot
    <3>3. seq[Slot(reading)] = Wrapping(reading + 1)
      <4>1. seq[Slot(reading + 0)] = Wrapping(reading + 0 + 1)
        BY <1>2, <2>1 DEF SlotsAreStamped, PublishedSeq
      <4> QED BY <4>1, <1>1
    <3>4. reading + j + 1 - Capacity = reading + 1
      BY <1>1, <2>1, <3>1
    <3>5. ~(k < Filled')
      BY <1>2, <2>1, <3>1
    <3> HIDE DEF j
    <3> QED BY <2>2, <2>3, <3>2, <3>3, <3>4, <3>5
  <2> QED BY <2>4, <2>5
<1>9. ppc \in {"write", "publish"} => ~LooksFull(position, cachedHead)
  BY DEF CallsAreJustified
<1> QED BY <1>1, <1>2, <1>3, <1>4, <1>5, <1>7, <1>8, <1>9 DEF CallsAreJustified, LooksFull

(* Every step of either side preserves the invariant. *)
LEMMA NextIInv ==
  ASSUME IInv, [RingNext]_ringVars
  PROVE  IInv'
<1>1. CASE UNCHANGED ringVars
  BY <1>1 DEF ringVars, producerVars, consumerVars, IInv, RingTypeOK, CachedHeadIsBehind, Filled,
              SlotsAreStamped, PublishedSeq, OldSeqs, CallsAreJustified
<1>2. CASE RingNext
  BY <1>2, PushCallIInv, PushLoadHeadIInv, PushWriteIInv, PushPublishIInv,
     PopLoadSeqIInv, PopReadIInv, PopFreeIInv DEF RingNext
<1> QED BY <1>1, <1>2

(* The invariant holds throughout. *)
THEOREM RingInvariant == RingSpec => []IInv
<1>1. RingInit => IInv
  BY InitIInv
<1>2. IInv /\ [RingNext]_ringVars => IInv'
  BY NextIInv
<1> QED BY <1>1, <1>2, PTL DEF RingSpec

(* push and pop keep the ring's fields well-formed. *)
THEOREM RingTypeCorrect == RingSpec => []RingTypeOK
<1>1. IInv => RingTypeOK
  BY DEF IInv
<1> QED BY <1>1, RingInvariant, PTL

(* The producer never writes the slot the consumer may be reading: the     *)
(* SAFETY comments of push and pop.                                        *)
THEOREM RingNoSlotRace == RingSpec => []NoSlotRace
<1>1. IInv => NoSlotRace
  <2> SUFFICES ASSUME IInv, ppc = "write", cpc \in {"read", "free"}
               PROVE  Slot(position) # Slot(reading)
    BY DEF NoSlotRace
  <2>1. Filled > 0
    BY DEF IInv, CallsAreJustified
  <2>2. Filled < Capacity
    BY CachedRoom DEF IInv, CallsAreJustified
  <2> QED BY <2>1, <2>2, SidesAreApart DEF IInv
<1> QED BY <1>1, RingInvariant, PTL

-----------------------------------------------------------------------------
(***************************************************************************)
(* The ring is a bounded queue.                                            *)
(***************************************************************************)

(* The queue is a sequence, as long as the ring is filled. *)
QueueIsSeq ==
  /\ Queue \in Seq(Values \cup {Nothing})
  /\ Len(Queue) = Filled /\ Filled \in 0 .. Capacity
  /\ \A k \in 1 .. Filled : Queue[k] = value[Slot(reading + k - 1)]

(* By the invariant it always is. *)
LEMMA QueueShape == IInv => QueueIsSeq
<1> SUFFICES ASSUME IInv PROVE QueueIsSeq
  OBVIOUS
<1>1. Filled \in Nat /\ Filled <= Capacity
  BY FilledIsDistance, CachedRoom DEF IInv
<1>2. \A k \in 1 .. Filled : value[Slot(reading + k - 1)] \in Values \cup {Nothing}
  <2> TAKE k \in 1 .. Filled
  <2>1. reading + k - 1 \in Int
    BY <1>1, Sizes DEF IInv, RingTypeOK, Positions
  <2>2. Slot(reading + k - 1) \in Slots
    BY <2>1, SlotInRange
  <2> QED BY <2>2 DEF IInv, RingTypeOK
<1>3. Queue = [k \in 1 .. Filled |-> value[Slot(reading + k - 1)]]
  BY DEF Queue, Filled
<1> QED BY <1>1, <1>2, <1>3, Sizes DEF QueueIsSeq

(* The queue after a step that leaves the filled slots alone. *)
LEMMA QueueUnchanged ==
  ASSUME position' = position, reading' = reading,
         \A k \in 1 .. Filled : value'[Slot(reading + k - 1)] = value[Slot(reading + k - 1)]
  PROVE  Queue' = Queue
BY DEF Queue, Filled

(* The write goes to a slot that is not in the queue. *)
LEMMA PushWriteQueue ==
  ASSUME IInv, PushWrite
  PROVE  Queue' = Queue
<1>1. reading \in Int /\ position \in Int
  BY Sizes DEF IInv, RingTypeOK, Positions
<1>2. Filled \in Nat /\ Filled < Capacity
  BY FilledIsDistance, CachedRoom DEF IInv, CallsAreJustified, PushWrite
<1>3. Slot(position) = Slot(reading + Filled)
  <2>1. Slot(position + 0) = Slot(reading + Filled + 0)
    BY FilledIsDistance DEF IInv
  <2> QED BY <1>1, <1>2, <2>1
<1>4. ASSUME NEW k \in 1 .. Filled
      PROVE  value'[Slot(reading + k - 1)] = value[Slot(reading + k - 1)]
  <2> DEFINE j == k - 1
  <2>1. j \in Slots /\ Filled \in Slots /\ j # Filled /\ reading + k - 1 = reading + j
    BY <1>1, <1>2, Sizes DEF Slots
  <2>2. Slot(reading + j) # Slot(reading + Filled)
    <3> HIDE DEF j
    <3> QED BY <1>1, <2>1, SlotsAreDistinct
  <2>3. Slot(reading + k - 1) # Slot(position)
    BY <1>3, <2>1, <2>2
  <2> QED BY <2>3 DEF PushWrite, IInv, RingTypeOK
<1> QED BY <1>4, QueueUnchanged DEF PushWrite, consumerVars

(* Publishing a slot appends its value to the queue. *)
LEMMA PushPublishQueue ==
  ASSUME IInv, PushPublish
  PROVE  /\ Len(Queue) < Capacity
         /\ Queue' = Append(Queue, item)
         /\ item \in Values
<1>1. Filled' = Filled + 1 /\ Slot(position) = Slot(reading + Filled) /\ IInv'
  BY PushPublishIInv
<1>2. Filled \in Nat /\ Filled < Capacity /\ reading \in Int
  <2>1. Filled \in Nat /\ Filled < Capacity
    BY FilledIsDistance, CachedRoom DEF IInv, CallsAreJustified, PushPublish
  <2> QED BY <2>1, Sizes DEF IInv, RingTypeOK, Positions
<1>3. QueueIsSeq /\ QueueIsSeq'
  <2>1. IInv' => QueueIsSeq'
    BY QueueShape, PTL
  <2> QED BY <1>1, <2>1, QueueShape
<1>4. item \in Values /\ value[Slot(reading + Filled)] = item
  BY <1>1 DEF IInv, CallsAreJustified, PushPublish
<1>5. ASSUME NEW k \in 1 .. Filled + 1
      PROVE  Queue'[k] = IF k <= Filled THEN Queue[k] ELSE item
  <2>1. Queue'[k] = value[Slot(reading + k - 1)]
    BY <1>1, <1>3 DEF PushPublish, consumerVars, QueueIsSeq
  <2>2. CASE k <= Filled
    BY <1>2, <1>3, <2>1, <2>2 DEF QueueIsSeq
  <2>3. CASE ~(k <= Filled)
    <3>1. reading + k - 1 = reading + Filled
      BY <1>2, <2>3
    <3> QED BY <2>1, <2>3, <3>1, <1>4
  <2> QED BY <2>2, <2>3
<1>6. /\ Queue \in Seq(Values \cup {Nothing}) /\ Len(Queue) = Filled
      /\ Queue' \in Seq(Values \cup {Nothing}) /\ Len(Queue') = Filled + 1
  BY <1>1, <1>3 DEF QueueIsSeq
<1>7. Queue' = Append(Queue, item)
  BY <1>2, <1>4, <1>5, <1>6
<1> QED BY <1>2, <1>4, <1>6, <1>7

(* Freeing a slot takes its value off the front of the queue. *)
LEMMA PopFreeQueue ==
  ASSUME IInv, PopFree
  PROVE  /\ Queue # <<>>
         /\ popped' = Head(Queue)
         /\ Queue' = Tail(Queue)
<1>1. /\ IInv' /\ Filled > 0 /\ Filled' = Filled - 1
      /\ \A k \in Int : Slot(reading' + k) = Slot(reading + 1 + k)
  BY PopFreeIInv
<1>2. QueueIsSeq /\ QueueIsSeq'
  <2>1. IInv' => QueueIsSeq'
    BY QueueShape, PTL
  <2> QED BY <1>1, <2>1, QueueShape
<1>3. Filled \in Nat /\ reading \in Int /\ reading' \in Int
  <2>1. reading' \in Positions /\ reading \in Positions
    BY <1>1 DEF IInv, RingTypeOK
  <2> QED BY <1>2, <2>1, Sizes DEF QueueIsSeq, Positions
<1>4. /\ Queue \in Seq(Values \cup {Nothing}) /\ Len(Queue) = Filled
      /\ Queue' \in Seq(Values \cup {Nothing}) /\ Len(Queue') = Filled - 1
  BY <1>1, <1>2 DEF QueueIsSeq
<1>5. popped' = Queue[1]
  <2>1. 1 \in 1 .. Filled /\ reading + 1 - 1 = reading
    BY <1>1, <1>3
  <2>2. popped' = value[Slot(reading)]
    BY DEF PopFree, IInv, CallsAreJustified
  <2> QED BY <2>1, <2>2, <1>2 DEF QueueIsSeq
<1>6. ASSUME NEW k \in 1 .. Filled - 1
      PROVE  Queue'[k] = Queue[k + 1]
  <2> DEFINE j == k - 1
  <2>1. /\ j \in Int /\ reading' + k - 1 = reading' + j
        /\ reading + 1 + j = reading + (k + 1) - 1
        /\ k + 1 \in 1 .. Filled
    BY <1>3
  <2>2. Slot(reading' + j) = Slot(reading + 1 + j)
    <3> HIDE DEF j
    <3> QED BY <1>1, <2>1
  <2>3. Queue'[k] = value[Slot(reading' + k - 1)]
    BY <1>1, <1>2 DEF QueueIsSeq, PopFree
  <2>4. Queue[k + 1] = value[Slot(reading + (k + 1) - 1)]
    BY <1>2, <2>1 DEF QueueIsSeq
  <2> QED BY <2>1, <2>2, <2>3, <2>4
<1>7. Queue' = Tail(Queue)
  <2> DEFINE t == Tail(Queue)
  <2>1. t \in Seq(Values \cup {Nothing}) /\ Len(t) = Filled - 1
    BY <1>1, <1>3, <1>4
  <2>2. \A k \in 1 .. Filled - 1 : t[k] = Queue[k + 1]
    BY <1>1, <1>3, <1>4
  <2> HIDE DEF t
  <2>3. Queue' = t
    BY <1>3, <1>4, <1>6, <2>1, <2>2
  <2> QED BY <2>3 DEF t
<1> QED BY <1>1, <1>3, <1>4, <1>5, <1>7

(* Every step of the ring is a step of the queue, or leaves it alone.      *)
(* push and pop take effect when they publish and free a slot; push fails  *)
(* when it finds the real head a lap behind, and pop when it finds an old        *)
(* sequence number.                                                        *)
LEMMA StepsImplementFifo ==
  ASSUME IInv, [RingNext]_ringVars
  PROVE  [Abstract!Next]_<<Queue, pushed, popped>>
<1>1. ASSUME NEW v \in Values, PushCall(v) PROVE UNCHANGED <<Queue, pushed, popped>>
  BY <1>1, QueueUnchanged DEF PushCall, consumerVars
<1>2. ASSUME PushLoadHead PROVE Abstract!PushFull \/ UNCHANGED <<Queue, pushed, popped>>
  <2>1. Queue' = Queue /\ popped' = popped
    BY <1>2, QueueUnchanged DEF PushLoadHead, consumerVars
  <2>2. CASE LooksFull(position, sharedHead)
    <3>1. Filled >= Capacity /\ Len(Queue) = Filled /\ Filled \in 0 .. Capacity
      BY <2>2, QueueShape DEF LooksFull, Filled, IInv, CachedHeadIsBehind, QueueIsSeq
    <3>2. Len(Queue) = Capacity
      BY <3>1, Sizes
    <3> QED BY <1>2, <2>1, <2>2, <3>2 DEF PushLoadHead, Abstract!PushFull
  <2>3. CASE ~LooksFull(position, sharedHead)
    BY <1>2, <2>1, <2>3 DEF PushLoadHead
  <2> QED BY <2>2, <2>3
<1>3. ASSUME PushWrite PROVE UNCHANGED <<Queue, pushed, popped>>
  BY <1>3, PushWriteQueue DEF PushWrite, consumerVars
<1>4. ASSUME PushPublish PROVE \E v \in Values : Abstract!Push(v)
  BY <1>4, PushPublishQueue DEF PushPublish, consumerVars, Abstract!Push
<1>5. ASSUME PopLoadSeq PROVE Abstract!PopNothing \/ UNCHANGED <<Queue, pushed, popped>>
  <2>1. Queue' = Queue /\ pushed' = pushed
    BY <1>5, QueueUnchanged DEF PopLoadSeq, producerVars
  <2>2. CASE cpc' = "idle"
    <3>1. Len(Queue) = 0 /\ Queue \in Seq(Values \cup {Nothing})
      BY <1>5, <2>2, PopLoadSeqIInv, QueueShape DEF QueueIsSeq
    <3>2. Queue = <<>>
      BY <3>1
    <3> QED BY <1>5, <2>1, <2>2, <3>2 DEF PopLoadSeq, Abstract!PopNothing
  <2>3. CASE cpc' # "idle"
    BY <1>5, <2>1, <2>3 DEF PopLoadSeq
  <2> QED BY <2>2, <2>3
<1>6. ASSUME PopRead PROVE UNCHANGED <<Queue, pushed, popped>>
  BY <1>6, QueueUnchanged DEF PopRead, producerVars
<1>7. ASSUME PopFree PROVE Abstract!Pop
  BY <1>7, PopFreeQueue DEF PopFree, producerVars, Abstract!Pop
<1>8. ASSUME UNCHANGED ringVars PROVE UNCHANGED <<Queue, pushed, popped>>
  BY <1>8, QueueUnchanged DEF ringVars, producerVars, consumerVars
<1> QED
  BY <1>1, <1>2, <1>3, <1>4, <1>5, <1>6, <1>7, <1>8 DEF RingNext, Abstract!Next

(* The ring implements the bounded queue: whatever the interleaving of     *)
(* push and pop, each value pushed is popped once, in order and whole,     *)
(* "full" is always exact, and so is "empty".                              *)
THEOREM RingImplementsFifo == RingSpec => ImplementsFifo
<1>1. RingInit => Abstract!Init
  <2> SUFFICES ASSUME RingInit PROVE Abstract!Init
    OBVIOUS
  <2>1. Wrapping(position - reading) = 0
    BY WrappingInRange, Sizes DEF RingInit, Positions
  <2>2. Queue = <<>>
    BY <2>1 DEF Queue
  <2> QED BY <2>2 DEF RingInit, Abstract!Init
<1>2. IInv /\ [RingNext]_ringVars => [Abstract!Next]_<<Queue, pushed, popped>>
  BY StepsImplementFifo
<1> QED
  BY <1>1, <1>2, RingInvariant, PTL DEF RingSpec, ImplementsFifo, Abstract!Spec

=============================================================================
