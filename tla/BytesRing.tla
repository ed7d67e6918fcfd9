------------------------------ MODULE BytesRing ------------------------------
(***************************************************************************)
(* bowst-core: the ring of variable-length records (bytes_ring.rs) between *)
(* a thread that calls ByteProducer::write_with and one that calls         *)
(* ByteConsumer::read_with.  One action is one access to shared memory.    *)
(*                                                                         *)
(* Memory is counted in words of ALIGN bytes: a header fills one word, and *)
(* padded() rounds every payload up to whole words.  A record is the       *)
(* sequence of its words.  A word is a number, a length if it is read as a *)
(* header, so payloads may look like headers.  Counters wrap at Wrap.      *)
(* Atomics are sequentially consistent; NoRegionRace is what makes that    *)
(* enough for the bytes.                                                   *)
(***************************************************************************)
EXTENDS Integers, Sequences

CONSTANTS
  Values,        \* the words a payload is made of
  Payloads,      \* what write_with is called with; longer than max_record too
  Capacity,      \* in words
  Wrap,          \* usize::MAX + 1
  Nothing,       \* Option::None
  Pending        \* no answer yet

(* channel() refuses any other capacity: a power of two from MIN_CAPACITY  *)
(* (8 words) on.                                                           *)
ASSUME BytesCapacityAssumption ==
  /\ Capacity \in Nat /\ Capacity >= 8 /\ Capacity % 2 = 0
  /\ Wrap \in Nat /\ Wrap > Capacity /\ Wrap % Capacity = 0

ASSUME WordsAssumption == Values \subseteq Nat /\ Payloads \subseteq Seq(Values)

VARIABLES
  buf,                         \* Shared::buf
  sharedHead, sharedTail,      \* Shared::head, Shared::tail
  tail, cachedHead,            \* ByteProducer
  head, cachedTail,            \* ByteConsumer
  ppc, cpc,                    \* where each side is in its call
  item,                        \* the record being written
  len, taken,                  \* the header and the payload read
  written, popped,             \* what the last calls returned
  queue                        \* history: the records published and not yet removed

byteProducerVars == <<tail, cachedHead, ppc, item, written>>
consumerVars == <<head, cachedTail, cpc, len, taken, popped>>
bytesVars == <<buf, sharedHead, sharedTail, byteProducerVars, consumerVars, queue>>

Indices == 0 .. Capacity - 1

(* WRAP: a length no record has. *)
WrapMark == Capacity

(* Mutant: a record may use up the whole capacity. *)
MaxRecordWhole == Capacity - 1

(* ByteProducer::max_record *)
MaxRecord == (Capacity \div 2) - 1

Records == {r \in Payloads : Len(r) <= MaxRecord}

(* wrapping_add and wrapping_sub *)
Wrapping(n) == n % Wrap

(* position & mask *)
Index(pos) == pos % Capacity

(* HEADER + padded(len) *)
Size(n) == n + 1

(* The words that do not fit before the end of the buffer are skipped. *)
ToEnd(pos) == Capacity - Index(pos)

(* Mutant: the header is forgotten. *)
SkipLate(n) == IF n > ToEnd(tail) THEN ToEnd(tail) ELSE 0

Skip(n) == IF Size(n) > ToEnd(tail) THEN ToEnd(tail) ELSE 0

StartsAt(n) == IF Skip(n) > 0 THEN 0 ELSE Index(tail)

Needed(n) == Skip(n) + Size(n)

(* Mutant: one word more is free than there is. *)
NoRoomLate(n, h) == Capacity - Wrapping(tail - h) + 1 < Needed(n)

NoRoom(n, h) == Capacity - Wrapping(tail - h) < Needed(n)

(* channel *)
BytesInit ==
  /\ buf = [k \in Indices |-> 0]
  /\ sharedHead = 0
  /\ sharedTail = 0
  /\ tail = 0
  /\ cachedHead = 0
  /\ head = 0
  /\ cachedTail = 0
  /\ ppc = "idle"
  /\ cpc = "idle"
  /\ item = Nothing
  /\ len = 0
  /\ taken = <<>>
  /\ written = Pending
  /\ popped = Pending
  /\ queue = <<>>

(***************************************************************************)
(* ByteProducer::write_with                                                *)
(***************************************************************************)
WriteTooLarge ==
  /\ ppc = "idle"
  /\ \E r \in Payloads : Len(r) > MaxRecord
  /\ written' = "TooLarge"
  /\ UNCHANGED <<buf, sharedHead, sharedTail, tail, cachedHead, ppc, item, consumerVars, queue>>

AfterRoom(n) == IF Skip(n) > 0 THEN "mark" ELSE "fill"

WriteCall(r) ==
  /\ ppc = "idle"
  /\ item' = r
  /\ written' = Pending
  /\ ppc' = IF NoRoom(Len(r), cachedHead) THEN "load" ELSE AfterRoom(Len(r))
  /\ UNCHANGED <<buf, sharedHead, sharedTail, tail, cachedHead, consumerVars, queue>>

WriteLoadHead ==
  /\ ppc = "load"
  /\ cachedHead' = sharedHead
  /\ IF NoRoom(Len(item), sharedHead)
       THEN ppc' = "idle" /\ item' = Nothing /\ written' = "Full"
       ELSE ppc' = AfterRoom(Len(item)) /\ UNCHANGED <<item, written>>
  /\ UNCHANGED <<buf, sharedHead, sharedTail, tail, consumerVars, queue>>

WriteMark ==
  /\ ppc = "mark"
  /\ buf' = [buf EXCEPT ![Index(tail)] = WrapMark]
  /\ ppc' = "fill"
  /\ UNCHANGED <<sharedHead, sharedTail, tail, cachedHead, item, written, consumerVars, queue>>

(* region and region_mut: a region that runs past the end stops the thread. *)
Payload(start, n) == (start + 1) .. (start + n)

WriteFill ==
  /\ ppc = "fill"
  /\ Payload(StartsAt(Len(item)), Len(item)) \subseteq Indices
  /\ buf' = [k \in Indices |->
               IF k \in Payload(StartsAt(Len(item)), Len(item))
                 THEN item[k - StartsAt(Len(item))] ELSE buf[k]]
  /\ ppc' = "header"
  /\ UNCHANGED <<sharedHead, sharedTail, tail, cachedHead, item, written, consumerVars, queue>>

WriteHeader ==
  /\ ppc = "header"
  /\ buf' = [buf EXCEPT ![StartsAt(Len(item))] = Len(item)]
  /\ ppc' = "publish"
  /\ UNCHANGED <<sharedHead, sharedTail, tail, cachedHead, item, written, consumerVars, queue>>

(* Mutant: the skipped words are not counted. *)
WritePublishUnskipped ==
  /\ ppc = "publish"
  /\ tail' = Wrapping(tail + Size(Len(item)))
  /\ sharedTail' = tail'
  /\ ppc' = "idle"
  /\ item' = Nothing
  /\ written' = "Ok"
  /\ queue' = Append(queue, item)
  /\ UNCHANGED <<buf, sharedHead, cachedHead, consumerVars>>

WritePublish ==
  /\ ppc = "publish"
  /\ tail' = Wrapping(tail + Needed(Len(item)))
  /\ sharedTail' = tail'
  /\ ppc' = "idle"
  /\ item' = Nothing
  /\ written' = "Ok"
  /\ queue' = Append(queue, item)
  /\ UNCHANGED <<buf, sharedHead, cachedHead, consumerVars>>

(***************************************************************************)
(* ByteConsumer::read_with                                                 *)
(***************************************************************************)
ReadCall ==
  /\ cpc = "idle"
  /\ popped' = Pending
  /\ cpc' = IF head = cachedTail THEN "load" ELSE "header"
  /\ UNCHANGED <<buf, sharedHead, sharedTail, byteProducerVars, head, cachedTail, len, taken, queue>>

ReadLoadTail ==
  /\ cpc = "load"
  /\ cachedTail' = sharedTail
  /\ IF head = sharedTail
       THEN cpc' = "idle" /\ popped' = Nothing
       ELSE cpc' = "header" /\ UNCHANGED popped
  /\ UNCHANGED <<buf, sharedHead, sharedTail, byteProducerVars, head, len, taken, queue>>

ReadHeader ==
  /\ cpc = "header"
  /\ len' = buf[Index(head)]
  /\ cpc' = IF len' = WrapMark THEN "skip" ELSE "payload"
  /\ UNCHANGED <<buf, sharedHead, sharedTail, byteProducerVars, head, cachedTail, taken, popped, queue>>

(* The wrap marker: continue at the start of the buffer. *)
ReadSkip ==
  /\ cpc = "skip"
  /\ head' = Wrapping(head + ToEnd(head))
  /\ sharedHead' = head'
  /\ cpc' = IF head' = cachedTail THEN "load" ELSE "header"
  /\ len' = 0
  /\ UNCHANGED <<buf, sharedTail, byteProducerVars, cachedTail, taken, popped, queue>>

ReadPayload ==
  /\ cpc = "payload"
  /\ Payload(Index(head), len) \subseteq Indices
  /\ taken' = [k \in 1 .. len |-> buf[Index(head) + k]]
  /\ cpc' = "free"
  /\ UNCHANGED <<buf, sharedHead, sharedTail, byteProducerVars, head, cachedTail, len, popped, queue>>

ReadFree ==
  /\ cpc = "free"
  /\ head' = Wrapping(head + Size(len))
  /\ sharedHead' = head'
  /\ cpc' = "idle"
  /\ popped' = taken
  /\ taken' = <<>>
  /\ len' = 0
  /\ queue' = SubSeq(queue, 2, Len(queue))
  /\ UNCHANGED <<buf, sharedTail, byteProducerVars, cachedTail>>

BytesNext ==
  \/ WriteTooLarge \/ (\E r \in Records : WriteCall(r)) \/ WriteLoadHead
  \/ WriteMark \/ WriteFill \/ WriteHeader \/ WritePublish
  \/ ReadCall \/ ReadLoadTail \/ ReadHeader \/ ReadSkip \/ ReadPayload \/ ReadFree

(* The journal's writer thread keeps reading. *)
Reading == ReadCall \/ ReadLoadTail \/ ReadHeader \/ ReadSkip \/ ReadPayload \/ ReadFree

BytesSpec == BytesInit /\ [][BytesNext]_bytesVars /\ WF_bytesVars(Reading)

-----------------------------------------------------------------------------
(***************************************************************************)
(* Properties.                                                             *)
(***************************************************************************)
Positions == 0 .. Wrap - 1

Words == Values \cup (0 .. MaxRecord) \cup {WrapMark}

BytesTypeOK ==
  /\ buf \in [Indices -> Words]
  /\ {sharedHead, sharedTail, tail, cachedHead, head, cachedTail} \subseteq Positions
  /\ ppc \in {"idle", "load", "mark", "fill", "header", "publish"}
  /\ cpc \in {"idle", "load", "header", "skip", "payload", "free"}
  /\ item \in Records \cup {Nothing}
  /\ len \in (0 .. MaxRecord) \cup {WrapMark}
  /\ taken \in Records \cup {<<>>}
  /\ written \in {"Ok", "Full", "TooLarge", Pending}
  /\ popped \in Records \cup {Nothing, Pending}
  /\ queue \in Seq(Records)

(* The words each side is about to access, or holds while its closure runs. *)
ProducerRegion ==
  CASE ppc = "mark"   -> {Index(tail)}
    [] ppc = "fill"   -> Payload(StartsAt(Len(item)), Len(item))
    [] ppc = "header" -> {StartsAt(Len(item))}
    [] OTHER          -> {}

ConsumerRegion ==
  CASE cpc = "header"            -> {Index(head)}
    [] cpc \in {"payload", "free"} -> Payload(Index(head), len)
    [] OTHER                     -> {}

(* The SAFETY comments: neither side touches words the other is using,     *)
(* although both decide by positions they cached.                          *)
NoRegionRace == ProducerRegion \cap ConsumerRegion = {}

(* "ring region out of bounds: invariant violated" is never reached: no    *)
(* record straddles the end of the buffer, and the consumer never takes a  *)
(* payload for a header.                                                   *)
RegionsInBounds == ProducerRegion \cup ConsumerRegion \subseteq Indices

(* The ring is a queue of records: what is written is read once, in order, *)
(* whole and unchanged, however records of different lengths wrap around   *)
(* the buffer, and whatever is in them.  A record up to max_record is      *)
(* never refused by a ring whose consumer has caught up, and a consumer    *)
(* never finds a ring empty that is not.                                   *)
Promised == INSTANCE RecordQueue

ImplementsRecordQueue == Promised!Spec

(* A reader that keeps calling read_with never stands still before a       *)
(* record: again and again it is at the end of one, or the ring is empty.  *)
(* It does not lose step with the producer at a wrap marker, where it goes *)
(* round its loop without an answer.                                       *)
ReaderNeverStalls == []<>(cpc = "free" \/ queue = <<>>)

=============================================================================
