---------------------------- MODULE BookSyncProofs ----------------------------
(***************************************************************************)
(* Proofs about BookSync, for every set of prices and quantities, every    *)
(* buffer size and every number of venue updates.                          *)
(***************************************************************************)
EXTENDS BookSync, FiniteSetTheorems, NatLemmas, TLAPS

(***************************************************************************)
(* Least and greatest elements: the induction used below.                  *)
(***************************************************************************)

(* Every non-empty set of positions up to n has a greatest element: the    *)
(* last buffered message that sets a level exists.                         *)
LEMMA GreatestPosition ==
  ASSUME NEW n \in Nat, NEW S \in SUBSET (1 .. n), S # {}
  PROVE  \E x \in S : \A y \in S : y <= x
<1> DEFINE T == {k \in Nat : n - k \in S}
<1>1. PICK s \in S : TRUE
  OBVIOUS
<1>2. n - s \in T
  BY <1>1
<1>3. PICK k \in T : \A y \in T : k <= y
  BY <1>2, LeastNat
<1>4. \A y \in S : n - y \in T
  OBVIOUS
<1>5. \A y \in S : y <= n - k
  BY <1>3, <1>4
<1> QED
  BY <1>3, <1>5

-----------------------------------------------------------------------------
(***************************************************************************)
(* The inductive invariant.                                                *)
(***************************************************************************)

(* The buffered deltas msgs carry what the venue sent, unaltered. *)
VenueData(msgs) ==
  \A i \in 1 .. Len(msgs) :
    /\ msgs[i].last <= now
    /\ msgs[i].updates = [l \in Changed(msgs[i].first, msgs[i].last) |->
                            venue[msgs[i].last][l]]

(* msgs is one strictly advancing, unbroken chain. *)
IsChain(msgs) ==
  /\ \A i, j \in 1 .. Len(msgs) : i < j => msgs[i].last < msgs[j].last
  /\ \A i \in 1 .. (Len(msgs) - 1) : Continues(msgs[i + 1], msgs[i].last)

(* A sync that is not live has a cleared book. *)
HiddenBookIsEmpty == ~live => book = EmptyBook /\ last = 0

IInv ==
  /\ TypeOK
  /\ VenueData(pending.messages)
  /\ PendingIsOneChain
  /\ LiveBookIsVenueBook
  /\ HiddenBookIsEmpty

-----------------------------------------------------------------------------
(***************************************************************************)
(* The venue's deltas.                                                     *)
(***************************************************************************)

(* A delta the venue sends is a well-formed message. *)
LEMMA DeltaIsMessage ==
  ASSUME TypeOK, NEW first \in 1 .. now, NEW to \in 1 .. now, first <= to,
         NEW invalid \in BOOLEAN
  PROVE  Delta(first, to, invalid) \in Message
<1> DEFINE D == Changed(first, to)
           u == [l \in D |-> venue[to][l]]
<1>1. D \in SUBSET Level
  BY DEF Changed
<1>2. venue[to] \in Book
  BY DEF TypeOK
<1>3. u \in [D -> Qtys]
  BY <1>1, <1>2 DEF Book
<1>4. u \in UNION {[E -> Qtys] : E \in SUBSET Level}
  BY <1>1, <1>3
<1>5. first \in 1 .. MaxSeq /\ to \in 1 .. MaxSeq
  BY MaxSeqAssumption DEF TypeOK
<1> QED
  BY <1>4, <1>5 DEF Message, Delta

(* A buffered message covers a range of venue updates. *)
LEMMA MessageFields ==
  ASSUME NEW m \in Message
  PROVE  /\ m.first \in Nat /\ m.last \in Nat /\ m.first >= 1
         /\ m.first <= m.last /\ m.last <= MaxSeq
         /\ m.invalid \in BOOLEAN
BY MaxSeqAssumption DEF Message

(* A delta that joins on to the book at n moves every level to its         *)
(* quantity at the delta's end: absolute quantities make overlap harmless. *)
LEMMA DeltaReaches ==
  ASSUME NEW first, NEW to, NEW n \in (first - 1) .. to, NEW l \in Level,
         l \notin Changed(first, to)
  PROVE  venue[n][l] = venue[to][l]
BY DEF Changed

(* Applying a delta that joins on to the book at n gives the venue's book  *)
(* at the delta's end.                                                     *)
LEMMA ApplyReaches ==
  ASSUME TypeOK, NEW first \in 1 .. now, NEW to \in 1 .. now,
         NEW n \in (first - 1) .. to, n \in 0 .. now
  PROVE  Apply(venue[n], [l \in Changed(first, to) |-> venue[to][l]]) = venue[to]
<1> DEFINE u == [l \in Changed(first, to) |-> venue[to][l]]
<1>1. venue[to] \in Book /\ venue[n] \in Book
  BY DEF TypeOK
<1>2. \A l \in Level : Apply(venue[n], u)[l] = venue[to][l]
  <2> TAKE l \in Level
  <2>1. CASE l \in Changed(first, to)
    BY <2>1 DEF Apply
  <2>2. CASE l \notin Changed(first, to)
    <3>1. venue[n][l] = venue[to][l]
      BY <2>2, DeltaReaches
    <3>2. Apply(venue[n], u)[l] = venue[n][l]
      BY <2>2 DEF Apply
    <3> QED
      BY <3>1, <3>2
  <2> QED
    BY <2>1, <2>2
<1> QED
  BY <1>1, <1>2 DEF Apply, Book

-----------------------------------------------------------------------------
(***************************************************************************)
(* The replay loop of on_snapshot.                                         *)
(***************************************************************************)

(* On a chain, the messages the loop does not skip are the ones that end   *)
(* after the snapshot.                                                     *)
LEMMA UsedOnChain ==
  ASSUME NEW msgs \in Seq(Message), IsChain(msgs), NEW seq \in Nat,
         NEW i \in 1 .. Len(msgs)
  PROVE  Used(msgs, seq, i) <=> msgs[i].last > seq
<1>1. \A j \in 1 .. Len(msgs) : msgs[j].last \in Nat
  BY MessageFields
<1>2. \A j \in 1 .. (i - 1) : msgs[j].last < msgs[i].last
  BY DEF IsChain
<1> QED
  BY <1>1, <1>2 DEF Used, Ends

(* A loop that no message stops meets no unreachable and no invalid one. *)
LEMMA NoStop ==
  ASSUME NEW msgs \in Seq(Message), NEW seq \in Nat,
         \A i \in 1 .. Len(msgs) : ~StopsAt(msgs, seq, i)
  PROVE  \A i \in 1 .. Len(msgs) :
           ~Unreachable(msgs, seq, i) /\ ~InvalidUse(msgs, seq, i)
<1> DEFINE T == {i \in 1 .. Len(msgs) :
                   Unreachable(msgs, seq, i) \/ InvalidUse(msgs, seq, i)}
<1>1. SUFFICES ASSUME T # {} PROVE FALSE
  OBVIOUS
<1>2. T \in SUBSET Nat
  OBVIOUS
<1>3. PICK i \in T : \A j \in T : i <= j
  BY <1>1, <1>2, LeastNat
<1>4. i \in 1 .. Len(msgs)
  OBVIOUS
<1>5. \A j \in 1 .. (i - 1) : j \in 1 .. Len(msgs) /\ j \notin T
  BY <1>3, <1>4
<1>6. StopsAt(msgs, seq, i)
  BY <1>3, <1>5 DEF StopsAt
<1> QED
  BY <1>4, <1>6

(* The first message the loop uses joins on to the snapshot; every later   *)
(* one joins on to the message before it.                                  *)
LEMMA UsedReachable ==
  ASSUME NEW msgs \in Seq(Message), IsChain(msgs), NEW seq \in Nat,
         NEW i \in 1 .. Len(msgs), msgs[i].last > seq,
         ~Unreachable(msgs, seq, i)
  PROVE  IF i > 1 /\ msgs[i - 1].last > seq
           THEN msgs[i - 1].last \in (msgs[i].first - 1) .. msgs[i].last
           ELSE seq \in (msgs[i].first - 1) .. msgs[i].last
<1>1. \A j \in 1 .. Len(msgs) : msgs[j].last \in Nat /\ msgs[j].first \in Nat
  BY MessageFields
<1>2. CASE i > 1 /\ msgs[i - 1].last > seq
  <2>1. i - 1 \in 1 .. (Len(msgs) - 1) /\ i - 1 \in 1 .. Len(msgs) /\ i - 1 < i /\ (i - 1) + 1 = i
    BY <1>2
  <2>2. msgs[i - 1].last < msgs[i].last /\ Continues(msgs[i], msgs[i - 1].last)
    BY <2>1 DEF IsChain
  <2> QED
    BY <1>1, <1>2, <2>1, <2>2 DEF Continues
<1>3. CASE ~(i > 1 /\ msgs[i - 1].last > seq)
  <2>1. \A j \in 1 .. (i - 1) : msgs[j].last <= seq
    <3> TAKE j \in 1 .. (i - 1)
    <3>1. i - 1 \in 1 .. Len(msgs) /\ j \in 1 .. Len(msgs)
      OBVIOUS
    <3>2. msgs[i - 1].last <= seq
      BY <1>1, <1>3, <3>1
    <3>3. j = i - 1 \/ msgs[j].last < msgs[i - 1].last
      BY <3>1 DEF IsChain
    <3> QED
      BY <1>1, <3>1, <3>2, <3>3
  <2>2. PICK c \in {seq} \cup Ends(msgs, i) : Continues(msgs[i], c)
    BY UsedOnChain DEF Unreachable
  <2>3. c \in Nat /\ c <= seq
    BY <1>1, <2>1, <2>2 DEF Ends
  <2> QED
    BY <1>1, <1>3, <2>2, <2>3 DEF Continues
<1> QED
  BY <1>2, <1>3

(* The loop leaves the cursor at the end of the chain, or at the snapshot  *)
(* if that is newer.                                                       *)
LEMMA FinalCursorOnChain ==
  ASSUME NEW msgs \in Seq(Message), IsChain(msgs), NEW seq \in Nat
  PROVE  FinalCursor(msgs, seq) =
           IF msgs # <<>> /\ msgs[Len(msgs)].last > seq
             THEN msgs[Len(msgs)].last
             ELSE seq
<1> DEFINE n == Len(msgs)
           cursors == {seq} \cup Ends(msgs, n + 1)
           top == IF msgs # <<>> /\ msgs[n].last > seq THEN msgs[n].last ELSE seq
<1>1. n \in Nat /\ (msgs # <<>> => n \in 1 .. n)
  OBVIOUS
<1>2. \A j \in 1 .. n : msgs[j].last \in Nat
  BY MessageFields
<1>3. \A j \in 1 .. n : msgs[j].last <= msgs[n].last
  <2> TAKE j \in 1 .. n
  <2>1. j = n \/ msgs[j].last < msgs[n].last
    BY DEF IsChain
  <2> QED
    BY <1>2, <2>1
<1>4. \A c \in cursors : c = seq \/ \E j \in 1 .. n : c = msgs[j].last
  BY DEF Ends
<1>5. msgs # <<>> => msgs[n].last \in cursors
  BY <1>1 DEF Ends
<1>6. top \in cursors /\ top \in Nat
  BY <1>1, <1>2, <1>5
<1>7. \A c \in cursors : c \in Nat /\ c <= top
  <2> TAKE c \in cursors
  <2>1. CASE c = seq
    BY <1>1, <1>2, <2>1
  <2>2. CASE \E j \in 1 .. n : c = msgs[j].last
    <3>1. PICK j \in 1 .. n : c = msgs[j].last
      BY <2>2
    <3>2. msgs # <<>> /\ n \in 1 .. n
      BY <1>1, <3>1
    <3> QED
      BY <1>2, <1>3, <3>1, <3>2
  <2> QED
    BY <1>4, <2>1, <2>2
<1> HIDE DEF cursors, top
<1>8. \A c \in cursors : (\A d \in cursors : d <= c) => c = top
  BY <1>6, <1>7
<1>9. (CHOOSE c \in cursors : \A d \in cursors : d <= c) = top
  BY <1>6, <1>7, <1>8
<1> QED
  BY <1>9 DEF FinalCursor, cursors, top

(* Between a starting point (the snapshot when a = 0, else the end of used *)
(* message a) and any later used message, a level that no message sets     *)
(* does not change at the venue.                                           *)
LEMMA Carry ==
  ASSUME TypeOK, NEW msgs \in Seq(Message), IsChain(msgs), VenueData(msgs),
         NEW seq \in 0 .. now, NEW l \in Level,
         \A i \in 1 .. Len(msgs) : ~Unreachable(msgs, seq, i),
         NEW a \in 0 .. Len(msgs), a = 0 \/ msgs[a].last > seq,
         \A i \in (a + 1) .. Len(msgs) :
           msgs[i].last > seq => l \notin DOMAIN msgs[i].updates
  PROVE  \A i \in (a + 1) .. Len(msgs) :
           msgs[i].last > seq =>
             venue[msgs[i].last][l] = venue[IF a = 0 THEN seq ELSE msgs[a].last][l]
<1> DEFINE n == Len(msgs)
           base == IF a = 0 THEN seq ELSE msgs[a].last
           T == {i \in (a + 1) .. n :
                   msgs[i].last > seq /\ venue[msgs[i].last][l] # venue[base][l]}
<1>1. SUFFICES ASSUME T # {} PROVE FALSE
  OBVIOUS
<1>2. T \in SUBSET Nat
  OBVIOUS
<1>3. PICK i \in T : \A j \in T : i <= j
  BY <1>1, <1>2, LeastNat
<1>4. /\ i \in (a + 1) .. n /\ i \in 1 .. n
      /\ msgs[i].last > seq
      /\ venue[msgs[i].last][l] # venue[base][l]
  BY <1>3
<1>5. l \notin Changed(msgs[i].first, msgs[i].last)
  BY <1>4 DEF VenueData
<1>6. \A j \in 1 .. n : msgs[j].last \in Nat /\ msgs[j].first \in Nat
  BY MessageFields
<1>7. CASE i > 1 /\ msgs[i - 1].last > seq
  <2>1. msgs[i - 1].last \in (msgs[i].first - 1) .. msgs[i].last
    BY <1>4, <1>7, UsedReachable
  <2>2. venue[msgs[i - 1].last][l] = venue[msgs[i].last][l]
    BY <1>5, <2>1, DeltaReaches
  <2>3. CASE i - 1 = a
    <3>1. base = msgs[i - 1].last
      BY <1>4, <1>7, <2>3
    <3> QED
      BY <1>4, <2>2, <3>1
  <2>4. CASE i - 1 # a
    <3>1. i - 1 \in (a + 1) .. n /\ ~(i <= i - 1)
      BY <1>4, <2>4
    <3>2. i - 1 \notin T
      BY <1>3, <3>1
    <3>3. venue[msgs[i - 1].last][l] = venue[base][l]
      BY <1>7, <3>1, <3>2
    <3> QED
      BY <1>4, <2>2, <3>3
  <2> QED
    BY <2>3, <2>4
<1>8. CASE ~(i > 1 /\ msgs[i - 1].last > seq)
  <2>1. seq \in (msgs[i].first - 1) .. msgs[i].last
    BY <1>4, <1>8, UsedReachable
  <2>2. venue[seq][l] = venue[msgs[i].last][l]
    BY <1>5, <2>1, DeltaReaches
  <2>3. a = 0
    <3> SUFFICES ASSUME a # 0 PROVE FALSE
      OBVIOUS
    <3>1. a \in 1 .. n /\ i - 1 \in 1 .. n /\ i > 1 /\ a <= i - 1
      BY <1>4
    <3>2. a = i - 1 \/ msgs[a].last < msgs[i - 1].last
      BY <3>1 DEF IsChain
    <3> QED
      BY <1>6, <1>8, <3>1, <3>2
  <2> QED
    BY <1>4, <2>2, <2>3
<1> QED
  BY <1>7, <1>8

(* Replaying the buffer on top of a snapshot of any age gives the venue's  *)
(* book at the final cursor.                                               *)
LEMMA ReplayReaches ==
  ASSUME TypeOK, NEW msgs \in Seq(Message), IsChain(msgs), VenueData(msgs),
         NEW seq \in 0 .. now,
         \A i \in 1 .. Len(msgs) : ~StopsAt(msgs, seq, i)
  PROVE  /\ FinalCursor(msgs, seq) \in 0 .. now
         /\ Replayed(venue[seq], msgs, seq) = venue[FinalCursor(msgs, seq)]
<1> DEFINE n == Len(msgs)
           to == FinalCursor(msgs, seq)
<1>1. \A i \in 1 .. n : ~Unreachable(msgs, seq, i)
  BY NoStop
<1>2. to = IF msgs # <<>> /\ msgs[n].last > seq THEN msgs[n].last ELSE seq
  BY FinalCursorOnChain
<1>3. n \in Nat /\ (msgs # <<>> <=> n \in 1 .. n)
  OBVIOUS
<1>4. \A j \in 1 .. n : msgs[j].last \in 0 .. now
  <2>1. now \in Nat
    BY MaxSeqAssumption DEF TypeOK
  <2>2. \A j \in 1 .. n : msgs[j].last \in Nat
    BY MessageFields
  <2>3. \A j \in 1 .. n : msgs[j].last <= now
    BY DEF VenueData
  <2> QED
    BY <2>1, <2>2, <2>3
<1>5. \A i \in 1 .. n : Used(msgs, seq, i) <=> msgs[i].last > seq
  BY UsedOnChain
<1>6. to \in 0 .. now
  BY <1>2, <1>3, <1>4
<1> HIDE DEF to
<1>7. ASSUME NEW l \in Level
      PROVE  Replayed(venue[seq], msgs, seq)[l] = venue[to][l]
  <2> DEFINE S == Setters(msgs, seq, l)
  <2>1. S = {i \in 1 .. n : msgs[i].last > seq /\ l \in DOMAIN msgs[i].updates}
    BY <1>5 DEF Setters
  <2>2. CASE S = {}
    <3>1. \A i \in (0 + 1) .. n : msgs[i].last > seq => l \notin DOMAIN msgs[i].updates
      BY <2>1, <2>2
    <3>2. \A i \in (0 + 1) .. n : msgs[i].last > seq =>
            venue[msgs[i].last][l] = venue[IF 0 = 0 THEN seq ELSE msgs[0].last][l]
      <4>1. 0 \in 0 .. n
        BY <1>3
      <4> QED
        BY <1>1, <3>1, <4>1, Carry
    <3>3. venue[to][l] = venue[seq][l]
      BY <1>2, <1>3, <3>2
    <3> QED
      BY <2>2, <3>3 DEF Replayed
  <2>3. CASE S # {}
    <3> DEFINE f == CHOOSE i \in S : \A j \in S : j <= i
    <3>1. S \in SUBSET (1 .. n)
      BY <2>1
    <3>2. \E i \in S : \A j \in S : j <= i
      BY <1>3, <2>3, <3>1, GreatestPosition
    <3>3. f \in S /\ \A j \in S : j <= f
      BY <3>2
    <3>4. f \in 1 .. n /\ msgs[f].last > seq /\ l \in DOMAIN msgs[f].updates
      BY <2>1, <3>3
    <3>6. \A i \in (f + 1) .. n : msgs[i].last > seq => l \notin DOMAIN msgs[i].updates
      BY <2>1, <3>3, <3>4
    <3> HIDE DEF f
    <3>5. msgs[f].updates[l] = venue[msgs[f].last][l]
      <4>1. msgs[f].updates = [k \in Changed(msgs[f].first, msgs[f].last) |->
                                 venue[msgs[f].last][k]]
        BY <3>4 DEF VenueData
      <4> HIDE DEF Changed
      <4> QED
        BY <3>4, <4>1
    <3>7. \A i \in (f + 1) .. n : msgs[i].last > seq =>
            venue[msgs[i].last][l] = venue[msgs[f].last][l]
      <4>1. f \in 0 .. n /\ f # 0
        BY <3>4
      <4> QED
        BY <1>1, <3>4, <3>6, <4>1, Carry
    <3>8. msgs[n].last > seq /\ n \in 1 .. n /\ (f = n \/ n \in (f + 1) .. n)
      <4>1. n \in 1 .. n /\ (f = n \/ n \in (f + 1) .. n)
        BY <3>4
      <4>2. f = n \/ msgs[f].last < msgs[n].last
        BY <3>4, <4>1 DEF IsChain
      <4> QED
        BY <1>4, <3>4, <4>1, <4>2
    <3>9. venue[to][l] = venue[msgs[f].last][l]
      BY <1>2, <1>3, <3>7, <3>8
    <3>10. Replayed(venue[seq], msgs, seq)[l] = msgs[f].updates[l]
      BY <2>3 DEF Replayed, f
    <3> QED
      BY <3>5, <3>9, <3>10
  <2> QED
    BY <2>2, <2>3
<1>8. venue[to] \in Book
  BY <1>6 DEF TypeOK
<1>9. Replayed(venue[seq], msgs, seq) = [l \in Level |-> Replayed(venue[seq], msgs, seq)[l]]
  BY DEF Replayed
<1> QED
  BY <1>6, <1>7, <1>8, <1>9 DEF Book, to

-----------------------------------------------------------------------------
(***************************************************************************)
(* The buffer.                                                             *)
(***************************************************************************)

(* What the invariant says of the buffer. *)
GoodBuffer(buf) ==
  /\ buf = [messages |-> buf.messages, updates |-> buf.updates]
  /\ buf.messages \in Seq(Message)
  /\ Len(buf.messages) <= BufferedMessages
  /\ buf.updates \in 0 .. BufferedUpdates
  /\ IsChain(buf.messages)
  /\ VenueData(buf.messages)

(* The room a delta takes in the buffer (buffered_updates) is a number. *)
LEMMA NumUpdatesIsNat ==
  ASSUME NEW m \in Message
  PROVE  NumUpdates(m) \in Nat
<1>1. IsFiniteSet({"Buy", "Sell"})
  <2>1. IsFiniteSet({"Buy"})
    BY FS_Singleton
  <2>2. IsFiniteSet({"Buy"} \cup {"Sell"})
    BY <2>1, FS_AddElement
  <2>3. {"Buy", "Sell"} = {"Buy"} \cup {"Sell"}
    OBVIOUS
  <2> QED
    BY <2>2, <2>3
<1>2. IsFiniteSet(Level)
  BY <1>1, PricesAssumption, FS_Product DEF Level
<1>3. DOMAIN m.updates \in SUBSET Level
  <2>1. m.updates \in UNION {[D -> Qtys] : D \in SUBSET Level}
    BY DEF Message
  <2> QED
    BY <2>1
<1>4. IsFiniteSet(DOMAIN m.updates)
  BY <1>2, <1>3, FS_Subset
<1>5. Cardinality(DOMAIN m.updates) \in Nat
  BY <1>4, FS_CardinalityType
<1> QED
  BY <1>5 DEF NumUpdates

(* restart_buffer() leaves a good buffer. *)
LEMMA NoPendingIsGood == GoodBuffer(NoPending)
BY SizesAssumption DEF GoodBuffer, NoPending, IsChain, VenueData

(* BookSync::buffer keeps the buffer one chain of venue deltas within its  *)
(* two limits.                                                             *)
LEMMA BufferIsGood ==
  ASSUME TypeOK, NEW buf, GoodBuffer(buf), NEW first \in 1 .. now, NEW to \in 1 .. now,
         first <= to, NEW invalid \in BOOLEAN
  PROVE  GoodBuffer(Buffer(buf, Delta(first, to, invalid)))
<1> DEFINE m == Delta(first, to, invalid)
           room == IF MustRestart(buf, m) THEN NoPending ELSE buf
           total == room.updates + NumUpdates(m)
           grown == [messages |-> Append(room.messages, m), updates |-> total]
<1>1. m \in Message /\ m.first = first /\ m.last = to
  BY DeltaIsMessage DEF Delta
<1>2. GoodBuffer(room)
  BY NoPendingIsGood
<1>3. NumUpdates(m) \in Nat
  BY <1>1, NumUpdatesIsNat
<1>4. m.last <= now /\ m.updates = [l \in Changed(m.first, m.last) |-> venue[m.last][l]]
  BY DEF Delta
<1>5. ASSUME ~AlreadyBuffered(buf, m)
      PROVE  \/ room.messages = <<>>
             \/ /\ Len(room.messages) < BufferedMessages
                /\ room.messages[Len(room.messages)].last < m.last
                /\ Continues(m, room.messages[Len(room.messages)].last)
  <2>1. CASE MustRestart(buf, m)
    BY <2>1 DEF NoPending
  <2>2. CASE ~MustRestart(buf, m)
    <3>1. CASE buf.messages = <<>>
      BY <2>2, <3>1
    <3>2. CASE buf.messages # <<>>
      <4>1. buf.messages[Len(buf.messages)] \in Message
        BY <3>2 DEF GoodBuffer
      <4>2. buf.messages[Len(buf.messages)].last \in Nat /\ m.last \in Nat
        BY <1>1, <4>1, MessageFields
      <4>3. Len(buf.messages) \in Nat /\ ~(Len(buf.messages) >= BufferedMessages)
        BY <2>2 DEF MustRestart, GoodBuffer
      <4> QED
        BY <1>5, <2>2, <3>2, <4>2, <4>3, SizesAssumption DEF MustRestart, AlreadyBuffered
    <3> QED
      BY <3>1, <3>2
  <2> QED
    BY <2>1, <2>2
<1> HIDE DEF m, room
<1>6. ASSUME ~AlreadyBuffered(buf, m), ~(total > BufferedUpdates)
      PROVE  GoodBuffer(grown)
  <2> DEFINE old == room.messages
             msgs == Append(old, m)
  <2>1. /\ old \in Seq(Message) /\ Len(old) \in Nat /\ Len(old) <= BufferedMessages
        /\ room.updates \in Nat /\ IsChain(old) /\ VenueData(old)
    BY <1>2, SizesAssumption DEF GoodBuffer
  <2>2. /\ msgs \in Seq(Message) /\ Len(msgs) = Len(old) + 1
        /\ msgs[Len(old) + 1] = m
        /\ \A i \in 1 .. Len(old) : msgs[i] = old[i]
    BY <1>1, <2>1
  <2>3. total \in 0 .. BufferedUpdates
    BY <1>3, <1>6, <2>1, SizesAssumption
  <2>4. Len(msgs) <= BufferedMessages
    <3>1. old = <<>> => Len(old) = 0
      OBVIOUS
    <3> QED
      BY <1>5, <1>6, <2>1, <2>2, <3>1, SizesAssumption
  <2>5. \A i \in 1 .. Len(old) : old[i].last \in Nat /\ old[i].last < m.last
    <3> TAKE i \in 1 .. Len(old)
    <3>1. old[i].last \in Nat /\ old[Len(old)].last \in Nat /\ m.last \in Nat
      BY <1>1, <2>1, MessageFields
    <3>2. i = Len(old) \/ old[i].last < old[Len(old)].last
      BY <2>1 DEF IsChain
    <3> QED
      BY <1>5, <1>6, <2>1, <3>1, <3>2
  <2> HIDE DEF old, msgs
  <2>6. \A i, j \in 1 .. Len(msgs) : i < j => msgs[i].last < msgs[j].last
    <3> SUFFICES ASSUME NEW i \in 1 .. Len(msgs), NEW j \in 1 .. Len(msgs), i < j
                 PROVE  msgs[i].last < msgs[j].last
      OBVIOUS
    <3>1. i \in 1 .. Len(old)
      BY <2>1, <2>2
    <3>2. CASE j = Len(old) + 1
      BY <2>2, <2>5, <3>1, <3>2
    <3>3. CASE j # Len(old) + 1
      <4>1. j \in 1 .. Len(old)
        BY <2>1, <2>2, <3>3
      <4> QED
        BY <2>1, <2>2, <3>1, <4>1 DEF IsChain
    <3> QED
      BY <3>2, <3>3
  <2>7. \A i \in 1 .. (Len(msgs) - 1) : Continues(msgs[i + 1], msgs[i].last)
    <3> TAKE i \in 1 .. (Len(msgs) - 1)
    <3>1. i \in 1 .. Len(old)
      BY <2>1, <2>2
    <3>2. CASE i = Len(old)
      <4>1. Continues(m, old[Len(old)].last)
        BY <1>5, <1>6, <3>1, <2>1 DEF old
      <4> QED
        BY <2>2, <3>1, <3>2, <4>1
    <3>3. CASE i # Len(old)
      <4>1. i \in 1 .. (Len(old) - 1) /\ i + 1 \in 1 .. Len(old)
        BY <2>1, <3>1, <3>3
      <4> QED
        BY <2>1, <2>2, <3>1, <4>1 DEF IsChain
    <3> QED
      BY <3>2, <3>3
  <2>8. VenueData(msgs)
    <3> SUFFICES ASSUME NEW i \in 1 .. Len(msgs)
                 PROVE  /\ msgs[i].last <= now
                        /\ msgs[i].updates = [l \in Changed(msgs[i].first, msgs[i].last) |->
                                                venue[msgs[i].last][l]]
      BY DEF VenueData
    <3>1. CASE i = Len(old) + 1
      BY <1>4, <2>2, <3>1
    <3>2. CASE i # Len(old) + 1
      <4>1. i \in 1 .. Len(old)
        BY <2>1, <2>2, <3>2
      <4> QED
        BY <2>1, <2>2, <4>1 DEF VenueData
    <3> QED
      BY <3>1, <3>2
  <2>9. IsChain(msgs)
    BY <2>6, <2>7 DEF IsChain
  <2> QED
    BY <2>2, <2>3, <2>4, <2>8, <2>9 DEF GoodBuffer, msgs, old
<1> QED
  BY <1>6, NoPendingIsGood DEF Buffer, m, room

-----------------------------------------------------------------------------
(***************************************************************************)
(* The invariant is inductive.                                             *)
(***************************************************************************)

(* The buffer of a sync is good, and empty while the book is live. *)
LEMMA IInvParts ==
  ASSUME IInv
  PROVE  /\ GoodBuffer(pending)
         /\ live => pending.messages = <<>>
BY DEF IInv, TypeOK, GoodBuffer, PendingIsOneChain, IsChain

(* What a call on the sync has to establish, the venue standing still. *)
LEMMA CallPreserves ==
  ASSUME IInv, UNCHANGED <<now, venue>>,
         live' \in BOOLEAN, last' \in 0 .. now, result' \in Results,
         GoodBuffer(pending'), live' => pending'.messages = <<>>,
         book' \in Book,
         live' => book' = venue[last'] /\ ~Crossed(book'),
         ~live' => book' = EmptyBook /\ last' = 0
  PROVE  IInv'
<1>1. TypeOK'
  BY DEF IInv, TypeOK, GoodBuffer
<1>2. VenueData(pending.messages)'
  BY DEF GoodBuffer, VenueData, Changed
<1>3. PendingIsOneChain'
  BY DEF GoodBuffer, IsChain, PendingIsOneChain
<1>4. LiveBookIsVenueBook'
  BY DEF LiveBookIsVenueBook
<1>5. HiddenBookIsEmpty'
  BY DEF HiddenBookIsEmpty
<1> QED
  BY <1>1, <1>2, <1>3, <1>4, <1>5 DEF IInv

(* Book::clear leaves a book. *)
LEMMA EmptyBookIsBook == EmptyBook \in Book
BY QtysAssumption DEF EmptyBook, Book

(* invalidate(), whatever is buffered afterwards. *)
LEMMA InvalidatePreserves ==
  ASSUME IInv, UNCHANGED <<now, venue>>, NEW buf, GoodBuffer(buf),
         InvalidateKeeping(buf), result' \in Results
  PROVE  IInv'
<1>1. 0 \in 0 .. now
  BY MaxSeqAssumption DEF IInv, TypeOK
<1> QED
  BY <1>1, EmptyBookIsBook, CallPreserves DEF InvalidateKeeping

(* Going live at seq with the venue's book of seq. *)
LEMMA GoLivePreserves ==
  ASSUME IInv, UNCHANGED <<now, venue>>, NEW seq \in 0 .. now, NEW b, b = venue[seq],
         NEW ok \in Results, GoLive(b, seq, ok)
  PROVE  IInv'
<1>1. venue[seq] \in Book
  BY DEF IInv, TypeOK
<1>2. CASE Crossed(b)
  BY <1>2, NoPendingIsGood, InvalidatePreserves DEF GoLive, Invalidate, Results
<1>3. CASE ~Crossed(b)
  <2>1. /\ live' = TRUE /\ last' = seq /\ book' = b /\ pending' = NoPending /\ result' = ok
    BY <1>3 DEF GoLive
  <2>2. pending'.messages = <<>>
    BY <2>1 DEF NoPending
  <2>3. GoodBuffer(pending')
    BY <2>1, NoPendingIsGood
  <2> QED
    BY <1>1, <1>3, <2>1, <2>2, <2>3, CallPreserves
<1> QED
  BY <1>2, <1>3

(* on_delta, for any range of venue updates, valid or not. *)
LEMMA OnDeltaPreserves ==
  ASSUME IInv, NEW first \in 1 .. now, NEW to \in 1 .. now, first <= to,
         NEW invalid \in BOOLEAN, OnDelta(Delta(first, to, invalid))
  PROVE  IInv'
<1> DEFINE m == Delta(first, to, invalid)
<1>1. m.first = first /\ m.last = to /\ m.invalid = invalid
      /\ m.updates = [l \in Changed(first, to) |-> venue[to][l]]
  BY DEF Delta
<1>2. /\ TypeOK /\ GoodBuffer(pending) /\ UNCHANGED <<now, venue>>
      /\ live => pending.messages = <<>>
  BY IInvParts DEF IInv, OnDelta
<1>3. GoodBuffer(Buffer(pending, m)) /\ GoodBuffer(Buffer(NoPending, m))
  BY <1>2, BufferIsGood, NoPendingIsGood
<1> HIDE DEF m
<1>4. CASE DeltaBuffered(m)
  BY <1>2, <1>3, <1>4, CallPreserves
     DEF DeltaBuffered, IInv, TypeOK, HiddenBookIsEmpty, Results
<1>5. CASE DeltaStale(m)
  BY <1>2, <1>5, CallPreserves
     DEF DeltaStale, IInv, TypeOK, LiveBookIsVenueBook, Results
<1>6. CASE DeltaGap(m)
  BY <1>2, <1>3, <1>6, InvalidatePreserves DEF DeltaGap, Results
<1>7. CASE DeltaApplied(m)
  <2>1. CASE invalid
    BY <1>1, <1>2, <1>7, <2>1, NoPendingIsGood, InvalidatePreserves
       DEF DeltaApplied, Invalidate, Results
  <2>2. CASE ~invalid
    <3>1. live /\ to > last /\ first <= last + 1 /\ last \in 0 .. now
      BY <1>1, <1>2, <1>7 DEF DeltaApplied, Continues, TypeOK
    <3>2. book = venue[last]
      BY <3>1 DEF IInv, LiveBookIsVenueBook
    <3>3. last \in (first - 1) .. to
      BY <3>1
    <3>4. Apply(book, m.updates) = venue[to]
      BY <1>1, <1>2, <3>1, <3>2, <3>3, ApplyReaches
    <3>5. GoLive(Apply(book, m.updates), to, "Applied")
      BY <1>1, <1>7, <2>2 DEF DeltaApplied
    <3>6. to \in 0 .. now /\ "Applied" \in Results
      BY <1>2 DEF Results
    <3> QED
      BY <1>2, <3>4, <3>5, <3>6, GoLivePreserves
  <2> QED
    BY <2>1, <2>2
<1> QED
  BY <1>4, <1>5, <1>6, <1>7 DEF OnDelta, m

(* on_snapshot, for a snapshot of any age. *)
LEMMA OnSnapshotPreserves ==
  ASSUME IInv, NEW seq \in 0 .. now, OnSnapshot(seq)
  PROVE  IInv'
<1>1. /\ TypeOK /\ GoodBuffer(pending) /\ UNCHANGED <<now, venue>>
      /\ live => pending.messages = <<>>
  BY IInvParts DEF IInv, OnSnapshot
<1>2. CASE SnapshotIgnored(seq)
  BY <1>1, <1>2, CallPreserves
     DEF SnapshotIgnored, IInv, TypeOK, LiveBookIsVenueBook, Results
<1>3. CASE SnapshotInvalid(seq)
  BY <1>1, <1>3, NoPendingIsGood, InvalidatePreserves
     DEF SnapshotInvalid, Invalidate, Results
<1>4. CASE SnapshotTooOld(seq)
  <2>1. InvalidateKeeping(pending) /\ result' = "TooOld"
    BY <1>4 DEF SnapshotTooOld, InvalidateKeeping
  <2> QED
    BY <1>1, <2>1, InvalidatePreserves DEF Results
<1>5. CASE ReplayInvalid(seq)
  BY <1>1, <1>5, NoPendingIsGood, InvalidatePreserves
     DEF ReplayInvalid, Invalidate, Results
<1>6. CASE SnapshotLoaded(seq)
  <2> DEFINE to == FinalCursor(pending.messages, seq)
             b == Replayed(venue[seq], pending.messages, seq)
  <2>1. \A i \in 1 .. Len(pending.messages) : ~StopsAt(pending.messages, seq, i)
    BY <1>6 DEF SnapshotLoaded
  <2>2. to \in 0 .. now /\ b = venue[to]
    BY <1>1, <2>1, ReplayReaches DEF GoodBuffer
  <2>3. GoLive(b, to, "Loaded") /\ "Loaded" \in Results
    BY <1>6 DEF SnapshotLoaded, Results
  <2> HIDE DEF to, b
  <2> QED
    BY <1>1, <2>2, <2>3, GoLivePreserves
<1> QED
  BY <1>2, <1>3, <1>4, <1>5, <1>6 DEF OnSnapshot

(* A new venue update leaves every delta and every book of the past as     *)
(* they were.                                                              *)
LEMMA VenueUpdatePreserves ==
  ASSUME IInv, NEW l \in Level, NEW q \in Qtys, VenueUpdate(l, q)
  PROVE  IInv'
<1>1. /\ TypeOK /\ now \in Nat /\ now' = now + 1 /\ now' \in 0 .. MaxSeq
      /\ UNCHANGED <<live, last, book, pending, result>>
  BY MaxSeqAssumption DEF IInv, TypeOK, VenueUpdate
<1>2. \A n \in 0 .. now : venue'[n] = venue[n]
  BY <1>1 DEF VenueUpdate
<1>3. venue' \in [0 .. now' -> Book]
  <2>1. [venue[now] EXCEPT ![l] = q] \in Book
    BY <1>1 DEF TypeOK, Book
  <2>2. \A n \in 0 .. now : venue[n] \in Book
    BY <1>1 DEF TypeOK
  <2> QED
    BY <1>1, <2>1, <2>2 DEF VenueUpdate
<1>4. TypeOK'
  BY <1>1, <1>3 DEF TypeOK
<1>5. VenueData(pending.messages)'
  <2> SUFFICES ASSUME NEW i \in 1 .. Len(pending.messages)
               PROVE  /\ pending.messages[i].last <= now'
                      /\ pending.messages[i].updates =
                           [k \in Changed(pending.messages[i].first, pending.messages[i].last)' |->
                              venue'[pending.messages[i].last][k]]
    BY <1>1 DEF VenueData
  <2> DEFINE m == pending.messages[i]
  <2>1. m \in Message
    BY <1>1 DEF TypeOK
  <2>2. m.first \in Nat /\ m.first >= 1 /\ m.last \in Nat /\ m.last <= now /\ m.first <= m.last
    BY <2>1, MessageFields DEF IInv, VenueData
  <2>3. \A n \in (m.first - 1) .. m.last : venue'[n] = venue[n]
    BY <1>1, <1>2, <2>2
  <2>4. m.updates = [k \in Changed(m.first, m.last) |-> venue[m.last][k]]
    BY DEF IInv, VenueData
  <2> HIDE DEF m
  <2>5. venue'[m.last] = venue[m.last]
    BY <2>2, <2>3
  <2>6. {k \in Level : \E n \in (m.first - 1) .. m.last : venue'[n][k] # venue'[m.last][k]}
          = Changed(m.first, m.last)
    BY <2>3, <2>5 DEF Changed
  <2> QED
    BY <1>1, <2>2, <2>4, <2>5, <2>6 DEF m, Changed
<1>6. PendingIsOneChain' /\ HiddenBookIsEmpty'
  BY <1>1 DEF IInv, PendingIsOneChain, HiddenBookIsEmpty
<1>7. LiveBookIsVenueBook'
  BY <1>1, <1>2 DEF IInv, TypeOK, LiveBookIsVenueBook
<1> QED
  BY <1>4, <1>5, <1>6, <1>7 DEF IInv

(* The invariant holds throughout every behaviour of the sync. *)
THEOREM Invariance == Spec => []IInv
<1>1. Init => IInv
  <2> SUFFICES ASSUME Init PROVE IInv
    OBVIOUS
  <2>1. TypeOK
    <3>1. 0 .. now = {0} /\ now \in 0 .. MaxSeq
      BY MaxSeqAssumption DEF Init
    <3>2. venue \in [0 .. now -> Book] /\ book \in Book
      BY <3>1, EmptyBookIsBook DEF Init
    <3>3. /\ pending.messages = <<>> /\ pending.updates = 0
          /\ pending = [messages |-> pending.messages, updates |-> pending.updates]
      BY DEF Init, NoPending
    <3> QED
      BY <3>1, <3>2, <3>3, SizesAssumption DEF Init, TypeOK, Results
  <2> QED
    BY <2>1 DEF Init, IInv, NoPending, VenueData, PendingIsOneChain,
                LiveBookIsVenueBook, HiddenBookIsEmpty
<1>2. IInv /\ [Next]_vars => IInv'
  <2> SUFFICES ASSUME IInv, [Next]_vars PROVE IInv'
    OBVIOUS
  <2>1. ASSUME NEW l \in Level, NEW q \in Qtys, VenueUpdate(l, q) PROVE IInv'
    BY <2>1, VenueUpdatePreserves
  <2>2. ASSUME NEW first \in 1 .. now, NEW to \in 1 .. now, NEW invalid \in BOOLEAN,
               first <= to, OnDelta(Delta(first, to, invalid))
        PROVE  IInv'
    BY <2>2, OnDeltaPreserves
  <2>3. ASSUME NEW seq \in 0 .. now, OnSnapshot(seq) PROVE IInv'
    BY <2>3, OnSnapshotPreserves
  <2>4. CASE Reset
    BY <2>4, NoPendingIsGood, InvalidatePreserves DEF Reset, Invalidate, Results
  <2>5. CASE UNCHANGED vars
    BY <2>5 DEF vars, IInv, TypeOK, VenueData, Changed, PendingIsOneChain,
                LiveBookIsVenueBook, HiddenBookIsEmpty
  <2> QED
    BY <2>1, <2>2, <2>3, <2>4, <2>5 DEF Next
<1> QED
  BY <1>1, <1>2, PTL DEF Spec

(* A sync never leaves its types, and its buffer never exceeds             *)
(* buffered_messages or buffered_updates.                                  *)
THEOREM TypeCorrect == Spec => []TypeOK
<1>1. IInv => TypeOK
  BY DEF IInv
<1> QED
  BY <1>1, Invariance, PTL

(* A readable book is the venue's book at `last`, whatever was lost,       *)
(* repeated, reordered or delayed on the way.                              *)
THEOREM LiveBookCorrect == Spec => []LiveBookIsVenueBook
<1>1. IInv => LiveBookIsVenueBook
  BY DEF IInv
<1> QED
  BY <1>1, Invariance, PTL

(* The buffer is one unbroken chain, and empty while the book is live. *)
THEOREM BufferCorrect == Spec => []PendingIsOneChain
<1>1. IInv => PendingIsOneChain
  BY DEF IInv
<1> QED
  BY <1>1, Invariance, PTL

(* What a call returned says whether the book may be read: after an error  *)
(* or "Buffered" it may not, after "Applied", "Loaded" or "Unchanged" it   *)
(* may.                                                                    *)
THEOREM OutcomeCorrect == Spec => []OutcomeMatchesState
<1>1. Init => OutcomeMatchesState
  BY DEF Init, OutcomeMatchesState
<1>2. IInv /\ IInv' /\ OutcomeMatchesState /\ [Next]_vars => OutcomeMatchesState'
  <2> SUFFICES ASSUME IInv, IInv', OutcomeMatchesState, [Next]_vars
               PROVE  OutcomeMatchesState'
    OBVIOUS
  <2>1. ~live' => book' = EmptyBook
    BY DEF IInv, HiddenBookIsEmpty
  <2> DEFINE Tells ==
        /\ result' \in {"Applied", "Loaded", "Unchanged"} => live'
        /\ result' \in {"Buffered", "Gap", "Crossed", "Book", "TooOld", "Reset"} => ~live'
  <2>2. SUFFICES Tells
    BY <2>1 DEF OutcomeMatchesState
  <2>3. CASE UNCHANGED <<live, result>>
    BY <2>3 DEF OutcomeMatchesState
  <2>4. ASSUME NEW l \in Level, NEW q \in Qtys, VenueUpdate(l, q)
        PROVE  UNCHANGED <<live, result>>
    BY <2>4 DEF VenueUpdate
  <2>5. ASSUME NEW m, OnDelta(m)
        PROVE  Tells
    <3>1. CASE DeltaBuffered(m)
      BY <3>1 DEF DeltaBuffered
    <3>2. CASE DeltaStale(m)
      BY <3>2 DEF DeltaStale
    <3>3. CASE DeltaGap(m)
      BY <3>3 DEF DeltaGap, InvalidateKeeping
    <3>4. CASE DeltaApplied(m)
      BY <3>4 DEF DeltaApplied, GoLive, Invalidate, InvalidateKeeping
    <3> QED
      BY <2>5, <3>1, <3>2, <3>3, <3>4 DEF OnDelta
  <2>6. ASSUME NEW seq, OnSnapshot(seq)
        PROVE  Tells
    <3>1. CASE SnapshotIgnored(seq)
      BY <3>1 DEF SnapshotIgnored
    <3>2. CASE SnapshotInvalid(seq) \/ ReplayInvalid(seq)
      BY <3>2 DEF SnapshotInvalid, ReplayInvalid, Invalidate, InvalidateKeeping
    <3>3. CASE SnapshotTooOld(seq)
      BY <3>3 DEF SnapshotTooOld
    <3>4. CASE SnapshotLoaded(seq)
      BY <3>4 DEF SnapshotLoaded, GoLive, Invalidate, InvalidateKeeping
    <3> QED
      BY <2>6, <3>1, <3>2, <3>3, <3>4 DEF OnSnapshot
  <2>7. CASE Reset
    BY <2>7 DEF Reset, Invalidate, InvalidateKeeping
  <2>8. CASE UNCHANGED vars
    BY <2>3, <2>8 DEF vars
  <2> QED
    BY <2>3, <2>4, <2>5, <2>6, <2>7, <2>8 DEF Next
<1> QED
  BY <1>1, <1>2, Invariance, PTL DEF Spec

(* A snapshot is refused only because it is older than the buffer's first  *)
(* delta, never because of a break inside the buffer.                      *)
THEOREM SnapshotRefusal == Spec => []OnlyFirstCanFail
<1>1. IInv => OnlyFirstCanFail
  <2> DEFINE msgs == pending.messages
  <2> SUFFICES ASSUME IInv, NEW seq \in 0 .. now, NEW i \in 1 .. Len(msgs),
                      Unreachable(msgs, seq, i)
               PROVE  i = 1 /\ seq + 1 < msgs[1].first
    BY DEF OnlyFirstCanFail
  <2>1. msgs \in Seq(Message) /\ IsChain(msgs)
    BY IInvParts DEF GoodBuffer
  <2> HIDE DEF msgs
  <2>2. i = 1
    <3> SUFFICES ASSUME i # 1 PROVE FALSE
      OBVIOUS
    <3>1. i - 1 \in 1 .. (Len(msgs) - 1) /\ (i - 1) + 1 = i /\ i - 1 \in 1 .. (i - 1)
      OBVIOUS
    <3>2. Continues(msgs[i], msgs[i - 1].last)
      BY <2>1, <3>1 DEF IsChain
    <3>3. msgs[i - 1].last \in Ends(msgs, i)
      BY <3>1 DEF Ends
    <3> QED
      BY <3>2, <3>3 DEF Unreachable
  <2>3. ~Continues(msgs[1], seq) /\ msgs[1].first \in Nat /\ seq \in Nat
    BY <2>1, <2>2, MessageFields DEF Unreachable
  <2> QED
    BY <2>2, <2>3 DEF Continues
<1> QED
  BY <1>1, Invariance, PTL

-----------------------------------------------------------------------------
(***************************************************************************)
(* The sync implements SeqSync.                                            *)
(***************************************************************************)

(* The sync as SeqSync sees it. *)
AbsSync ==
  [live  |-> live,
   first |-> IF pending.messages = <<>> THEN 0 ELSE pending.messages[1].first,
   last  |-> IF live THEN last
             ELSE IF pending.messages = <<>> THEN 0
             ELSE pending.messages[Len(pending.messages)].last]

(* The same of a buffer, the sync awaiting a snapshot. *)
AbsBuffer(buf) ==
  [live  |-> FALSE,
   first |-> IF buf.messages = <<>> THEN 0 ELSE buf.messages[1].first,
   last  |-> IF buf.messages = <<>> THEN 0 ELSE buf.messages[Len(buf.messages)].last]

(* BookSync::buffer does to the chain what SeqRules allows it to. *)
LEMMA BufferImplements ==
  ASSUME NEW buf, GoodBuffer(buf), NEW m \in Message
  PROVE  AbsBuffer(Buffer(buf, m)) \in Abstract!AfterBuffer(AbsBuffer(buf), m.first, m.last)
<1> DEFINE msgs == buf.messages
           n == Len(msgs)
           room == IF MustRestart(buf, m) THEN NoPending ELSE buf
           total == room.updates + NumUpdates(m)
           grown == [messages |-> Append(room.messages, m), updates |-> total]
<1>1. msgs \in Seq(Message) /\ n \in Nat /\ (msgs # <<>> <=> n >= 1) /\ (msgs # <<>> => n \in 1 .. n /\ 1 \in 1 .. n)
  BY DEF GoodBuffer
<1>2. /\ m.first \in Nat /\ m.last \in Nat
      /\ msgs # <<>> => /\ msgs[1].first \in Nat \ {0}
                        /\ msgs[n].last \in Nat
  BY <1>1, MessageFields
<1>3. AbsBuffer(NoPending) = Abstract!Empty
  BY DEF AbsBuffer, NoPending, Abstract!Empty
<1>4. Abstract!Buffering(AbsBuffer(buf)) <=> msgs # <<>>
  BY <1>2 DEF Abstract!Buffering, AbsBuffer
<1>5. CASE AlreadyBuffered(buf, m)
  BY <1>2, <1>4, <1>5 DEF Buffer, AlreadyBuffered, Abstract!AfterBuffer, AbsBuffer
<1>6. CASE ~AlreadyBuffered(buf, m)
  <2>1. ~(Abstract!Buffering(AbsBuffer(buf)) /\ m.last <= AbsBuffer(buf).last)
    BY <1>4, <1>6 DEF AlreadyBuffered, AbsBuffer
  <2>2. CASE total > BufferedUpdates
    BY <1>3, <1>6, <2>1, <2>2 DEF Buffer, Abstract!AfterBuffer
  <2>3. CASE ~(total > BufferedUpdates)
    <3>1. Buffer(buf, m) = grown
      BY <1>6, <2>3 DEF Buffer
    <3>2. CASE room.messages = <<>>
      <4>1. grown.messages = <<m>>
        <5>1. Append(<<>>, m) = <<m>>
          OBVIOUS
        <5> QED
          BY <3>2, <5>1
      <4>2. grown.messages # <<>> /\ Len(grown.messages) = 1 /\ grown.messages[1] = m
        BY <4>1
      <4> HIDE DEF grown
      <4>3. AbsBuffer(grown) = Abstract!Chain(m.first, m.last)
        BY <4>2 DEF AbsBuffer, Abstract!Chain
      <4> QED
        BY <2>1, <3>1, <4>3 DEF Abstract!AfterBuffer
    <3>3. CASE room.messages # <<>>
      <4>1. ~MustRestart(buf, m) /\ room = buf /\ msgs # <<>>
        BY <3>3 DEF NoPending
      <4>2. /\ grown.messages # <<>> /\ Len(grown.messages) = n + 1
            /\ grown.messages[1] = msgs[1] /\ grown.messages[n + 1] = m
        BY <1>1, <4>1
      <4>3. AbsBuffer(grown) = Abstract!Chain(msgs[1].first, m.last)
        BY <1>1, <4>2 DEF AbsBuffer, Abstract!Chain
      <4>4. m.first <= msgs[n].last + 1
        BY <4>1 DEF MustRestart, Continues
      <4>5. AbsBuffer(buf).first = msgs[1].first /\ AbsBuffer(buf).last = msgs[n].last
        BY <4>1 DEF AbsBuffer
      <4> QED
        BY <1>4, <2>1, <3>1, <4>1, <4>3, <4>4, <4>5 DEF Abstract!AfterBuffer
    <3> QED
      BY <3>2, <3>3
  <2> QED
    BY <2>2, <2>3
<1> QED
  BY <1>5, <1>6

(* What SeqSync sees of a sync: its buffer, or the number it is live at. *)
LEMMA AbsSyncCases ==
  ASSUME IInv
  PROVE  /\ ~live => AbsSync = AbsBuffer(pending)
         /\ live => AbsSync = Abstract!Live(last)
         /\ live \in BOOLEAN /\ last \in Nat
<1>1. live => pending.messages = <<>>
  BY IInvParts
<1>2. live \in BOOLEAN /\ last \in Nat
  BY DEF IInv, TypeOK
<1> QED
  BY <1>1, <1>2 DEF AbsSync, AbsBuffer, Abstract!Live

(* What SeqSync sees of invalidate(): what is buffered afterwards. *)
LEMMA InvalidateImplements ==
  ASSUME NEW buf, InvalidateKeeping(buf)
  PROVE  AbsSync' = AbsBuffer(buf)
BY DEF InvalidateKeeping, AbsSync, AbsBuffer

(* An empty buffer is SeqRules' Empty. *)
LEMMA EmptyBuffer == AbsBuffer(NoPending) = Abstract!Empty
BY DEF AbsBuffer, NoPending, Abstract!Empty

(* What SeqSync sees of check_crossed(): live, or emptied. *)
LEMMA GoLiveImplements ==
  ASSUME NEW b, NEW seq, NEW ok, GoLive(b, seq, ok)
  PROVE  AbsSync' \in {Abstract!Live(seq), Abstract!Empty}
<1>1. CASE Crossed(b)
  BY <1>1, InvalidateImplements, EmptyBuffer DEF GoLive, Invalidate
<1>2. CASE ~Crossed(b)
  BY <1>2 DEF GoLive, NoPending, AbsSync, Abstract!Live
<1> QED
  BY <1>1, <1>2

(* on_delta does what SeqSync allows for the delta's range. *)
LEMMA OnDeltaImplements ==
  ASSUME IInv, NEW first \in 1 .. now, NEW to \in 1 .. now, first <= to,
         NEW invalid \in BOOLEAN, OnDelta(Delta(first, to, invalid))
  PROVE  AbsSync' \in Abstract!AfterDelta(AbsSync, first, to)
<1> DEFINE m == Delta(first, to, invalid)
<1>1. m \in Message /\ m.first = first /\ m.last = to
  BY DeltaIsMessage DEF IInv, Delta
<1>2. GoodBuffer(pending) /\ GoodBuffer(NoPending)
  BY IInvParts, NoPendingIsGood
<1>3. OnDelta(m)
  OBVIOUS
<1> HIDE DEF m
<1>4. CASE DeltaBuffered(m)
  <2>1. AbsSync = AbsBuffer(pending) /\ AbsSync' = AbsBuffer(Buffer(pending, m))
    BY <1>4, AbsSyncCases DEF DeltaBuffered, AbsSync, AbsBuffer
  <2>2. AbsSync' \in Abstract!AfterBuffer(AbsSync, first, to)
    BY <1>1, <1>2, <2>1, BufferImplements
  <2>3. ~AbsSync.live
    BY <2>1 DEF AbsBuffer
  <2> QED
    BY <2>2, <2>3 DEF Abstract!AfterDelta
<1>5. CASE DeltaStale(m)
  <2>1. AbsSync' = AbsSync
    BY <1>5 DEF DeltaStale, AbsSync
  <2>2. AbsSync.live /\ to <= AbsSync.last
    BY <1>1, <1>5 DEF DeltaStale, AbsSync
  <2> QED
    BY <2>1, <2>2 DEF Abstract!AfterDelta
<1>6. CASE DeltaGap(m)
  <2>1. live /\ to > last /\ ~(first <= last + 1) /\ last \in Nat
    BY <1>1, <1>6, AbsSyncCases DEF DeltaGap, Continues
  <2>2. AbsSync.live /\ AbsSync.last = last
    BY <2>1 DEF AbsSync
  <2>3. AbsSync' = AbsBuffer(Buffer(NoPending, m))
    BY <1>6, InvalidateImplements DEF DeltaGap
  <2>4. AbsSync' \in Abstract!AfterBuffer(Abstract!Empty, first, to)
    BY <1>1, <1>2, <2>3, BufferImplements, EmptyBuffer
  <2> QED
    BY <2>1, <2>2, <2>4 DEF Abstract!AfterDelta
<1>7. CASE DeltaApplied(m)
  <2>1. live /\ to > last /\ first <= last + 1 /\ last \in Nat
    BY <1>1, <1>7, AbsSyncCases DEF DeltaApplied, Continues
  <2>2. AbsSync.live /\ AbsSync.last = last
    BY <2>1 DEF AbsSync
  <2>3. AbsSync' \in {Abstract!Live(to), Abstract!Empty}
    <3>1. CASE m.invalid
      BY <1>7, <3>1, InvalidateImplements, EmptyBuffer DEF DeltaApplied, Invalidate
    <3>2. CASE ~m.invalid
      BY <1>1, <1>7, <3>2, GoLiveImplements DEF DeltaApplied
    <3> QED
      BY <3>1, <3>2
  <2> QED
    BY <2>1, <2>2, <2>3 DEF Abstract!AfterDelta
<1> QED
  BY <1>3, <1>4, <1>5, <1>6, <1>7 DEF OnDelta

(* on_snapshot does what SeqSync allows for the snapshot's number. *)
LEMMA OnSnapshotImplements ==
  ASSUME IInv, NEW seq \in 0 .. now, OnSnapshot(seq)
  PROVE  AbsSync' \in Abstract!AfterSnapshot(AbsSync, seq)
<1> DEFINE msgs == pending.messages
           n == Len(msgs)
<1>1. GoodBuffer(pending) /\ (live => msgs = <<>>)
  BY IInvParts
<1>2. msgs \in Seq(Message) /\ IsChain(msgs) /\ seq \in Nat
  BY <1>1 DEF GoodBuffer
<1>3. n \in Nat /\ (msgs # <<>> => 1 \in 1 .. n /\ n \in 1 .. n)
  BY <1>2
<1>4. msgs # <<>> => msgs[1].first \in Nat \ {0} /\ msgs[n].last \in Nat /\ msgs[1].last \in Nat
                     /\ msgs[1].first <= msgs[1].last /\ msgs[1].last <= msgs[n].last
  <2> SUFFICES ASSUME msgs # <<>>
               PROVE  /\ msgs[1].first \in Nat \ {0} /\ msgs[n].last \in Nat /\ msgs[1].last \in Nat
                      /\ msgs[1].first <= msgs[1].last /\ msgs[1].last <= msgs[n].last
    OBVIOUS
  <2>1. msgs[1] \in Message /\ msgs[n] \in Message
    BY <1>2, <1>3
  <2>2. n = 1 \/ msgs[1].last < msgs[n].last
    <3> HIDE DEF n, msgs
    <3>1. n = 1 \/ 1 < n
      BY <1>3
    <3> QED
      BY <1>2, <1>3, <3>1 DEF IsChain, n
  <2> QED
    BY <2>1, <2>2, MessageFields
<1>5. /\ AbsSync.live = live
      /\ AbsSync.first = IF msgs = <<>> THEN 0 ELSE msgs[1].first
      /\ AbsSync.last = IF live THEN last ELSE IF msgs = <<>> THEN 0 ELSE msgs[n].last
      /\ live \in BOOLEAN /\ last \in Nat
  BY AbsSyncCases DEF AbsSync
<1>6. Abstract!Buffering(AbsSync) <=> ~live /\ msgs # <<>>
  BY <1>4, <1>5 DEF Abstract!Buffering
<1>7. CASE SnapshotIgnored(seq)
  <2>1. AbsSync' = AbsSync
    BY <1>7 DEF SnapshotIgnored, AbsSync
  <2> QED
    BY <1>5, <1>7, <2>1 DEF SnapshotIgnored, Abstract!AfterSnapshot
<1>8. CASE SnapshotInvalid(seq) \/ ReplayInvalid(seq)
  <2>1. AbsSync' = Abstract!Empty /\ ~(live /\ seq < last)
    BY <1>8, InvalidateImplements, EmptyBuffer DEF SnapshotInvalid, ReplayInvalid, Invalidate
  <2> QED
    BY <1>5, <2>1 DEF Abstract!AfterSnapshot
<1>9. CASE SnapshotTooOld(seq)
  <2>1. PICK i \in 1 .. n : Unreachable(msgs, seq, i)
    BY <1>9 DEF SnapshotTooOld
  <2>2. msgs # <<>> /\ ~live
    BY <1>1, <1>3, <2>1
  <2>3. i = 1
    <3> SUFFICES ASSUME i # 1 PROVE FALSE
      OBVIOUS
    <3>1. i - 1 \in 1 .. (n - 1) /\ (i - 1) + 1 = i /\ i - 1 \in 1 .. (i - 1)
      BY <1>3
    <3>2. Continues(msgs[i], msgs[i - 1].last) /\ msgs[i - 1].last \in Ends(msgs, i)
      BY <1>2, <3>1 DEF IsChain, Ends
    <3> QED
      BY <2>1, <3>2 DEF Unreachable
  <2>4. seq + 1 < msgs[1].first
    BY <1>2, <1>4, <2>1, <2>2, <2>3 DEF Unreachable, Continues
  <2>5. AbsSync' = AbsSync
    <3>1. AbsSync = AbsBuffer(pending)
      BY <2>2, AbsSyncCases
    <3>2. InvalidateKeeping(pending)
      BY <1>9 DEF SnapshotTooOld, InvalidateKeeping
    <3> QED
      BY <3>1, <3>2, InvalidateImplements
  <2> QED
    BY <1>5, <1>6, <2>2, <2>4, <2>5 DEF Abstract!AfterSnapshot
<1>10. CASE SnapshotLoaded(seq)
  <2> DEFINE to == FinalCursor(msgs, seq)
  <2>1. to = IF msgs # <<>> /\ msgs[n].last > seq THEN msgs[n].last ELSE seq
    BY <1>2, FinalCursorOnChain
  <2>2. AbsSync' \in {Abstract!Live(to), Abstract!Empty} /\ ~(live /\ seq < last)
    BY <1>10, GoLiveImplements DEF SnapshotLoaded
  <2>3. msgs # <<>> => ~(seq + 1 < msgs[1].first)
    <3> SUFFICES ASSUME msgs # <<>>, seq + 1 < msgs[1].first PROVE FALSE
      OBVIOUS
    <3>1. ~Unreachable(msgs, seq, 1)
      BY <1>2, <1>3, <1>10, NoStop DEF SnapshotLoaded
    <3>2. Ends(msgs, 1) = {}
      BY DEF Ends
    <3>3. Unreachable(msgs, seq, 1)
      BY <1>2, <1>4, <3>2 DEF Unreachable, Used, Continues
    <3> QED
      BY <3>1, <3>3
  <2> HIDE DEF to, msgs, n
  <2> QED
    BY <1>1, <1>2, <1>4, <1>5, <1>6, <2>1, <2>2, <2>3 DEF Abstract!AfterSnapshot
<1> QED
  BY <1>7, <1>8, <1>9, <1>10 DEF OnSnapshot

(* BookSync implements SeqSync: seen in sequence numbers only, a sync      *)
(* waits with one chain or is live, as SeqSync allows.                     *)
THEOREM Refinement == Spec => ImplementsSeqSync
<1>1. Init => Abstract!Init
  <2> SUFFICES ASSUME Init PROVE Abstract!Init
    OBVIOUS
  <2>1. pending.messages = <<>> /\ ~live /\ live = FALSE
    BY DEF Init, NoPending
  <2> QED
    BY <2>1 DEF Abstract!Init, Abstract!Empty
<1>2. IInv /\ [Next]_vars => [Abstract!Next]_AbsSync
  <2> SUFFICES ASSUME IInv, [Next]_vars PROVE Abstract!Next \/ UNCHANGED AbsSync
    OBVIOUS
  <2>0. now \in 0 .. MaxSeq /\ MaxSeq \in Nat
    BY MaxSeqAssumption DEF IInv, TypeOK
  <2>1. ASSUME NEW l \in Level, NEW q \in Qtys, VenueUpdate(l, q) PROVE UNCHANGED AbsSync
    BY <2>1 DEF VenueUpdate, AbsSync
  <2>2. ASSUME NEW first \in 1 .. now, NEW to \in 1 .. now, NEW invalid \in BOOLEAN,
               first <= to, OnDelta(Delta(first, to, invalid))
        PROVE  Abstract!Next
    <3>1. AbsSync' \in Abstract!AfterDelta(AbsSync, first, to)
      BY <2>2, OnDeltaImplements
    <3>2. first \in 1 .. MaxSeq /\ to \in 1 .. MaxSeq
      BY <2>0
    <3>3. Abstract!OnDelta(first, to)
      BY <3>1 DEF Abstract!OnDelta, AbsSync
    <3> QED
      BY <2>2, <3>2, <3>3 DEF Abstract!Next
  <2>3. ASSUME NEW seq \in 0 .. now, OnSnapshot(seq) PROVE Abstract!Next
    <3>1. AbsSync' \in Abstract!AfterSnapshot(AbsSync, seq)
      BY <2>3, OnSnapshotImplements
    <3>2. seq \in 0 .. MaxSeq
      BY <2>0
    <3>3. Abstract!OnSnapshot(seq)
      BY <3>1 DEF Abstract!OnSnapshot, AbsSync
    <3> QED
      BY <3>2, <3>3 DEF Abstract!Next
  <2>4. CASE Reset
    <3>1. AbsSync' = Abstract!Empty
      BY <2>4, InvalidateImplements, EmptyBuffer DEF Reset, Invalidate
    <3>2. Abstract!Reset
      BY <3>1 DEF Abstract!Reset, AbsSync
    <3> QED
      BY <3>2 DEF Abstract!Next
  <2>5. CASE UNCHANGED vars
    BY <2>5 DEF vars, AbsSync
  <2> QED
    BY <2>1, <2>2, <2>3, <2>4, <2>5 DEF Next
<1> QED
  BY <1>1, <1>2, Invariance, PTL DEF Spec, ImplementsSeqSync, Abstract!Spec, AbsSync

=============================================================================
