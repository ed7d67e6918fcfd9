------------------------------- MODULE BookSync -------------------------------
(***************************************************************************)
(* bowst-book: BookSync keeps an order book in step with a venue's         *)
(* snapshot-plus-delta feed (crates/bowst-book/src/sync.rs).               *)
(*                                                                         *)
(* The environment is a venue whose book changes one update at a time.  A  *)
(* delta covers a range of updates with the final quantity of every level  *)
(* that changed in it; a snapshot is the book at some update.  Nothing is  *)
(* assumed of delivery: any delta and any snapshot of the past may arrive  *)
(* next, so losses, duplicates, reordering and late snapshots are all      *)
(* behaviours of the model.  Deltas and snapshots may also carry invalid   *)
(* data, and the venue's own book may be crossed.                          *)
(*                                                                         *)
(* A book is a function from levels to quantities, 0 where no level is     *)
(* held: the ladders' bounded storage is not part of this module.  Neither *)
(* are the monitoring counters of SyncStats.                               *)
(***************************************************************************)
EXTENDS Integers, Sequences, FiniteSets

CONSTANTS
  Prices,             \* prices, in ticks
  Qtys,               \* quantities, in lots; 0 means no level
  BufferedMessages,   \* SyncConfig::buffered_messages
  BufferedUpdates,    \* SyncConfig::buffered_updates
  MaxSeq              \* bound on the number of venue updates

ASSUME PricesAssumption == Prices \subseteq Int /\ IsFiniteSet(Prices)
ASSUME QtysAssumption == Qtys \subseteq Nat /\ 0 \in Qtys
(* BookSync::new refuses zero sizes. *)
ASSUME SizesAssumption == /\ BufferedMessages \in Nat \ {0}
                          /\ BufferedUpdates \in Nat \ {0}
ASSUME MaxSeqAssumption == MaxSeq \in Nat

VARIABLES
  now,       \* the venue's last update
  venue,     \* venue[n]: the venue's book after update n
  live,      \* State::Live, or AwaitingSnapshot
  last,      \* the last applied sequence number, while live
  book,      \* BookSync::book
  pending,   \* the buffered deltas, and how many updates they hold
  result     \* what the last call returned

vars == <<now, venue, live, last, book, pending, result>>

Level == {"Buy", "Sell"} \X Prices

Book == [Level -> Qtys]

EmptyBook == [l \in Level |-> 0]

(* Book::is_crossed: best bid at or above best ask. *)
Crossed(b) ==
  \E bid, ask \in Prices :
    bid >= ask /\ b[<<"Buy", bid>>] # 0 /\ b[<<"Sell", ask>>] # 0

(***************************************************************************)
(* The venue (external).                                                   *)
(***************************************************************************)

(* The levels touched by the updates first..to. *)
Changed(first, to) ==
  {l \in Level : \E n \in (first - 1) .. to : venue[n][l] # venue[to][l]}

(* A depth message: the range it covers, the absolute quantities it sets,  *)
(* and whether one more of its updates fails Ladder's validation.          *)
Delta(first, to, invalid) ==
  [first   |-> first,
   last    |-> to,
   updates |-> [l \in Changed(first, to) |-> venue[to][l]],
   invalid |-> invalid]

VenueUpdate(l, q) ==
  /\ now < MaxSeq
  /\ q # venue[now][l]
  /\ now' = now + 1
  /\ venue' = [n \in 0 .. now + 1 |->
                 IF n <= now THEN venue[n] ELSE [venue[now] EXCEPT ![l] = q]]
  /\ UNCHANGED <<live, last, book, pending, result>>

(***************************************************************************)
(* The sync.                                                               *)
(***************************************************************************)

(* Mutant: one lost update goes unnoticed. *)
ContinuesOverHole(m, prev) == m.first <= prev + 2

(* SeqRange::continues: directly after `prev`, allowing overlap. *)
Continues(m, prev) == m.first <= prev + 1

NumUpdates(m) == Cardinality(DOMAIN m.updates) + (IF m.invalid THEN 1 ELSE 0)

NoPending == [messages |-> <<>>, updates |-> 0]

(* BookSync::buffer finds the delta already covered by the buffer. *)
AlreadyBuffered(buf, m) ==
  /\ buf.messages # <<>>
  /\ m.last <= buf.messages[Len(buf.messages)].last

(* Mutants: a broken chain is kept; a full buffer is. *)
MustRestartWhenFull(buf, m) == Len(buf.messages) >= BufferedMessages

MustRestartWhenBroken(buf, m) ==
  /\ buf.messages # <<>>
  /\ ~Continues(m, buf.messages[Len(buf.messages)].last)

(* BookSync::buffer restarts the buffer before it stores the delta: the    *)
(* chain is broken, or holds buffered_messages already.                    *)
MustRestart(buf, m) ==
  \/ /\ buf.messages # <<>>
     /\ ~Continues(m, buf.messages[Len(buf.messages)].last)
  \/ Len(buf.messages) >= BufferedMessages

(* BookSync::buffer.  A delta whose updates do not fit empties the buffer. *)
Buffer(buf, m) ==
  LET room == IF MustRestart(buf, m) THEN NoPending ELSE buf
      total == room.updates + NumUpdates(m)
  IN  IF AlreadyBuffered(buf, m) THEN buf
      ELSE IF total > BufferedUpdates THEN NoPending
      ELSE [messages |-> Append(room.messages, m), updates |-> total]

(* BookSync::invalidate, with what the buffer holds afterwards. *)
InvalidateKeeping(buf) ==
  /\ live' = FALSE
  /\ last' = 0
  /\ book' = EmptyBook
  /\ pending' = buf

Invalidate == InvalidateKeeping(NoPending)

(* Each update sets the absolute quantity of its level. *)
Apply(b, updates) ==
  [l \in Level |-> IF l \in DOMAIN updates THEN updates[l] ELSE b[l]]

(* check_crossed, run on the book `b` the sync has just moved to `seq`. *)
GoLive(b, seq, ok) ==
  IF Crossed(b)
    THEN Invalidate /\ result' = "Crossed"
    ELSE /\ live' = TRUE
         /\ last' = seq
         /\ book' = b
         /\ pending' = NoPending
         /\ result' = ok

(***************************************************************************)
(* BookSync::on_delta, one action per way out of it.                       *)
(***************************************************************************)
DeltaBuffered(m) ==
  /\ ~live
  /\ pending' = Buffer(pending, m)
  /\ result' = IF AlreadyBuffered(pending, m) THEN "Stale" ELSE "Buffered"
  /\ UNCHANGED <<live, last, book>>

DeltaStale(m) ==
  /\ live
  /\ m.last <= last
  /\ result' = "Stale"
  /\ UNCHANGED <<live, last, book, pending>>

(* Mutant: the gap is reported and the book left standing. *)
DeltaGapReported(m) ==
  /\ live
  /\ m.last > last
  /\ ~Continues(m, last)
  /\ result' = "Gap"
  /\ UNCHANGED <<live, last, book, pending>>

DeltaGap(m) ==
  /\ live
  /\ m.last > last
  /\ ~Continues(m, last)
  /\ InvalidateKeeping(Buffer(NoPending, m))
  /\ result' = "Gap"

DeltaApplied(m) ==
  /\ live
  /\ m.last > last
  /\ Continues(m, last)
  /\ IF m.invalid
       THEN Invalidate /\ result' = "Book"
       ELSE GoLive(Apply(book, m.updates), m.last, "Applied")

OnDelta(m) ==
  /\ DeltaBuffered(m) \/ DeltaStale(m) \/ DeltaGap(m) \/ DeltaApplied(m)
  /\ UNCHANGED <<now, venue>>

(***************************************************************************)
(* BookSync::on_snapshot.  The replay of the buffer is a loop over the     *)
(* messages with a cursor that starts at the snapshot and becomes the end  *)
(* of every message applied.  Before message i the cursor is therefore the *)
(* largest of the snapshot and the ends of the messages before i.          *)
(***************************************************************************)
Ends(msgs, i) == {msgs[j].last : j \in 1 .. (i - 1)}

(* `message.range.last <= cursor` is false *)
Used(msgs, seq, i) == \A c \in {seq} \cup Ends(msgs, i) : msgs[i].last > c

(* `!message.range.continues(cursor)` *)
Unreachable(msgs, seq, i) ==
  Used(msgs, seq, i) /\ \A c \in {seq} \cup Ends(msgs, i) : ~Continues(msgs[i], c)

InvalidUse(msgs, seq, i) ==
  /\ Used(msgs, seq, i)
  /\ ~Unreachable(msgs, seq, i)
  /\ msgs[i].invalid

(* Message i is the one that ends the loop early. *)
StopsAt(msgs, seq, i) ==
  /\ Unreachable(msgs, seq, i) \/ InvalidUse(msgs, seq, i)
  /\ \A j \in 1 .. (i - 1) : ~Unreachable(msgs, seq, j) /\ ~InvalidUse(msgs, seq, j)

(* Mutant: the cursor is not advanced by the messages replayed. *)
FinalCursorUnmoved(msgs, seq) == seq

FinalCursor(msgs, seq) ==
  LET cursors == {seq} \cup Ends(msgs, Len(msgs) + 1)
  IN  CHOOSE c \in cursors : \A d \in cursors : d <= c

(* The used messages that set level l *)
Setters(msgs, seq, l) ==
  {i \in 1 .. Len(msgs) : Used(msgs, seq, i) /\ l \in DOMAIN msgs[i].updates}

(* The snapshot's book after the whole loop: each level has the quantity   *)
(* of the last used message that sets it.                                  *)
Replayed(b, msgs, seq) ==
  [l \in Level |->
     IF Setters(msgs, seq, l) = {}
       THEN b[l]
       ELSE LET final == CHOOSE i \in Setters(msgs, seq, l) :
                           \A j \in Setters(msgs, seq, l) : j <= i
            IN  msgs[final].updates[l]]

SnapshotIgnored(seq) ==
  /\ live /\ seq < last
  /\ result' = "Unchanged"
  /\ UNCHANGED <<live, last, book, pending>>

SnapshotInvalid(seq) ==
  /\ ~(live /\ seq < last)
  /\ Invalidate
  /\ result' = "Book"

(* The buffer is kept for a newer snapshot. *)
SnapshotTooOld(seq) ==
  /\ ~(live /\ seq < last)
  /\ \E i \in 1 .. Len(pending.messages) :
       StopsAt(pending.messages, seq, i) /\ Unreachable(pending.messages, seq, i)
  /\ live' = FALSE
  /\ last' = 0
  /\ book' = EmptyBook
  /\ result' = "TooOld"
  /\ UNCHANGED pending

ReplayInvalid(seq) ==
  /\ ~(live /\ seq < last)
  /\ \E i \in 1 .. Len(pending.messages) :
       StopsAt(pending.messages, seq, i) /\ InvalidUse(pending.messages, seq, i)
  /\ Invalidate
  /\ result' = "Book"

SnapshotLoaded(seq) ==
  /\ ~(live /\ seq < last)
  /\ \A i \in 1 .. Len(pending.messages) : ~StopsAt(pending.messages, seq, i)
  /\ GoLive(Replayed(venue[seq], pending.messages, seq),
            FinalCursor(pending.messages, seq), "Loaded")

OnSnapshot(seq) ==
  /\ \/ SnapshotIgnored(seq)
     \/ SnapshotInvalid(seq)
     \/ SnapshotTooOld(seq)
     \/ ReplayInvalid(seq)
     \/ SnapshotLoaded(seq)
  /\ UNCHANGED <<now, venue>>

(* BookSync::reset *)
Reset ==
  /\ Invalidate
  /\ result' = "Reset"
  /\ UNCHANGED <<now, venue>>

Init ==
  /\ now = 0
  /\ venue = [n \in {0} |-> EmptyBook]
  /\ live = FALSE
  /\ last = 0
  /\ book = EmptyBook
  /\ pending = NoPending
  /\ result = "Reset"

Next ==
  \/ \E l \in Level, q \in Qtys : VenueUpdate(l, q)
  \/ \E first, to \in 1 .. now, invalid \in BOOLEAN :
       first <= to /\ OnDelta(Delta(first, to, invalid))
  \/ \E seq \in 0 .. now : OnSnapshot(seq)
  \/ Reset

Spec == Init /\ [][Next]_vars

-----------------------------------------------------------------------------
(***************************************************************************)
(* Properties.                                                             *)
(***************************************************************************)

(* A buffered delta is one the venue sent. *)
Message ==
  {m \in [first : 1 .. MaxSeq, last : 1 .. MaxSeq, updates : UNION {[D -> Qtys] : D \in SUBSET Level},
          invalid : BOOLEAN] : m.first <= m.last}

Results == {"Applied", "Buffered", "Stale", "Gap", "Crossed", "Book",
            "Loaded", "Unchanged", "TooOld", "Reset"}

TypeOK ==
  /\ now \in 0 .. MaxSeq
  /\ venue \in [0 .. now -> Book]
  /\ live \in BOOLEAN
  /\ last \in 0 .. now
  /\ book \in Book
  /\ pending.messages \in Seq(Message)
  /\ Len(pending.messages) <= BufferedMessages
  /\ pending.updates \in 0 .. BufferedUpdates
  /\ pending = [messages |-> pending.messages, updates |-> pending.updates]
  /\ result \in Results

(* A readable book is exactly the venue's book as of `last`, however       *)
(* deltas were lost, duplicated, reordered, buffered or replayed on top of *)
(* a snapshot of any age; and it is never crossed.  (sync.rs: "a stale or  *)
(* half-synchronized book can never be quoted from", the half-synchronized *)
(* part.)                                                                  *)
LiveBookIsVenueBook ==
  live => /\ book = venue[last]
          /\ ~Crossed(book)

(* The buffer is one unbroken, strictly advancing chain of deltas, and is  *)
(* empty while the book is live: a break, a full buffer or an              *)
(* invalidation never leaves a piece of an older chain behind.             *)
PendingIsOneChain ==
  LET msgs == pending.messages
  IN  /\ live => msgs = <<>>
      /\ \A i, j \in 1 .. Len(msgs) : i < j => msgs[i].last < msgs[j].last
      /\ \A i \in 1 .. (Len(msgs) - 1) : Continues(msgs[i + 1], msgs[i].last)

(* on_snapshot: "Buffered deltas are contiguous, so only the first one     *)
(* kept can fail here."  No snapshot, of whatever age, is refused because  *)
(* of a break inside the buffer, so one taken at first - 1 or later always *)
(* joins up with it.                                                       *)
OnlyFirstCanFail ==
  \A seq \in 0 .. now, i \in 1 .. Len(pending.messages) :
    StopsAt(pending.messages, seq, i) /\ Unreachable(pending.messages, seq, i)
      => i = 1 /\ seq + 1 < pending.messages[1].first

(* What a call returns tells the caller whether the book may be read:      *)
(* every error and every "Buffered" leaves the sync awaiting a snapshot    *)
(* with a cleared book, "Applied", "Loaded" and "Unchanged" leave it live. *)
(* MdBooks and MdSession rely on this to know when to ask for a snapshot.  *)
OutcomeMatchesState ==
  /\ result \in {"Applied", "Loaded", "Unchanged"} => live
  /\ result \in {"Buffered", "Gap", "Crossed", "Book", "TooOld", "Reset"} =>
       ~live /\ book = EmptyBook

(* Seen in sequence numbers only, every step of the sync is one that       *)
(* SeqSync allows: it goes live only on a snapshot that reaches its        *)
(* buffer, at the end of that buffer or at the snapshot if newer; while    *)
(* live it moves only forward over updates it has all received; a gap      *)
(* always takes it down; a snapshot too old for the buffer costs nothing.  *)
Abstract ==
  INSTANCE SeqSync WITH
    sync <- [live  |-> live,
             first |-> IF pending.messages = <<>> THEN 0 ELSE pending.messages[1].first,
             last  |-> IF live THEN last
                       ELSE IF pending.messages = <<>> THEN 0
                       ELSE pending.messages[Len(pending.messages)].last]

ImplementsSeqSync == Abstract!Spec

=============================================================================
