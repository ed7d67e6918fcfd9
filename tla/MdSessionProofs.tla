--------------------------- MODULE MdSessionProofs ---------------------------
(***************************************************************************)
(* Proofs about MdSession and MdReplay, for every number of instruments,   *)
(* of venue updates, of lost connections and of timeouts.                  *)
(***************************************************************************)
EXTENDS MdReplay, NatLemmas, FiniteSetTheorems, TLAPS

(***************************************************************************)
(* The inductive invariant.                                                *)
(***************************************************************************)

(* What the snapshot thread has fetched or is fetching. *)
Answers == results \o fetching

(* Of this connection's sync requests one is on its way for an instrument  *)
(* that is Requested, and none for any other.                              *)
RequestsAreMatched ==
  \A i \in Instruments :
    /\ states[i] = Requested <=> SyncRequests(i) # {}
    /\ \A k, l \in SyncRequests(i) : k = l

(* Nothing is on its way for a connection that is yet to come. *)
GenerationsArePast ==
  \A k \in 1 .. Len(Outstanding) :
    /\ Outstanding[k].generation <= generation
    /\ pc \in {"down", "stopped"} => Outstanding[k].generation < generation

(* An answer of this connection is newer than the connection, and than the *)
(* snapshot the live book was built on.                                    *)
AnswersAreFresh ==
  \A k \in 1 .. Len(Answers) :
    LET r == Answers[k]
    IN  /\ r.seq <= now[r.instrument]
        /\ r.generation = generation /\ r.seq # Failed =>
             /\ connectedAt[r.instrument] <= r.seq
             /\ IsLive(books, r.instrument) => books.syncs[r.instrument].base <= r.seq

(* One thread fetches them, so they are in the order of their snapshots. *)
AnswersAscend ==
  \A k, l \in 1 .. Len(Answers) :
    /\ k < l
    /\ Answers[k].instrument = Answers[l].instrument
    /\ Answers[l].seq # Failed
    => Answers[k].seq <= Answers[l].seq

(* What a book was built on: its snapshot, or what the stream delivered. *)
BooksAreOfTheStream ==
  \A i \in Instruments :
    LET s == books.syncs[i]
    IN  /\ sent[i] <= now[i] /\ connectedAt[i] <= now[i]
        /\ s.sync.live => /\ s.base <= now[i]
                          /\ s.sync.last = s.base \/ s.sync.last <= sent[i]
        /\ ~s.sync.live => s.sync.last <= sent[i]

(* The shadow's snapshot is no older than the one of the book it verifies. *)
ShadowIsNewer ==
  /\ ~books.shadow.loaded => ~books.shadow.book.sync.live
  /\ Verifying(books) # NoInstrument /\ books.shadow.book.sync.live =>
       books.syncs[Verifying(books)].base <= books.shadow.book.base

IInv ==
  /\ TypeOK
  /\ RequestsAreMatched
  /\ GenerationsArePast
  /\ AnswersAreFresh
  /\ AnswersAscend
  /\ BooksAreOfTheStream
  /\ ShadowIsNewer
  /\ LiveMeansIdle
  /\ LiveBookIsOfThisConnection
  /\ HandlerKnows
  /\ VerifiedBookIsLive

-----------------------------------------------------------------------------
(***************************************************************************)
(* What one call does to a book.                                           *)
(***************************************************************************)

(* The bounds, as the arithmetic below needs them. *)
LEMMA Bounds == MaxSeq \in Nat /\ MaxGeneration \in Nat /\ MaxTimeouts \in Nat
BY SessionBoundsAssumption

(* The states of a sync. *)
LEMMA SyncStateFacts ==
  /\ Empty \in SyncStates /\ ~Empty.live /\ Empty.last = 0
  /\ \A n \in 0 .. MaxSeq : Live(n) \in SyncStates /\ Live(n).live /\ Live(n).last = n
  /\ \A m, n \in 0 .. MaxSeq :
       Chain(m, n) \in SyncStates /\ ~Chain(m, n).live /\ Chain(m, n).last = n
<1>1. Empty \in SyncStates /\ ~Empty.live /\ Empty.last = 0
  BY Bounds DEF Empty, SyncStates
<1>2. \A n \in 0 .. MaxSeq : Live(n) \in SyncStates /\ Live(n).live /\ Live(n).last = n
  BY Bounds DEF Live, SyncStates
<1>3. \A m, n \in 0 .. MaxSeq :
       Chain(m, n) \in SyncStates /\ ~Chain(m, n).live /\ Chain(m, n).last = n
  BY DEF Chain, SyncStates
<1> QED BY <1>1, <1>2, <1>3

(* A delta never makes a book live.  One that leaves it live is on the     *)
(* snapshot it was on, either untouched or at the end of the delta.        *)
LEMMA AfterDeltaFacts ==
  ASSUME NEW s \in BookSyncs, NEW from \in 1 .. MaxSeq, NEW to \in 1 .. MaxSeq, from <= to,
         NEW t \in SyncDelta(s, from, to)
  PROVE  /\ t \in BookSyncs
         /\ t.sync.live => s.sync.live /\ t.base = s.base
         /\ t.sync.live => (t = s /\ to <= s.sync.last) \/ (t.sync.last = to /\ to > s.sync.last)
         /\ s.sync.live /\ to <= s.sync.last => t = s
         /\ ~t.sync.live => \/ t.sync.last = 0 \/ t.sync.last = to
                            \/ t.sync.last = s.sync.last /\ ~s.sync.live
<1>1. PICK u \in AfterDelta(s.sync, from, to) :
        t = [sync |-> u, base |-> IF u.live THEN s.base ELSE 0]
  BY DEF SyncDelta
<1>2. s.sync \in SyncStates /\ s.base \in 0 .. MaxSeq /\ s = [sync |-> s.sync, base |-> s.base]
  BY DEF BookSyncs
<1>3. ASSUME NEW v \in SyncStates, ~v.live, NEW w \in AfterBuffer(v, from, to)
      PROVE  /\ w \in SyncStates /\ ~w.live
             /\ w.last = 0 \/ w.last = to \/ w = v
  <2>1. w \in {v, Empty, Chain(from, to), Chain(v.first, to)}
    BY DEF AfterBuffer
  <2>2. v.first \in 0 .. MaxSeq /\ from \in 0 .. MaxSeq /\ to \in 0 .. MaxSeq
    BY Bounds DEF SyncStates
  <2> QED BY <1>3, <2>1, <2>2, SyncStateFacts
<1>4. Empty \in SyncStates /\ ~Empty.live /\ Empty.last = 0
  BY SyncStateFacts
<1>5. CASE ~s.sync.live
  <2>1. u \in AfterBuffer(s.sync, from, to)
    BY <1>1, <1>5 DEF AfterDelta
  <2>2. u \in SyncStates /\ ~u.live /\ (u.last = 0 \/ u.last = to \/ u = s.sync)
    BY <2>1, <1>2, <1>3, <1>5
  <2> QED BY <1>1, <1>5, <2>2, Bounds DEF BookSyncs
<1>6. CASE s.sync.live /\ to <= s.sync.last
  <2>1. u = s.sync
    BY <1>1, <1>6 DEF AfterDelta
  <2> QED BY <1>1, <1>2, <1>6, <2>1
<1>7. CASE s.sync.live /\ ~(to <= s.sync.last) /\ from > s.sync.last + 1
  <2>1. u \in AfterBuffer(Empty, from, to)
    BY <1>1, <1>7 DEF AfterDelta
  <2>2. u \in SyncStates /\ ~u.live /\ (u.last = 0 \/ u.last = to)
    BY <2>1, <1>3, <1>4
  <2> QED BY <1>1, <1>7, <2>2, Bounds DEF BookSyncs
<1>8. CASE s.sync.live /\ ~(to <= s.sync.last) /\ ~(from > s.sync.last + 1)
  <2>1. u \in {Live(to), Empty}
    BY <1>1, <1>8 DEF AfterDelta
  <2>2. u \in SyncStates /\ (u.live => u.last = to) /\ (~u.live => u.last = 0)
    BY <2>1, SyncStateFacts, Bounds
  <2>3. s.sync.last \in Int /\ to \in Int
    BY <1>2, Bounds DEF SyncStates
  <2> QED BY <1>1, <1>2, <1>8, <2>2, <2>3, Bounds DEF BookSyncs
<1> QED BY <1>5, <1>6, <1>7, <1>8

(* A snapshot for a book that is down makes it live on that snapshot, at   *)
(* the snapshot or at the end of what is buffered.                         *)
LEMMA AfterSnapshotFacts ==
  ASSUME NEW s \in BookSyncs, ~s.sync.live, NEW seq \in 0 .. MaxSeq,
         NEW t \in SyncSnapshot(s, seq)
  PROVE  /\ t \in BookSyncs
         /\ t.sync.live => t.base = seq /\ (t.sync.last = seq \/ t.sync.last = s.sync.last)
         /\ ~t.sync.live => t.sync.last = 0 \/ t.sync.last = s.sync.last
<1>1. PICK u \in AfterSnapshot(s.sync, seq) :
        t = [sync |-> u, base |-> IF ~u.live THEN 0
                                  ELSE IF s.sync.live /\ seq < s.sync.last THEN s.base
                                  ELSE seq]
  BY DEF SyncSnapshot
<1>2. s.sync \in SyncStates
  BY DEF BookSyncs
<1>3. u \in {s.sync, Empty, Live(s.sync.last), Live(seq)}
  BY <1>1 DEF AfterSnapshot
<1>4. /\ u \in SyncStates
      /\ u.live => u.last = seq \/ u.last = s.sync.last
      /\ ~u.live => u.last = 0 \/ u.last = s.sync.last
  <2>1. s.sync.last \in 0 .. MaxSeq
    BY <1>2 DEF SyncStates
  <2> QED BY <1>2, <1>3, <2>1, SyncStateFacts
<1> QED BY <1>1, <1>4, Bounds DEF BookSyncs

(***************************************************************************)
(* What one call does to the books of every instrument.                    *)
(***************************************************************************)

(* New books are all down, and verify nothing. *)
LEMMA NewBooksFacts ==
  /\ NewSync \in BookSyncs /\ ~NewSync.sync.live /\ NewSync.sync.last = 0 /\ NewSync.base = 0
  /\ NewBooks \in Books
  /\ \A i \in Instruments : NewBooks.syncs[i] = NewSync
  /\ NewBooks.shadow = NoShadow
  /\ NoShadow.instrument = NoInstrument /\ ~NoShadow.loaded /\ NoShadow.book = NewSync
<1>1. NewSync \in BookSyncs /\ ~NewSync.sync.live /\ NewSync.sync.last = 0 /\ NewSync.base = 0
  BY SyncStateFacts, Bounds DEF NewSync, BookSyncs
<1>2. NoShadow.instrument = NoInstrument /\ ~NoShadow.loaded /\ NoShadow.book = NewSync
  BY DEF NoShadow
<1>3. NoShadow \in [instrument : Instruments \cup {NoInstrument}, book : BookSyncs,
                    loaded : BOOLEAN]
  BY <1>1 DEF NoShadow
<1>4. NewBooks.shadow = NoShadow /\ \A i \in Instruments : NewBooks.syncs[i] = NewSync
  BY DEF NewBooks
<1>5. NewBooks \in Books
  BY <1>1, <1>3 DEF NewBooks, Books
<1> QED BY <1>1, <1>2, <1>4, <1>5

(* The parts of the books. *)
LEMMA BooksFields ==
  ASSUME NEW b \in Books
  PROVE  /\ b.syncs \in [Instruments -> BookSyncs]
         /\ b.shadow.instrument \in Instruments \cup {NoInstrument}
         /\ b.shadow.book \in BookSyncs
         /\ b.shadow.loaded \in BOOLEAN
BY DEF Books

(* Giving up a verification leaves the instruments' books alone. *)
LEMMA CancelFacts ==
  ASSUME NEW b \in Books
  PROVE  /\ CancelVerification(b) \in Books
         /\ CancelVerification(b).syncs = b.syncs
         /\ CancelVerification(b).shadow = NoShadow
BY NewBooksFacts DEF Books, CancelVerification, NoShadow

(* A verification is settled only between two live books at the same       *)
(* sequence number.  Either it goes on, or it ends; the book is taken down *)
(* exactly when the two differ.                                            *)
LEMMA SettleFacts ==
  ASSUME NEW b \in Books
  PROVE  LET v == SettleVerification(b)
             i == Verifying(b)
         IN  /\ v.books \in Books
             /\ \/ v.verdict = "none" /\ v.books = b
                \/ /\ v.verdict = "passed" /\ CanSettle(b)
                   /\ v.books.syncs = b.syncs /\ v.books.shadow = NoShadow
                \/ /\ v.verdict = "mismatch" /\ CanSettle(b)
                   /\ Differ(i, b.syncs[i], b.shadow.book)
                   /\ i \in Instruments
                   /\ v.books.syncs = [b.syncs EXCEPT ![i] = NewSync]
                   /\ v.books.shadow = NoShadow
<1> DEFINE i == Verifying(b)
           after == CancelVerification(b)
<1>1. CASE ~CanSettle(b)
  BY <1>1 DEF SettleVerification
<1>2. CASE CanSettle(b) /\ ~Differ(i, b.syncs[i], b.shadow.book)
  <2>1. SettleVerification(b) = [books |-> after, verdict |-> "passed"]
    BY <1>2 DEF SettleVerification
  <2> QED BY <1>2, <2>1, CancelFacts
<1>3. CASE CanSettle(b) /\ Differ(i, b.syncs[i], b.shadow.book)
  <2>1. SettleVerification(b) = [books |-> [after EXCEPT !.syncs[i] = NewSync],
                                 verdict |-> "mismatch"]
    BY <1>3 DEF SettleVerification
  <2>2. i \in Instruments
    BY <1>3, BooksFields DEF CanSettle, Verifying
  <2>3. after \in Books /\ after.syncs = b.syncs /\ after.shadow = NoShadow
    BY CancelFacts
  <2>0. PICK c : c = [after EXCEPT !.syncs[i] = NewSync]
    OBVIOUS
  <2>4. /\ c \in Books
        /\ c.syncs = [after.syncs EXCEPT ![i] = NewSync]
        /\ c.shadow = after.shadow
    <3> HIDE DEF after, i
    <3> QED BY <2>0, <2>2, <2>3, NewBooksFacts DEF Books
  <2>5. SettleVerification(b).books = c /\ SettleVerification(b).verdict = "mismatch"
    BY <2>0, <2>1
  <2> HIDE DEF after
  <2> QED BY <1>3, <2>2, <2>3, <2>4, <2>5
<1> QED BY <1>1, <1>2, <1>3

(* MdBooks::apply.  Only the instrument's own book is touched.  A book     *)
(* that goes down is reported down, and its verification ends with it.     *)
ApplyFacts(b, i, to, r) ==
  LET s == b.syncs[i]
      t == r.books.syncs[i]
  IN  /\ r.books \in Books
      /\ \A j \in Instruments : j # i => r.books.syncs[j] = b.syncs[j]
      /\ IF r.applied = "down" THEN s.sync.live /\ ~t.sync.live
                               ELSE t.sync.live <=> s.sync.live
      /\ t.sync.live => /\ t.base = s.base
                        /\ t.sync.last = s.sync.last \/ t.sync.last = to
      /\ ~t.sync.live => \/ t.sync.last = 0 \/ t.sync.last = to
                         \/ t.sync.last = s.sync.last /\ ~s.sync.live
      /\ s.sync.live /\ ~t.sync.live => Verifying(r.books) # i

(* The shadow goes with the stream, and never gets live by it. *)
ShadowFollows(b, r) ==
  \/ r.books.shadow = NoShadow
  \/ /\ Verifying(r.books) = Verifying(b)
     /\ r.books.shadow.loaded = b.shadow.loaded
     /\ r.books.shadow.book.sync.live =>
          b.shadow.book.sync.live /\ r.books.shadow.book.base = b.shadow.book.base

(* A mismatch is between two books that took the same stream up to `to`    *)
(* and of which one took the misreported update from its snapshot.         *)
MismatchFacts(b, i, to) ==
  /\ Verifying(b) = i
  /\ b.syncs[i].sync.live /\ b.shadow.book.sync.live
  /\ (b.syncs[i].base < Misreported[i] /\ Misreported[i] <= to) #
       (b.shadow.book.base < Misreported[i] /\ Misreported[i] <= to)

(* The three arms of apply. *)
LEMMA ApplyFailedFacts ==
  ASSUME NEW b \in Books, NEW i \in Instruments, NEW to \in 1 .. MaxSeq, NEW s \in BookSyncs,
         b.syncs[i].sync.live, ~s.sync.live, s.sync.last = 0 \/ s.sync.last = to,
         NEW r \in ApplyFailed(b, i, s)
  PROVE  ApplyFacts(b, i, to, r) /\ ShadowFollows(b, r) /\ r.verdict = "none"
<1>0. PICK down : down = [b EXCEPT !.syncs[i] = s]
  OBVIOUS
<1>1. /\ down \in Books /\ down.syncs = [b.syncs EXCEPT ![i] = s] /\ down.shadow = b.shadow
  BY <1>0 DEF Books
<1>2. /\ r.books = IF Verifying(b) = i THEN CancelVerification(down) ELSE down
      /\ r.applied = "down" /\ r.verdict = "none"
  BY <1>0 DEF ApplyFailed
<1>3. /\ r.books \in Books /\ r.books.syncs = [b.syncs EXCEPT ![i] = s]
      /\ r.books.shadow = IF Verifying(b) = i THEN NoShadow ELSE b.shadow
  BY <1>1, <1>2, CancelFacts
<1>4. /\ r.books.syncs[i] = s
      /\ \A j \in Instruments : j # i => r.books.syncs[j] = b.syncs[j]
  BY <1>3, BooksFields
<1>5. Verifying(r.books) # i
  BY <1>3, NewBooksFacts, InstrumentsAssumption DEF Verifying
<1>6. ShadowFollows(b, r)
  BY <1>3 DEF ShadowFollows, Verifying
<1> QED BY <1>2, <1>3, <1>4, <1>5, <1>6 DEF ApplyFacts

(* MdBooks::apply when the delta leaves the book as live as it was and     *)
(* reports nothing.                                                        *)
LEMMA ApplyQuietFacts ==
  ASSUME NEW b \in Books, NEW i \in Instruments,
         NEW from \in 1 .. MaxSeq, NEW to \in 1 .. MaxSeq, from <= to,
         NEW s \in BookSyncs, s.sync.live <=> b.syncs[i].sync.live,
         s.sync.live => s = b.syncs[i],
         ~s.sync.live => \/ s.sync.last = 0 \/ s.sync.last = to
                         \/ s.sync.last = b.syncs[i].sync.last,
         NEW r \in ApplyQuiet(b, i, s, from, to)
  PROVE  ApplyFacts(b, i, to, r) /\ ShadowFollows(b, r) /\ r.verdict = "none"
<1>1. PICK t \in IF Verifying(b) = i THEN SyncDelta(b.shadow.book, from, to) ELSE {b.shadow.book} :
        r = [books   |-> [b EXCEPT !.syncs[i] = s, !.shadow.book = t],
             applied |-> "quiet", verdict |-> "none"]
  BY DEF ApplyQuiet
<1>2. /\ t \in BookSyncs
      /\ t.sync.live => b.shadow.book.sync.live /\ t.base = b.shadow.book.base
  BY <1>1, BooksFields, AfterDeltaFacts
<1>0. PICK c : c = [b EXCEPT !.syncs[i] = s, !.shadow.book = t]
  OBVIOUS
<1>3. /\ c \in Books
      /\ c.syncs = [b.syncs EXCEPT ![i] = s]
      /\ c.shadow.instrument = b.shadow.instrument
      /\ c.shadow.loaded = b.shadow.loaded
      /\ c.shadow.book = t
  BY <1>0, <1>2 DEF Books
<1>4. r.books = c /\ r.applied = "quiet" /\ r.verdict = "none"
  BY <1>0, <1>1
<1>5. /\ c.syncs[i] = s
      /\ \A j \in Instruments : j # i => c.syncs[j] = b.syncs[j]
  BY <1>3, BooksFields
<1>6. ShadowFollows(b, r)
  BY <1>2, <1>3, <1>4 DEF ShadowFollows, Verifying
<1>7. r.applied # "down"
  BY <1>4
<1> QED BY <1>3, <1>4, <1>5, <1>6, <1>7 DEF ApplyFacts

(* MdBooks::apply when the book is live before and after the delta: the    *)
(* shadow follows it, and may be settled.                                  *)
LEMMA ApplyLiveFacts ==
  ASSUME NEW b \in Books, NEW i \in Instruments,
         NEW from \in 1 .. MaxSeq, NEW to \in 1 .. MaxSeq, from <= to,
         NEW s \in BookSyncs, b.syncs[i].sync.live, s.sync.live,
         s.base = b.syncs[i].base, s.sync.last = to,
         NEW r \in ApplyLive(b, i, s, from, to)
  PROVE  /\ ApplyFacts(b, i, to, r) /\ ShadowFollows(b, r)
         /\ r.verdict = "mismatch" => MismatchFacts(b, i, to)
<1>1. CASE Verifying(b) # i
  <2>0. PICK c : c = [b EXCEPT !.syncs[i] = s]
    OBVIOUS
  <2>1. /\ c \in Books /\ c.syncs = [b.syncs EXCEPT ![i] = s] /\ c.shadow = b.shadow
    BY <2>0 DEF Books
  <2>2. r.books = c /\ r.applied = "book" /\ r.verdict = "none"
    BY <1>1, <2>0 DEF ApplyLive
  <2>3. /\ r.applied # "down" /\ r.verdict # "mismatch"
        /\ c.syncs[i] = s /\ \A j \in Instruments : j # i => c.syncs[j] = b.syncs[j]
    BY <2>1, <2>2, BooksFields
  <2>4. ShadowFollows(b, r)
    BY <2>1, <2>2 DEF ShadowFollows, Verifying
  <2> QED BY <2>1, <2>2, <2>3, <2>4 DEF ApplyFacts
<1>2. CASE Verifying(b) = i
  <2>1. PICK t \in SyncDelta(b.shadow.book, from, to) :
          LET v == SettleVerification([b EXCEPT !.syncs[i] = s, !.shadow.book = t])
          IN  r = [books   |-> v.books,
                   applied |-> IF v.verdict = "mismatch" THEN "down" ELSE "book",
                   verdict |-> v.verdict]
    BY <1>2 DEF ApplyLive
  <2>2. PICK c : c = [b EXCEPT !.syncs[i] = s, !.shadow.book = t]
    OBVIOUS
  <2>3. PICK v : v = SettleVerification(c)
    OBVIOUS
  <2>4. /\ r.books = v.books /\ r.verdict = v.verdict
        /\ r.applied = IF v.verdict = "mismatch" THEN "down" ELSE "book"
    BY <2>1, <2>2, <2>3
  <2>5. /\ t \in BookSyncs
        /\ t.sync.live => b.shadow.book.sync.live /\ t.base = b.shadow.book.base
    BY BooksFields, AfterDeltaFacts
  <2>6. /\ c \in Books
        /\ c.syncs = [b.syncs EXCEPT ![i] = s]
        /\ c.shadow.instrument = i
        /\ c.shadow.loaded = b.shadow.loaded
        /\ c.shadow.book = t
    BY <1>2, <2>2, <2>5 DEF Books, Verifying
  <2>7. c.syncs[i] = s /\ \A j \in Instruments : j # i => c.syncs[j] = b.syncs[j]
    BY <2>6, BooksFields
  <2>8. CASE v.verdict = "none" /\ v.books = c
    <3>1. r.books = c /\ r.applied # "down" /\ r.verdict # "mismatch"
      BY <2>4, <2>8
    <3>2. ShadowFollows(b, r)
      BY <1>2, <2>5, <2>6, <3>1 DEF ShadowFollows, Verifying
    <3> QED BY <2>6, <2>7, <3>1, <3>2 DEF ApplyFacts
  <2>9. CASE /\ v.verdict = "passed" /\ v.books \in Books
             /\ v.books.syncs = c.syncs /\ v.books.shadow = NoShadow
    <3>1. r.books = v.books /\ r.applied # "down" /\ r.verdict # "mismatch"
      BY <2>4, <2>9
    <3>2. ShadowFollows(b, r)
      BY <2>9, <3>1 DEF ShadowFollows
    <3> QED BY <2>7, <2>9, <3>1, <3>2 DEF ApplyFacts
  <2>10. CASE /\ v.verdict = "mismatch" /\ v.books \in Books /\ CanSettle(c)
              /\ Differ(i, c.syncs[i], c.shadow.book)
              /\ v.books.syncs = [c.syncs EXCEPT ![i] = NewSync]
              /\ v.books.shadow = NoShadow
    <3>1. r.books = v.books /\ r.applied = "down" /\ r.verdict = "mismatch"
      BY <2>4, <2>10
    <3>2. /\ r.books.syncs[i] = NewSync
          /\ \A j \in Instruments : j # i => r.books.syncs[j] = b.syncs[j]
      BY <2>6, <2>7, <2>10, <3>1, BooksFields
    <3>3. Verifying(r.books) # i
      BY <2>10, <3>1, NewBooksFacts, InstrumentsAssumption DEF Verifying
    <3>4. ShadowFollows(b, r)
      BY <2>10, <3>1 DEF ShadowFollows
    <3>5. ApplyFacts(b, i, to, r)
      BY <2>10, <3>1, <3>2, <3>3, NewBooksFacts DEF ApplyFacts
    <3>6. t.sync.live /\ s.sync.last = t.sync.last
      BY <2>6, <2>7, <2>10 DEF CanSettle, Verifying
    <3>7. IsWrong(i, s) # IsWrong(i, t)
      BY <2>6, <2>7, <2>10, <3>6 DEF Differ
    <3>8. MismatchFacts(b, i, to)
      BY <1>2, <2>5, <3>6, <3>7 DEF MismatchFacts, IsWrong
    <3> QED BY <3>4, <3>5, <3>8
  <2>11. /\ v.books \in Books
         /\ \/ v.verdict = "none" /\ v.books = c
            \/ v.verdict = "passed" /\ v.books.syncs = c.syncs /\ v.books.shadow = NoShadow
            \/ /\ v.verdict = "mismatch" /\ CanSettle(c)
               /\ Differ(i, c.syncs[i], c.shadow.book)
               /\ v.books.syncs = [c.syncs EXCEPT ![i] = NewSync]
               /\ v.books.shadow = NoShadow
    <3>1. Verifying(c) = i
      BY <2>6 DEF Verifying
    <3> QED BY <2>3, <2>6, <3>1, SettleFacts
  <2> QED BY <2>8, <2>9, <2>10, <2>11
<1> QED BY <1>1, <1>2

(* All of apply. *)
LEMMA ApplyOutcome ==
  ASSUME NEW b \in Books, NEW i \in Instruments,
         NEW from \in 1 .. MaxSeq, NEW to \in 1 .. MaxSeq, from <= to,
         NEW r \in Apply(b, i, from, to)
  PROVE  /\ ApplyFacts(b, i, to, r) /\ ShadowFollows(b, r)
         /\ r.verdict = "mismatch" => MismatchFacts(b, i, to)
<1>1. PICK s \in SyncDelta(b.syncs[i], from, to) :
        r \in IF IsLive(b, i) /\ ~s.sync.live THEN ApplyFailed(b, i, s)
              ELSE IF IsLive(b, i) /\ to > b.syncs[i].sync.last THEN ApplyLive(b, i, s, from, to)
              ELSE ApplyQuiet(b, i, s, from, to)
  BY DEF Apply
<1> DEFINE o == b.syncs[i]
<1>2. o \in BookSyncs /\ o.sync.last \in Int /\ to \in Int
  BY BooksFields, Bounds DEF BookSyncs, SyncStates
<1> HIDE DEF o
<1>3. /\ s \in BookSyncs
      /\ s.sync.live => o.sync.live /\ s.base = o.base
      /\ s.sync.live => (s = o /\ to <= o.sync.last) \/ (s.sync.last = to /\ to > o.sync.last)
      /\ o.sync.live /\ to <= o.sync.last => s = o
      /\ ~s.sync.live => \/ s.sync.last = 0 \/ s.sync.last = to
                         \/ s.sync.last = o.sync.last /\ ~o.sync.live
  BY <1>1, <1>2, AfterDeltaFacts DEF o
<1>4. CASE o.sync.live /\ ~s.sync.live
  <2>1. r \in ApplyFailed(b, i, s)
    BY <1>1, <1>4 DEF IsLive, o
  <2> QED BY <1>3, <1>4, <2>1, ApplyFailedFacts DEF o
<1>5. CASE o.sync.live /\ s.sync.live /\ to > o.sync.last
  <2>1. r \in ApplyLive(b, i, s, from, to)
    BY <1>1, <1>5 DEF IsLive, o
  <2>2. s.sync.last = to
    BY <1>2, <1>3, <1>5
  <2> QED BY <1>3, <1>5, <2>1, <2>2, ApplyLiveFacts DEF o
<1>6. CASE ~o.sync.live \/ (s.sync.live /\ ~(to > o.sync.last))
  <2>1. r \in ApplyQuiet(b, i, s, from, to)
    BY <1>1, <1>6 DEF IsLive, o
  <2>2. (s.sync.live <=> o.sync.live) /\ (s.sync.live => s = o)
    BY <1>2, <1>3, <1>6
  <2>3. ~s.sync.live => s.sync.last = 0 \/ s.sync.last = to \/ s.sync.last = o.sync.last
    BY <1>3
  <2>4. ApplyFacts(b, i, to, r) /\ ShadowFollows(b, r) /\ r.verdict = "none"
    BY <1>3, <2>1, <2>2, <2>3, ApplyQuietFacts DEF o
  <2> QED BY <2>4
<1> QED BY <1>4, <1>5, <1>6

(* MdBooks::on_snapshot, of an instrument that is down. *)
LEMMA OnSnapshotFacts ==
  ASSUME NEW b \in Books, NEW i \in Instruments, ~IsLive(b, i), NEW seq \in 0 .. MaxSeq,
         NEW r \in OnSnapshot(b, i, seq)
  PROVE  LET s == b.syncs[i]
             t == r.books.syncs[i]
         IN  /\ r.books \in Books /\ r.books.shadow = b.shadow
             /\ \A j \in Instruments : j # i => r.books.syncs[j] = b.syncs[j]
             /\ t.sync.live => /\ r.outcome = "Live" /\ t.base = seq
                               /\ t.sync.last = seq \/ t.sync.last = s.sync.last
             /\ ~t.sync.live => /\ r.outcome \in {"Invalid", "TooOld"}
                                /\ t.sync.last = 0 \/ t.sync.last = s.sync.last
<1>1. PICK t \in SyncSnapshot(b.syncs[i], seq) :
        r = [books   |-> [b EXCEPT !.syncs[i] = t],
             outcome |-> IF IsLive(b, i) /\ seq < b.syncs[i].sync.last THEN "Unchanged"
                         ELSE IF t.sync.live THEN "Live"
                         ELSE IF t.sync = Empty THEN "Invalid"
                         ELSE "TooOld"]
  BY DEF OnSnapshot
<1>2. /\ t \in BookSyncs
      /\ t.sync.live => t.base = seq /\ (t.sync.last = seq \/ t.sync.last = b.syncs[i].sync.last)
      /\ ~t.sync.live => t.sync.last = 0 \/ t.sync.last = b.syncs[i].sync.last
  BY BooksFields, AfterSnapshotFacts DEF IsLive
<1>3. /\ r.books \in Books /\ r.books.syncs = [b.syncs EXCEPT ![i] = t]
      /\ r.books.shadow = b.shadow
  BY <1>1, <1>2 DEF Books
<1>4. /\ r.books.syncs[i] = t
      /\ \A j \in Instruments : j # i => r.books.syncs[j] = b.syncs[j]
  BY <1>3, BooksFields
<1>5. r.outcome = IF t.sync.live THEN "Live" ELSE IF t.sync = Empty THEN "Invalid" ELSE "TooOld"
  BY <1>1
<1> QED BY <1>2, <1>3, <1>4, <1>5

(* MdBooks::on_verification_snapshot, of the instrument being verified. *)
OnVerificationFacts(b, i, seq, r) ==
  /\ r.books \in Books
  /\ r.outcome = "NotRunning" => r.books = b
  /\ r.outcome = "Pending" => /\ r.books.syncs = b.syncs
                              /\ Verifying(r.books) = i
                              /\ r.books.shadow.loaded
                              /\ r.books.shadow.book.base = seq
  /\ r.outcome \notin {"NotRunning", "Pending"} => r.books.shadow = NoShadow
  /\ r.outcome = "Failed" => r.books.syncs = [b.syncs EXCEPT ![i] = NewSync]
  /\ r.outcome # "Failed" => r.books.syncs = b.syncs

(* A mismatch found when the snapshot arrives. *)
MismatchAtSnapshot(b, i, seq) ==
  LET s == b.syncs[i]
  IN  /\ s.sync.live
      /\ (s.base < Misreported[i] /\ Misreported[i] <= s.sync.last) #
           (seq < Misreported[i] /\ Misreported[i] <= s.sync.last)

(* MdBooks::on_verification_snapshot while the instrument is verified.     *)
LEMMA OnVerificationOutcome ==
  ASSUME NEW b \in Books, NEW i \in Instruments, Verifying(b) = i, NEW seq \in 0 .. MaxSeq,
         ~b.shadow.loaded => ~b.shadow.book.sync.live,
         NEW r \in OnVerificationSnapshot(b, i, seq)
  PROVE  /\ OnVerificationFacts(b, i, seq, r)
         /\ r.outcome = "Failed" => MismatchAtSnapshot(b, i, seq)
<1>1. CASE b.shadow.loaded
  <2>1. r.books = b /\ r.outcome = "NotRunning"
    BY <1>1 DEF OnVerificationSnapshot
  <2> QED BY <2>1 DEF OnVerificationFacts
<1>2. CASE ~b.shadow.loaded
  <2>1. PICK s \in SyncSnapshot(b.shadow.book, seq) :
          LET v == SettleVerification([b EXCEPT !.shadow.book = s, !.shadow.loaded = TRUE])
          IN  r = IF ~s.sync.live
                    THEN [books |-> CancelVerification(b), outcome |-> "Unusable"]
                    ELSE [books   |-> v.books,
                          outcome |-> CASE v.verdict = "mismatch" -> "Failed"
                                        [] v.verdict = "passed" -> "Passed"
                                        [] v.verdict = "none" -> "Pending"]
    BY <1>2 DEF OnVerificationSnapshot
  <2>2. s \in BookSyncs /\ (s.sync.live => s.base = seq)
    BY <1>2, BooksFields, AfterSnapshotFacts
  <2>3. CASE ~s.sync.live
    <3>1. r.books = CancelVerification(b) /\ r.outcome = "Unusable"
      BY <2>1, <2>3
    <3> QED BY <3>1, CancelFacts DEF OnVerificationFacts
  <2>4. CASE s.sync.live
    <3>1. PICK c : c = [b EXCEPT !.shadow.book = s, !.shadow.loaded = TRUE]
      OBVIOUS
    <3>2. PICK v : v = SettleVerification(c)
      OBVIOUS
    <3>3. /\ r.books = v.books
          /\ r.outcome = CASE v.verdict = "mismatch" -> "Failed"
                           [] v.verdict = "passed" -> "Passed"
                           [] v.verdict = "none" -> "Pending"
      BY <2>1, <2>4, <3>1, <3>2
    <3>4. /\ c \in Books /\ c.syncs = b.syncs
          /\ c.shadow.instrument = i /\ c.shadow.loaded /\ c.shadow.book = s
      BY <2>2, <3>1 DEF Books, Verifying
    <3>5. Verifying(c) = i
      BY <3>4 DEF Verifying
    <3>6. /\ v.books \in Books
          /\ \/ v.verdict = "none" /\ v.books = c
             \/ v.verdict = "passed" /\ v.books.syncs = c.syncs /\ v.books.shadow = NoShadow
             \/ /\ v.verdict = "mismatch" /\ CanSettle(c)
                /\ Differ(i, c.syncs[i], c.shadow.book)
                /\ v.books.syncs = [c.syncs EXCEPT ![i] = NewSync]
                /\ v.books.shadow = NoShadow
      BY <3>2, <3>4, <3>5, SettleFacts
    <3>7. CASE v.verdict = "none" /\ v.books = c
      <4>1. r.outcome = "Pending" /\ r.books = c
        BY <3>3, <3>7
      <4> QED BY <2>2, <2>4, <3>4, <3>5, <4>1 DEF OnVerificationFacts
    <3>8. CASE v.verdict = "passed" /\ v.books.syncs = c.syncs /\ v.books.shadow = NoShadow
      <4>1. r.outcome = "Passed" /\ r.books = v.books
        BY <3>3, <3>8
      <4> QED BY <3>4, <3>6, <3>8, <4>1 DEF OnVerificationFacts
    <3>9. CASE /\ v.verdict = "mismatch" /\ CanSettle(c)
               /\ Differ(i, c.syncs[i], c.shadow.book)
               /\ v.books.syncs = [c.syncs EXCEPT ![i] = NewSync]
               /\ v.books.shadow = NoShadow
      <4>1. r.outcome = "Failed" /\ r.books = v.books
        BY <3>3, <3>9
      <4>2. OnVerificationFacts(b, i, seq, r)
        BY <3>4, <3>6, <3>9, <4>1 DEF OnVerificationFacts
      <4>3. b.syncs[i].sync.live /\ b.syncs[i].sync.last = s.sync.last
        BY <3>4, <3>5, <3>9 DEF CanSettle, IsLive
      <4>4. IsWrong(i, b.syncs[i]) # IsWrong(i, s)
        BY <3>4, <3>9, <4>3 DEF Differ
      <4>5. MismatchAtSnapshot(b, i, seq)
        BY <2>2, <2>4, <4>3, <4>4 DEF IsWrong, MismatchAtSnapshot
      <4> QED BY <4>2, <4>5
    <3> QED BY <3>6, <3>7, <3>8, <3>9
  <2> QED BY <2>3, <2>4
<1> QED BY <1>1, <1>2

-----------------------------------------------------------------------------
(***************************************************************************)
(* The pipeline of jobs and answers.                                       *)
(***************************************************************************)

(* What is on its way: the answers, and behind them the jobs. *)
PipelineShape ==
  /\ Len(Answers) \in Nat /\ Len(jobs) \in Nat
  /\ Len(Outstanding) = Len(Answers) + Len(jobs)
  /\ \A k \in 1 .. Len(Answers) : Answers[k] \in Results /\ Outstanding[k] = Answers[k]
  /\ \A k \in 1 .. Len(jobs) : jobs[k] \in Jobs /\ Outstanding[Len(Answers) + k] = jobs[k]
  /\ \A k \in 1 .. Len(Outstanding) :
       /\ Outstanding[k].instrument \in Instruments
       /\ Outstanding[k].generation \in 0 .. MaxGeneration
       /\ Outstanding[k].purpose \in {Sync, Verification}

(* It has that shape whenever its parts are well-formed. *)
LEMMA PipelineIsShaped == TypeOK => PipelineShape
<1> SUFFICES ASSUME TypeOK PROVE PipelineShape
  OBVIOUS
<1>1. results \in Seq(Results) /\ fetching \in Seq(Results) /\ jobs \in Seq(Jobs)
  <2>1. fetching \in Seq(Results)
    <3>1. CASE fetching = <<>>
      BY <3>1
    <3>2. CASE \E r \in Results : fetching = <<r>>
      BY <3>2
    <3> QED BY <3>1, <3>2 DEF TypeOK
  <2> QED BY <2>1 DEF TypeOK
<1>2. /\ Answers \in Seq(Results) /\ Len(Answers) \in Nat /\ Len(jobs) \in Nat
  BY <1>1 DEF Answers
<1>3. \A k \in 1 .. Len(Answers) : Answers[k] \in Results
  BY <1>2
<1>4. \A k \in 1 .. Len(jobs) : jobs[k] \in Jobs
  BY <1>1
<1>5. Outstanding = Answers \o jobs
  BY DEF Outstanding, Answers
<1>6. /\ Len(Outstanding) = Len(Answers) + Len(jobs)
      /\ \A k \in 1 .. Len(Answers) : Outstanding[k] = Answers[k]
      /\ \A k \in 1 .. Len(jobs) : Outstanding[Len(Answers) + k] = jobs[k]
  BY <1>1, <1>2, <1>5
<1>7. ASSUME NEW k \in 1 .. Len(Outstanding)
      PROVE  /\ Outstanding[k].instrument \in Instruments
             /\ Outstanding[k].generation \in 0 .. MaxGeneration
             /\ Outstanding[k].purpose \in {Sync, Verification}
  <2>1. CASE k \in 1 .. Len(Answers)
    BY <2>1, <1>3, <1>6 DEF Results
  <2>2. CASE k \notin 1 .. Len(Answers)
    <3>1. PICK j \in 1 .. Len(jobs) : k = Len(Answers) + j
      <4>1. k - Len(Answers) \in 1 .. Len(jobs) /\ k = Len(Answers) + (k - Len(Answers))
        BY <1>2, <1>6, <2>2
      <4> QED BY <4>1
    <3> QED BY <3>1, <1>4, <1>6 DEF Jobs
  <2> QED BY <2>1, <2>2
<1> QED BY <1>2, <1>3, <1>4, <1>6, <1>7 DEF PipelineShape

(* The pipeline after a step keeps every request in its place. *)
KeepsPipeline ==
  /\ Len(Outstanding') = Len(Outstanding)
  /\ \A k \in 1 .. Len(Outstanding) :
       /\ Outstanding'[k].instrument = Outstanding[k].instrument
       /\ Outstanding'[k].generation = Outstanding[k].generation
       /\ Outstanding'[k].purpose = Outstanding[k].purpose

(* What the requests promise survives such a step. *)
LEMMA KeptRequests ==
  ASSUME KeepsPipeline, generation' = generation, states' = states, pc' = pc,
         RequestsAreMatched, GenerationsArePast
  PROVE  RequestsAreMatched' /\ GenerationsArePast'
<1>1. \A i : SyncRequests(i)' = SyncRequests(i)
  BY DEF SyncRequests, KeepsPipeline
<1>2. RequestsAreMatched'
  BY <1>1 DEF RequestsAreMatched
<1>3. GenerationsArePast'
  BY DEF GenerationsArePast, KeepsPipeline
<1> QED BY <1>2, <1>3

(* Taking a job turns it into the youngest answer. *)
LEMMA TakeJobPipeline ==
  ASSUME TypeOK, TakeJob
  PROVE  /\ TypeOK' /\ KeepsPipeline
         /\ Len(Answers') = Len(Answers) + 1
         /\ \A k \in 1 .. Len(Answers) : Answers'[k] = Answers[k]
         /\ \E i \in Instruments :
              /\ Answers'[Len(Answers) + 1].instrument = i
              /\ Answers'[Len(Answers) + 1].seq = now[i]
<1> DEFINE job == Head(jobs)
           r == [instrument |-> job.instrument, generation |-> job.generation,
                 purpose |-> job.purpose, seq |-> now[job.instrument]]
<1>1. /\ jobs \in Seq(Jobs) /\ jobs # <<>> /\ job \in Jobs /\ fetching = <<>>
      /\ results \in Seq(Results) /\ now \in [Instruments -> 0 .. MaxSeq]
  BY DEF TypeOK, TakeJob
<1>2. r \in Results
  BY <1>1, Bounds DEF Jobs, Results
<1>3. fetching' = <<r>> /\ jobs' = Tail(jobs) /\ results' = results
  BY DEF TakeJob
<1>4. jobs' \in Seq(Jobs) /\ Len(jobs') = Len(jobs) - 1
      /\ \A k \in 1 .. Len(jobs) - 1 : jobs'[k] = jobs[k + 1]
  BY <1>1, <1>3
<1>5. TypeOK'
  BY <1>2, <1>3, <1>4 DEF TypeOK, TakeJob, streamVars, bookVars
<1>6. Answers = results /\ Answers' = results \o <<r>>
  BY <1>1, <1>3 DEF Answers
<1>7. PipelineShape /\ PipelineShape'
  <2>1. TypeOK' => PipelineShape'
    BY PipelineIsShaped, PTL
  <2> QED BY <1>5, <2>1, PipelineIsShaped
<1>8. /\ Len(Answers') = Len(Answers) + 1
      /\ \A k \in 1 .. Len(Answers) : Answers'[k] = Answers[k]
      /\ Answers'[Len(Answers) + 1] = r
  <2> HIDE DEF r
  <2> QED BY <1>1, <1>2, <1>6
<1>9. job = jobs[1] /\ Len(jobs) > 0 /\ Len(jobs) \in Nat
  BY <1>1
<1>10. ASSUME NEW k \in 1 .. Len(Outstanding)
       PROVE  /\ Outstanding'[k].instrument = Outstanding[k].instrument
              /\ Outstanding'[k].generation = Outstanding[k].generation
              /\ Outstanding'[k].purpose = Outstanding[k].purpose
  <2>1. CASE k \in 1 .. Len(Answers)
    BY <1>7, <1>8, <2>1 DEF PipelineShape
  <2>2. CASE k = Len(Answers) + 1
    <3>1. Outstanding[k] = job
      BY <1>7, <1>9, <2>2 DEF PipelineShape
    <3>2. Outstanding'[k] = r
      BY <1>7, <1>8, <2>2 DEF PipelineShape
    <3> HIDE DEF job
    <3> QED BY <3>1, <3>2
  <2>3. CASE k > Len(Answers) + 1
    <3> DEFINE j == k - Len(Answers) - 1
    <3>1. /\ j \in 1 .. Len(jobs) - 1 /\ j + 1 \in 1 .. Len(jobs)
          /\ k = Len(Answers) + (j + 1) /\ k = Len(Answers') + j
      BY <1>7, <1>8, <2>3 DEF PipelineShape
    <3> HIDE DEF j
    <3>2. Outstanding[k] = jobs[j + 1]
      BY <1>7, <3>1 DEF PipelineShape
    <3>3. Outstanding'[k] = jobs'[j]
      BY <1>4, <1>7, <3>1 DEF PipelineShape
    <3> QED BY <1>4, <3>1, <3>2, <3>3
  <2> QED BY <1>7, <2>1, <2>2, <2>3 DEF PipelineShape
<1>11. KeepsPipeline
  BY <1>4, <1>7, <1>8, <1>9, <1>10 DEF KeepsPipeline, PipelineShape
<1>12. r.instrument \in Instruments /\ r.seq = now[r.instrument]
  BY <1>1 DEF Jobs
<1> QED BY <1>5, <1>8, <1>11, <1>12

(* An answer moves to the result channel, or is replaced by a failure; the *)
(* others stay as they are.                                                *)
LEMMA FetchedPipeline ==
  ASSUME TypeOK, Fetched \/ FetchFailed
  PROVE  /\ TypeOK' /\ KeepsPipeline
         /\ Len(Answers') = Len(Answers)
         /\ \A k \in 1 .. Len(Answers) :
              /\ Answers'[k].instrument = Answers[k].instrument
              /\ Answers'[k].generation = Answers[k].generation
              /\ Answers'[k].seq = Answers[k].seq \/ Answers'[k].seq = Failed
<1>1. PICK f \in Results : fetching = <<f>>
  BY DEF TypeOK, Fetched, FetchFailed
<1>2. PICK g : g = IF Fetched THEN f ELSE [f EXCEPT !.seq = Failed]
  OBVIOUS
<1>3. /\ g \in Results
      /\ g.instrument = f.instrument /\ g.generation = f.generation /\ g.purpose = f.purpose
      /\ g.seq = f.seq \/ g.seq = Failed
  BY <1>2, Bounds DEF Results, Failed
<1>4. results \in Seq(Results) /\ jobs \in Seq(Jobs)
  BY DEF TypeOK
<1>5. results' = Append(results, g) /\ fetching' = <<>> /\ jobs' = jobs
  <2>1. fetching' = <<>> /\ jobs' = jobs
    BY DEF Fetched, FetchFailed
  <2>2. CASE Fetched
    <3>1. g = f
      BY <1>2, <2>2
    <3>2. results' = results \o <<f>>
      BY <1>1, <2>2 DEF Fetched
    <3> QED BY <1>1, <1>4, <2>1, <3>1, <3>2
  <2>3. CASE ~Fetched
    <3>1. g = [f EXCEPT !.seq = Failed]
      BY <1>2, <2>3
    <3>2. results' = Append(results, [fetching[1] EXCEPT !.seq = Failed])
      BY <2>3 DEF FetchFailed
    <3>3. fetching[1] = f
      BY <1>1
    <3> QED BY <2>1, <3>1, <3>2, <3>3
  <2> QED BY <2>2, <2>3
<1>6. results' \in Seq(Results) /\ Len(results') = Len(results) + 1
      /\ results'[Len(results) + 1] = g
      /\ \A k \in 1 .. Len(results) : results'[k] = results[k]
  BY <1>3, <1>4, <1>5
<1>7. TypeOK'
  BY <1>5, <1>6 DEF TypeOK, Fetched, FetchFailed, streamVars, bookVars
<1>8. PipelineShape /\ PipelineShape'
  <2>1. TypeOK' => PipelineShape'
    BY PipelineIsShaped, PTL
  <2> QED BY <1>7, <2>1, PipelineIsShaped
<1>9. Answers = results \o <<f>> /\ Answers' = results'
  BY <1>1, <1>5, <1>6 DEF Answers
<1>10. /\ Len(Answers) = Len(results) + 1 /\ Len(results) \in Nat
       /\ Answers[Len(results) + 1] = f
       /\ \A k \in 1 .. Len(results) : Answers[k] = results[k]
  BY <1>4, <1>9
<1>11. Len(Answers') = Len(Answers)
  BY <1>6, <1>9, <1>10
<1>12. ASSUME NEW k \in 1 .. Len(Answers)
       PROVE  /\ Answers'[k].instrument = Answers[k].instrument
              /\ Answers'[k].generation = Answers[k].generation
              /\ Answers'[k].purpose = Answers[k].purpose
              /\ Answers'[k].seq = Answers[k].seq \/ Answers'[k].seq = Failed
  <2>1. CASE k = Len(results) + 1
    <3>1. Answers[k] = f /\ Answers'[k] = g
      BY <2>1, <1>6, <1>9, <1>10
    <3> QED BY <1>3, <3>1
  <2>2. CASE k \in 1 .. Len(results)
    BY <2>2, <1>6, <1>9, <1>10
  <2> QED BY <2>1, <2>2, <1>10
<1>13. ASSUME NEW k \in 1 .. Len(Outstanding)
       PROVE  /\ Outstanding'[k].instrument = Outstanding[k].instrument
              /\ Outstanding'[k].generation = Outstanding[k].generation
              /\ Outstanding'[k].purpose = Outstanding[k].purpose
  <2>1. CASE k \in 1 .. Len(Answers)
    <3>1. Outstanding[k] = Answers[k] /\ Outstanding'[k] = Answers'[k]
      BY <2>1, <1>8, <1>11 DEF PipelineShape
    <3> QED BY <2>1, <3>1, <1>12
  <2>2. CASE k \notin 1 .. Len(Answers)
    <3> DEFINE j == k - Len(Answers)
    <3>1. j \in 1 .. Len(jobs) /\ k = Len(Answers) + j /\ jobs' = jobs
      BY <2>2, <1>5, <1>8 DEF PipelineShape
    <3> HIDE DEF j
    <3>2. Outstanding[k] = jobs[j] /\ Outstanding'[k] = jobs[j]
      BY <3>1, <1>8, <1>11 DEF PipelineShape
    <3> QED BY <3>2
  <2> QED BY <2>1, <2>2
<1>14. KeepsPipeline
  BY <1>5, <1>8, <1>11, <1>13 DEF KeepsPipeline, PipelineShape
<1> QED BY <1>7, <1>11, <1>12, <1>14

(* Where the elements of a concatenation come from. *)
LEMMA ConcatElements ==
  ASSUME NEW S, NEW T, NEW s \in Seq(S), NEW t \in Seq(T), NEW u, u = s \o t
  PROVE  /\ Len(u) = Len(s) + Len(t)
         /\ \A k \in 1 .. Len(u) : u[k] = IF k <= Len(s) THEN s[k] ELSE t[k - Len(s)]
OBVIOUS

(* Collecting a result takes it off the front. *)
LEMMA CollectPipeline ==
  ASSUME TypeOK, results # <<>>, results' = Tail(results), fetching' = fetching, jobs' = jobs
  PROVE  /\ Len(Answers) > 0 /\ Len(Answers') = Len(Answers) - 1
         /\ \A k \in 1 .. Len(Answers') : Answers'[k] = Answers[k + 1]
         /\ Len(Outstanding') = Len(Outstanding) - 1
         /\ \A k \in 1 .. Len(Outstanding') : Outstanding'[k] = Outstanding[k + 1]
         /\ Head(results) = Answers[1] /\ Head(results) = Outstanding[1]
         /\ results' \in Seq(Results)
<1>1. /\ results \in Seq(Results) /\ jobs \in Seq(Jobs)
      /\ fetching \in Seq(Results)
  <2>1. fetching \in Seq(Results)
    <3>1. CASE fetching = <<>>
      BY <3>1
    <3>2. CASE \E r \in Results : fetching = <<r>>
      BY <3>2
    <3> QED BY <3>1, <3>2 DEF TypeOK
  <2> QED BY <2>1 DEF TypeOK
<1>2. results' \in Seq(Results) /\ Len(results') = Len(results) - 1 /\ Len(results) > 0
      /\ \A k \in 1 .. Len(results) - 1 : results'[k] = results[k + 1]
      /\ Head(results) = results[1]
  BY <1>1
<1>3. /\ Answers \in Seq(Results) /\ Len(Answers) = Len(results) + Len(fetching)
      /\ \A k \in 1 .. Len(Answers) :
           Answers[k] = IF k <= Len(results) THEN results[k] ELSE fetching[k - Len(results)]
  BY <1>1 DEF Answers
<1>4. /\ Answers' \in Seq(Results) /\ Len(Answers') = Len(results') + Len(fetching)
      /\ \A k \in 1 .. Len(Answers') :
           Answers'[k] = IF k <= Len(results') THEN results'[k] ELSE fetching[k - Len(results')]
  BY <1>1, <1>2 DEF Answers
<1>5. Len(results) \in Nat /\ Len(fetching) \in Nat /\ Len(jobs) \in Nat
  BY <1>1
<1>6. Len(Answers) > 0 /\ Len(Answers') = Len(Answers) - 1 /\ Len(Answers) \in Nat
  BY <1>2, <1>3, <1>4, <1>5
<1>7. ASSUME NEW k \in 1 .. Len(Answers') PROVE Answers'[k] = Answers[k + 1]
  <2>1. k + 1 \in 1 .. Len(Answers)
    BY <1>6
  <2>2. CASE k <= Len(results')
    BY <2>1, <2>2, <1>2, <1>3, <1>4, <1>5
  <2>3. CASE ~(k <= Len(results'))
    <3>1. (k + 1) - Len(results) = k - Len(results') /\ ~(k + 1 <= Len(results))
      BY <2>3, <1>2, <1>5
    <3> QED BY <2>1, <2>3, <3>1, <1>3, <1>4
  <2> QED BY <2>2, <2>3
<1>8. Head(results) = Answers[1]
  BY <1>2, <1>3, <1>5, <1>6
<1>9. Outstanding = Answers \o jobs /\ Outstanding' = Answers' \o jobs
  BY DEF Outstanding, Answers
<1>10. /\ Len(Outstanding) = Len(Answers) + Len(jobs)
       /\ \A k \in 1 .. Len(Outstanding) :
            Outstanding[k] = IF k <= Len(Answers) THEN Answers[k] ELSE jobs[k - Len(Answers)]
  <2>1. Answers \in Seq(Results) /\ jobs \in Seq(Jobs) /\ Outstanding = Answers \o jobs
    BY <1>1, <1>3, <1>9
  <2> QED BY <2>1, ConcatElements
<1>11. /\ Len(Outstanding') = Len(Answers') + Len(jobs)
       /\ \A k \in 1 .. Len(Outstanding') :
            Outstanding'[k] = IF k <= Len(Answers') THEN Answers'[k] ELSE jobs[k - Len(Answers')]
  <2>1. Answers' \in Seq(Results) /\ jobs \in Seq(Jobs) /\ Outstanding' = Answers' \o jobs
    BY <1>1, <1>4, <1>9
  <2> QED BY <2>1, ConcatElements
<1>12. ASSUME NEW k \in 1 .. Len(Outstanding') PROVE Outstanding'[k] = Outstanding[k + 1]
  <2>1. k + 1 \in 1 .. Len(Outstanding)
    BY <1>5, <1>6, <1>10, <1>11
  <2>2. CASE k <= Len(Answers')
    BY <2>1, <2>2, <1>5, <1>6, <1>7, <1>10, <1>11
  <2>3. CASE ~(k <= Len(Answers'))
    <3>1. (k + 1) - Len(Answers) = k - Len(Answers') /\ ~(k + 1 <= Len(Answers))
      BY <2>3, <1>6
    <3> QED BY <2>1, <2>3, <3>1, <1>10, <1>11
  <2> QED BY <2>2, <2>3
<1>13. Head(results) = Outstanding[1]
  BY <1>5, <1>6, <1>8, <1>10
<1> QED BY <1>2, <1>5, <1>6, <1>7, <1>8, <1>10, <1>11, <1>12, <1>13

(* New jobs go to the end. *)
LEMMA AppendPipeline ==
  ASSUME TypeOK, NEW new \in Seq(Jobs), jobs' = jobs \o new,
         results' = results, fetching' = fetching
  PROVE  /\ jobs' \in Seq(Jobs)
         /\ Answers' = Answers
         /\ Len(Outstanding) \in Nat
         /\ Len(Outstanding') = Len(Outstanding) + Len(new)
         /\ \A k \in 1 .. Len(Outstanding) : Outstanding'[k] = Outstanding[k]
         /\ \A k \in 1 .. Len(new) : Outstanding'[Len(Outstanding) + k] = new[k]
<1>1. /\ results \in Seq(Results) /\ jobs \in Seq(Jobs)
      /\ fetching \in Seq(Results)
  <2>1. fetching \in Seq(Results)
    <3>1. CASE fetching = <<>>
      BY <3>1
    <3>2. CASE \E r \in Results : fetching = <<r>>
      BY <3>2
    <3> QED BY <3>1, <3>2 DEF TypeOK
  <2> QED BY <2>1 DEF TypeOK
<1>2. Answers' = Answers /\ Answers \in Seq(Results)
  BY <1>1 DEF Answers
<1>3. jobs' \in Seq(Jobs) /\ Len(jobs') = Len(jobs) + Len(new)
  BY <1>1
<1>4. \A k \in 1 .. Len(jobs') : jobs'[k] = IF k <= Len(jobs) THEN jobs[k] ELSE new[k - Len(jobs)]
  BY <1>1, ConcatElements
<1>5. /\ Len(Outstanding) = Len(Answers) + Len(jobs)
      /\ \A k \in 1 .. Len(Outstanding) :
           Outstanding[k] = IF k <= Len(Answers) THEN Answers[k] ELSE jobs[k - Len(Answers)]
  <2>1. Answers \in Seq(Results) /\ jobs \in Seq(Jobs) /\ Outstanding = Answers \o jobs
    BY <1>1, <1>2 DEF Outstanding, Answers
  <2> QED BY <2>1, ConcatElements
<1>6. /\ Len(Outstanding') = Len(Answers) + Len(jobs')
      /\ \A k \in 1 .. Len(Outstanding') :
           Outstanding'[k] = IF k <= Len(Answers) THEN Answers[k] ELSE jobs'[k - Len(Answers)]
  <2>1. Answers \in Seq(Results) /\ jobs' \in Seq(Jobs) /\ Outstanding' = Answers \o jobs'
    BY <1>2, <1>3 DEF Outstanding, Answers
  <2> QED BY <2>1, ConcatElements
<1>7. Len(Answers) \in Nat /\ Len(jobs) \in Nat /\ Len(new) \in Nat
  BY <1>1, <1>2
<1>8. ASSUME NEW k \in 1 .. Len(Outstanding) PROVE Outstanding'[k] = Outstanding[k]
  <2>1. k \in 1 .. Len(Outstanding')
    BY <1>3, <1>5, <1>6, <1>7
  <2>2. CASE k <= Len(Answers)
    BY <2>1, <2>2, <1>5, <1>6
  <2>3. CASE ~(k <= Len(Answers))
    <3> DEFINE j == k - Len(Answers)
    <3>1. j \in 1 .. Len(jobs') /\ j <= Len(jobs)
      BY <2>3, <1>3, <1>5, <1>7
    <3>2. Outstanding[k] = jobs[j] /\ Outstanding'[k] = jobs'[j]
      BY <2>1, <2>3, <1>5, <1>6
    <3> HIDE DEF j
    <3> QED BY <3>1, <3>2, <1>4
  <2> QED BY <2>2, <2>3
<1>9. ASSUME NEW k \in 1 .. Len(new) PROVE Outstanding'[Len(Outstanding) + k] = new[k]
  <2> DEFINE m == Len(Outstanding) + k
             j == Len(jobs) + k
  <2>1. /\ m \in 1 .. Len(Outstanding') /\ ~(m <= Len(Answers)) /\ m - Len(Answers) = j
        /\ j \in 1 .. Len(jobs') /\ ~(j <= Len(jobs)) /\ j - Len(jobs) = k
    BY <1>3, <1>5, <1>6, <1>7
  <2> HIDE DEF m, j
  <2>2. Outstanding'[m] = jobs'[j]
    BY <2>1, <1>6
  <2>3. jobs'[j] = new[k]
    BY <2>1, <1>4
  <2> QED BY <2>2, <2>3 DEF m
<1> QED BY <1>2, <1>3, <1>5, <1>6, <1>7, <1>8, <1>9

-----------------------------------------------------------------------------
(***************************************************************************)
(* The invariant is inductive.                                             *)
(***************************************************************************)

(* A new session satisfies it. *)
LEMMA InitIInv == Init => IInv
<1> SUFFICES ASSUME Init PROVE IInv
  OBVIOUS
<1> USE DEF Init
<1>1. TypeOK
  BY NewBooksFacts, Bounds, InstrumentsAssumption DEF TypeOK
<1>2. Len(Outstanding) = 0 /\ Len(Answers) = 0
  BY DEF Outstanding, Answers
<1>3. \A i \in Instruments : SyncRequests(i) = {}
  BY <1>2 DEF SyncRequests
<1>4. RequestsAreMatched
  BY <1>3 DEF RequestsAreMatched, Idle, Requested
<1>5. GenerationsArePast /\ AnswersAreFresh /\ AnswersAscend
  BY <1>2 DEF GenerationsArePast, AnswersAreFresh, AnswersAscend
<1>6. \A i \in Instruments : ~IsLive(books, i)
  BY NewBooksFacts DEF IsLive
<1>7. /\ LiveMeansIdle /\ LiveBookIsOfThisConnection /\ HandlerKnows
  BY <1>6 DEF LiveMeansIdle, LiveBookIsOfThisConnection, HandlerKnows
<1>8. VerifiedBookIsLive /\ ShadowIsNewer
  BY NewBooksFacts DEF VerifiedBookIsLive, ShadowIsNewer, Verifying
<1>9. BooksAreOfTheStream
  BY NewBooksFacts DEF BooksAreOfTheStream
<1> QED BY <1>1, <1>4, <1>5, <1>7, <1>8, <1>9 DEF IInv

(* The venue moves ahead of what was fetched and built. *)
LEMMA VenueUpdateIInv ==
  ASSUME IInv, NEW i \in Instruments, VenueUpdate(i)
  PROVE  IInv'
<1> USE DEF VenueUpdate, bookVars, workerVars
<1>1. TypeOK'
  BY Bounds, SMTT(30) DEF IInv, TypeOK
<1>2. \A j \in Instruments : now[j] \in Int /\ now'[j] \in Int /\ now[j] <= now'[j]
  BY Bounds, SMTT(30) DEF IInv, TypeOK
<1>3. Outstanding' = Outstanding /\ Answers' = Answers /\ \A j : SyncRequests(j)' = SyncRequests(j)
  BY DEF Outstanding, Answers, SyncRequests
<1>4. RequestsAreMatched' /\ GenerationsArePast' /\ AnswersAscend'
  BY <1>3 DEF IInv, RequestsAreMatched, GenerationsArePast, AnswersAscend
<1>5. AnswersAreFresh'
  <2>1. \A k \in 1 .. Len(Answers) : Answers[k].instrument \in Instruments /\ Answers[k].seq \in Int
    BY PipelineIsShaped, Bounds DEF IInv, PipelineShape, Results
  <2> QED BY <1>2, <1>3, <2>1 DEF IInv, AnswersAreFresh
<1>6. BooksAreOfTheStream'
  <2>1. \A j \in Instruments : sent[j] \in Int /\ connectedAt[j] \in Int /\ books.syncs[j].base \in Int
    BY Bounds DEF IInv, TypeOK, Books, BookSyncs
  <2> QED BY <1>2, <2>1 DEF IInv, BooksAreOfTheStream
<1>7. ShadowIsNewer' /\ LiveMeansIdle' /\ LiveBookIsOfThisConnection' /\ HandlerKnows'
      /\ VerifiedBookIsLive'
  BY DEF IInv, ShadowIsNewer, LiveMeansIdle, LiveBookIsOfThisConnection, HandlerKnows,
         VerifiedBookIsLive
<1> QED BY <1>1, <1>4, <1>5, <1>6, <1>7 DEF IInv

(* The stream starts where the venue is.  Nothing fetched so far is of     *)
(* this connection, and no book is live.                                   *)
LEMMA ConnectIInv ==
  ASSUME IInv, Connect
  PROVE  IInv'
<1> USE DEF Connect, bookVars, workerVars
<1>1. TypeOK'
  BY DEF IInv, TypeOK
<1>2. Outstanding' = Outstanding /\ Answers' = Answers /\ \A j : SyncRequests(j)' = SyncRequests(j)
  BY DEF Outstanding, Answers, SyncRequests
<1>3. RequestsAreMatched' /\ GenerationsArePast' /\ AnswersAscend'
  BY <1>2 DEF IInv, RequestsAreMatched, GenerationsArePast, AnswersAscend
<1>4. \A j \in Instruments : ~IsLive(books, j)
  BY DEF IInv, LiveBookIsOfThisConnection
<1>5. AnswersAreFresh'
  <2>1. PipelineShape
    BY PipelineIsShaped DEF IInv
  <2>2. \A k \in 1 .. Len(Answers) : Answers[k].generation # generation
    <3> TAKE k \in 1 .. Len(Answers)
    <3>1. k \in 1 .. Len(Outstanding) /\ Outstanding[k] = Answers[k]
      BY <2>1 DEF PipelineShape
    <3>2. Answers[k].generation < generation
      BY <3>1 DEF IInv, GenerationsArePast
    <3> QED BY <3>2 DEF IInv, TypeOK
  <2> QED BY <1>2, <2>2 DEF IInv, AnswersAreFresh
<1>6. BooksAreOfTheStream'
  <2> SUFFICES ASSUME NEW j \in Instruments
               PROVE  /\ now[j] <= now[j]
                      /\ books.syncs[j].sync.last <= now[j]
                      /\ ~books.syncs[j].sync.live
    BY DEF BooksAreOfTheStream
  <2>1. now[j] \in Int /\ sent[j] \in Int /\ books.syncs[j].sync.last \in Int
    BY Bounds DEF IInv, TypeOK, Books, BookSyncs, SyncStates
  <2>2. ~books.syncs[j].sync.live
    BY <1>4 DEF IsLive
  <2>3. sent[j] <= now[j] /\ books.syncs[j].sync.last <= sent[j]
    BY <2>2 DEF IInv, BooksAreOfTheStream
  <2> QED BY <2>1, <2>2, <2>3
<1>7. ShadowIsNewer' /\ LiveMeansIdle' /\ HandlerKnows' /\ VerifiedBookIsLive'
  BY DEF IInv, ShadowIsNewer, LiveMeansIdle, HandlerKnows, VerifiedBookIsLive
<1>8. LiveBookIsOfThisConnection'
  BY <1>4 DEF LiveBookIsOfThisConnection
<1> QED BY <1>1, <1>3, <1>5, <1>6, <1>7, <1>8 DEF IInv

(* A lost connection takes every book down and forgets every request: what *)
(* is still on its way is of an earlier connection from here on.           *)
LEMMA TakeAllDownIInv ==
  ASSUME IInv, TakeAllDown, pc' \in {"down", "stopped"}
  PROVE  IInv'
<1> USE DEF TakeAllDown, streamVars, workerVars, ResetAll
<1>1. TypeOK'
  BY NewBooksFacts, Bounds DEF IInv, TypeOK
<1>2. Outstanding' = Outstanding /\ Answers' = Answers
  BY DEF Outstanding, Answers
<1>3. PipelineShape
  BY PipelineIsShaped DEF IInv
<1>4. \A k \in 1 .. Len(Outstanding) :
        Outstanding[k].generation < generation' /\ Outstanding[k].generation # generation'
  BY <1>3, Bounds, SMTT(30) DEF IInv, TypeOK, GenerationsArePast, PipelineShape
<1>5. \A i \in Instruments : SyncRequests(i)' = {}
  BY <1>2, <1>4 DEF SyncRequests
<1>6. RequestsAreMatched'
  BY <1>5 DEF RequestsAreMatched, Idle, Requested
<1>7. GenerationsArePast'
  <2>1. \A k \in 1 .. Len(Outstanding) : Outstanding[k].generation <= generation'
    BY <1>3, <1>4, Bounds DEF PipelineShape, IInv, TypeOK
  <2> QED BY <1>2, <1>4, <2>1 DEF GenerationsArePast
<1>8. AnswersAreFresh'
  <2>1. \A k \in 1 .. Len(Answers) : Answers[k].generation # generation'
    <3> TAKE k \in 1 .. Len(Answers)
    <3>1. k \in 1 .. Len(Outstanding) /\ Outstanding[k] = Answers[k]
      BY <1>3 DEF PipelineShape
    <3> QED BY <1>4, <3>1
  <2> QED BY <1>2, <2>1 DEF IInv, AnswersAreFresh
<1>9. AnswersAscend'
  BY <1>2 DEF IInv, AnswersAscend
<1>10. \A i \in Instruments : books'.syncs[i] = NewSync /\ ~IsLive(books', i)
  BY NewBooksFacts DEF IsLive
<1>11. BooksAreOfTheStream'
  BY <1>10, NewBooksFacts, Bounds DEF IInv, TypeOK, BooksAreOfTheStream
<1>12. ShadowIsNewer' /\ VerifiedBookIsLive'
  BY NewBooksFacts DEF ShadowIsNewer, VerifiedBookIsLive, Verifying
<1>13. LiveMeansIdle' /\ LiveBookIsOfThisConnection' /\ HandlerKnows'
  BY <1>10 DEF LiveMeansIdle, LiveBookIsOfThisConnection, HandlerKnows
<1> QED BY <1>1, <1>6, <1>7, <1>8, <1>9, <1>11, <1>12, <1>13 DEF IInv

(* Steps that only move the thread on. *)
LEMMA MoveOnIInv ==
  ASSUME IInv, Stop \/ DrainDone \/ CollectDone \/ NothingDue
  PROVE  IInv'
<1> USE DEF Stop, DrainDone, CollectDone, NothingDue, streamVars, bookVars, workerVars
<1>1. TypeOK'
  BY DEF IInv, TypeOK
<1>2. pc' \in {"down", "stopped"} <=> pc \in {"down", "stopped"}
  OBVIOUS
<1>3. Outstanding' = Outstanding /\ Answers' = Answers /\ \A j : SyncRequests(j)' = SyncRequests(j)
  BY DEF Outstanding, Answers, SyncRequests
<1>4. RequestsAreMatched' /\ GenerationsArePast' /\ AnswersAscend' /\ AnswersAreFresh'
  BY <1>2, <1>3 DEF IInv, RequestsAreMatched, GenerationsArePast, AnswersAscend, AnswersAreFresh
<1>5. ShadowIsNewer' /\ LiveMeansIdle' /\ HandlerKnows' /\ VerifiedBookIsLive'
      /\ BooksAreOfTheStream' /\ LiveBookIsOfThisConnection'
  BY <1>2 DEF IInv, ShadowIsNewer, LiveMeansIdle, HandlerKnows, VerifiedBookIsLive,
              BooksAreOfTheStream, LiveBookIsOfThisConnection
<1> QED BY <1>1, <1>4, <1>5 DEF IInv

(* The retry timer wakes an instrument that is down. *)
LEMMA RetryTimerIInv ==
  ASSUME IInv, NEW i \in Instruments, RetryTimer(i)
  PROVE  IInv'
<1> USE DEF RetryTimer, streamVars, workerVars
<1>1. TypeOK'
  BY DEF IInv, TypeOK
<1>2. Outstanding' = Outstanding /\ Answers' = Answers /\ \A j : SyncRequests(j)' = SyncRequests(j)
  BY DEF Outstanding, Answers, SyncRequests
<1>3. GenerationsArePast' /\ AnswersAscend' /\ AnswersAreFresh'
  BY <1>2 DEF IInv, GenerationsArePast, AnswersAscend, AnswersAreFresh
<1>4. \A j \in Instruments : /\ states'[j] = Requested <=> states[j] = Requested
                             /\ states[j] = Idle => states'[j] = Idle
  BY DEF IInv, TypeOK, RetryAt, RetryDue, Requested, Idle
<1>5. RequestsAreMatched'
  BY <1>2, <1>4 DEF IInv, RequestsAreMatched
<1>6. LiveMeansIdle'
  BY <1>4 DEF IInv, LiveMeansIdle
<1>7. ShadowIsNewer' /\ HandlerKnows' /\ VerifiedBookIsLive'
      /\ BooksAreOfTheStream' /\ LiveBookIsOfThisConnection'
  BY DEF IInv, ShadowIsNewer, HandlerKnows, VerifiedBookIsLive,
         BooksAreOfTheStream, LiveBookIsOfThisConnection
<1> QED BY <1>1, <1>3, <1>5, <1>6, <1>7 DEF IInv

(* A delta takes a book down, moves it on or leaves it.  A book that goes  *)
(* down was live, so nothing was requested for it.                         *)
LEMMA ReceiveDeltaIInv ==
  ASSUME IInv, NEW i \in Instruments, NEW from \in 1 .. MaxSeq, NEW to \in 1 .. MaxSeq,
         ReceiveDelta(i, from, to)
  PROVE  IInv'
<1> USE DEF ReceiveDelta, workerVars
<1>1. PICK r \in Apply(books, i, from, to) : AfterApply(i, r)
  OBVIOUS
<1>2. books \in Books /\ from <= to
  BY DEF IInv, TypeOK
<1>3. ApplyFacts(books, i, to, r) /\ ShadowFollows(books, r)
  BY <1>1, <1>2, ApplyOutcome
<1>4. books' = r.books
  BY <1>1 DEF AfterApply
<1>5. states' = states
  <2>1. CASE r.applied = "down"
    <3>1. states[i] = Idle
      BY <1>3, <2>1 DEF ApplyFacts, IInv, LiveMeansIdle, IsLive
    <3>2. states' = [states EXCEPT ![i] = Idle]
      BY <1>1, <2>1 DEF AfterApply
    <3> QED BY <3>1, <3>2 DEF IInv, TypeOK
  <2>2. CASE r.applied # "down"
    BY <1>1, <2>2 DEF AfterApply
  <2> QED BY <2>1, <2>2
<1>6. TypeOK'
  <2>1. books' \in Books
    BY <1>3, <1>4 DEF ApplyFacts
  <2>2. verification' \in Instruments \cup {NoInstrument}
    BY <1>1 DEF AfterApply, IInv, TypeOK
  <2>3. shown' \in [Instruments -> BOOLEAN] /\ mismatched' \subseteq Instruments
    BY <1>1 DEF AfterApply, IInv, TypeOK
  <2>4. sent' \in [Instruments -> 0 .. MaxSeq]
    BY Bounds DEF IInv, TypeOK
  <2> QED BY <1>5, <2>1, <2>2, <2>3, <2>4 DEF IInv, TypeOK
<1>7. Outstanding' = Outstanding /\ Answers' = Answers /\ \A j : SyncRequests(j)' = SyncRequests(j)
  BY DEF Outstanding, Answers, SyncRequests
<1>8. RequestsAreMatched' /\ GenerationsArePast' /\ AnswersAscend'
  BY <1>5, <1>7 DEF IInv, RequestsAreMatched, GenerationsArePast, AnswersAscend
<1>9. \A j \in Instruments : IsLive(books', j) =>
        IsLive(books, j) /\ books'.syncs[j].base = books.syncs[j].base
  BY <1>3, <1>4 DEF ApplyFacts, IsLive
<1>10. AnswersAreFresh'
  <2>1. \A k \in 1 .. Len(Answers) : Answers[k].instrument \in Instruments
    BY PipelineIsShaped DEF IInv, PipelineShape, Results
  <2> QED BY <1>7, <1>9, <2>1 DEF IInv, AnswersAreFresh
<1>11. LiveMeansIdle' /\ LiveBookIsOfThisConnection'
  BY <1>5, <1>9 DEF IInv, LiveMeansIdle, LiveBookIsOfThisConnection
<1>12. HandlerKnows'
  <2> SUFFICES ASSUME NEW j \in Instruments PROVE shown'[j] <=> IsLive(books', j)
    BY DEF HandlerKnows
  <2>1. shown[j] <=> IsLive(books, j)
    BY DEF IInv, HandlerKnows
  <2>2. CASE j # i
    BY <1>1, <1>3, <1>4, <2>1, <2>2 DEF ApplyFacts, AfterApply, IsLive, IInv, TypeOK
  <2>3. CASE j = i /\ r.applied = "down"
    BY <1>1, <1>3, <1>4, <2>3 DEF ApplyFacts, AfterApply, IsLive, IInv, TypeOK
  <2>4. CASE j = i /\ r.applied # "down"
    BY <1>1, <1>3, <1>4, <2>1, <2>4 DEF ApplyFacts, AfterApply, IsLive
  <2> QED BY <2>2, <2>3, <2>4
<1>13. Verifying(books') # NoInstrument =>
         /\ Verifying(books') = Verifying(books) /\ IsLive(books', Verifying(books'))
         /\ books'.shadow.loaded = books.shadow.loaded
         /\ books'.shadow.book.sync.live =>
              books.shadow.book.sync.live /\ books'.shadow.book.base = books.shadow.book.base
  <2> SUFFICES ASSUME Verifying(books') # NoInstrument
               PROVE  /\ Verifying(books') = Verifying(books)
                      /\ IsLive(books', Verifying(books'))
                      /\ books'.shadow.loaded = books.shadow.loaded
                      /\ books'.shadow.book.sync.live =>
                           /\ books.shadow.book.sync.live
                           /\ books'.shadow.book.base = books.shadow.book.base
    OBVIOUS
  <2>1. books'.shadow # NoShadow
    BY NewBooksFacts DEF Verifying
  <2>2. /\ Verifying(books') = Verifying(books)
        /\ books'.shadow.loaded = books.shadow.loaded
        /\ books'.shadow.book.sync.live =>
             books.shadow.book.sync.live /\ books'.shadow.book.base = books.shadow.book.base
    BY <1>3, <1>4, <2>1 DEF ShadowFollows
  <2>3. Verifying(books) \in Instruments /\ IsLive(books, Verifying(books))
    BY <1>2, <2>2, BooksFields DEF IInv, VerifiedBookIsLive, Verifying
  <2>4. IsLive(books', Verifying(books))
    BY <1>3, <1>4, <2>2, <2>3 DEF ApplyFacts, IsLive
  <2> QED BY <2>2, <2>4
<1>14. VerifiedBookIsLive'
  <2>1. verification' # NoInstrument => Verifying(books') = verification'
    BY <1>1, <1>4 DEF AfterApply
  <2> QED BY <1>13, <2>1 DEF VerifiedBookIsLive
<1>15. ShadowIsNewer'
  <2>1. ~books'.shadow.loaded => ~books'.shadow.book.sync.live
    <3>1. CASE r.books.shadow = NoShadow
      BY <1>4, <3>1, NewBooksFacts
    <3>2. CASE r.books.shadow # NoShadow
      BY <1>3, <1>4, <3>2 DEF ShadowFollows, IInv, ShadowIsNewer
    <3> QED BY <3>1, <3>2
  <2>2. ASSUME Verifying(books') # NoInstrument, books'.shadow.book.sync.live
        PROVE  books'.syncs[Verifying(books')].base <= books'.shadow.book.base
    <3>1. Verifying(books) \in Instruments
      BY <1>2, <1>13, <2>2, BooksFields DEF Verifying
    <3> QED BY <1>9, <1>13, <2>2, <3>1 DEF IInv, ShadowIsNewer
  <2> QED BY <2>1, <2>2 DEF ShadowIsNewer
<1>16. BooksAreOfTheStream'
  <2> SUFFICES ASSUME NEW j \in Instruments
               PROVE  LET s == books'.syncs[j]
                      IN  /\ sent'[j] <= now[j] /\ connectedAt[j] <= now[j]
                          /\ s.sync.live => /\ s.base <= now[j]
                                            /\ s.sync.last = s.base \/ s.sync.last <= sent'[j]
                          /\ ~s.sync.live => s.sync.last <= sent'[j]
    BY DEF BooksAreOfTheStream
  <2> DEFINE s == books.syncs[j]
             t == books'.syncs[j]
  <2>1. /\ sent[j] <= now[j] /\ connectedAt[j] <= now[j]
        /\ s.sync.live => s.base <= now[j] /\ (s.sync.last = s.base \/ s.sync.last <= sent[j])
        /\ ~s.sync.live => s.sync.last <= sent[j]
    BY DEF IInv, BooksAreOfTheStream
  <2>2. CASE j # i
    BY <1>3, <1>4, <2>1, <2>2 DEF ApplyFacts, IInv, TypeOK
  <2>3. CASE j = i
    <3>1. sent'[j] = to /\ to <= now[j] /\ sent[j] < to
      BY <2>3 DEF IInv, TypeOK
    <3>2. /\ t.sync.live => s.sync.live /\ t.base = s.base
                            /\ (t.sync.last = s.sync.last \/ t.sync.last = to)
          /\ ~t.sync.live => \/ t.sync.last = 0 \/ t.sync.last = to
                             \/ t.sync.last = s.sync.last /\ ~s.sync.live
      BY <1>3, <1>4, <2>3 DEF ApplyFacts
    <3>3. sent[j] \in Int /\ now[j] \in Int /\ to \in Nat
      BY Bounds DEF IInv, TypeOK
    <3>4. s.sync.last \in Int /\ s.base \in Int
      <4>1. s \in BookSyncs
        BY <1>2, BooksFields
      <4> QED BY <4>1, Bounds DEF BookSyncs, SyncStates
    <3> HIDE DEF s, t
    <3> QED BY <2>1, <3>1, <3>2, <3>3, <3>4 DEF t
  <2> QED BY <2>2, <2>3
<1> QED BY <1>6, <1>8, <1>10, <1>11, <1>12, <1>14, <1>15, <1>16 DEF IInv

(* The snapshot thread takes a job: the answer is the venue's book as it   *)
(* is now, so it is newer than everything fetched and built before.        *)
LEMMA TakeJobIInv ==
  ASSUME IInv, TakeJob
  PROVE  IInv'
<1> USE DEF TakeJob, streamVars, bookVars
<1>1. TypeOK
  BY DEF IInv
<1>2. /\ TypeOK' /\ KeepsPipeline
      /\ Len(Answers') = Len(Answers) + 1
      /\ \A k \in 1 .. Len(Answers) : Answers'[k] = Answers[k]
      /\ \E i \in Instruments : /\ Answers'[Len(Answers) + 1].instrument = i
                                /\ Answers'[Len(Answers) + 1].seq = now[i]
  BY <1>1, TakeJobPipeline
<1>3. RequestsAreMatched' /\ GenerationsArePast'
  BY <1>2, KeptRequests DEF IInv
<1>4. ShadowIsNewer' /\ LiveMeansIdle' /\ HandlerKnows' /\ VerifiedBookIsLive'
      /\ BooksAreOfTheStream' /\ LiveBookIsOfThisConnection'
  BY DEF IInv, ShadowIsNewer, LiveMeansIdle, HandlerKnows, VerifiedBookIsLive,
         BooksAreOfTheStream, LiveBookIsOfThisConnection
<1>5. /\ PipelineShape
      /\ Len(Answers) \in Nat
  BY <1>1, PipelineIsShaped DEF PipelineShape
<1>6. PICK n : n = Len(Answers) + 1
  OBVIOUS
<1>7. PICK i \in Instruments : Answers'[n].instrument = i /\ Answers'[n].seq = now[i]
  BY <1>2, <1>6
<1>8. now[i] \in 0 .. MaxSeq /\ now[i] \in Int
  BY <1>1, Bounds DEF TypeOK
<1>9. AnswersAreFresh'
  <2> SUFFICES ASSUME NEW k \in 1 .. Len(Answers')
               PROVE  LET r == Answers'[k]
                      IN  /\ r.seq <= now[r.instrument]
                          /\ r.generation = generation /\ r.seq # Failed =>
                               /\ connectedAt[r.instrument] <= r.seq
                               /\ IsLive(books, r.instrument) =>
                                    books.syncs[r.instrument].base <= r.seq
    BY DEF AnswersAreFresh
  <2>1. CASE k = n
    <3>1. connectedAt[i] <= now[i] /\ (IsLive(books, i) => books.syncs[i].base <= now[i])
      BY DEF IInv, BooksAreOfTheStream, IsLive
    <3> QED BY <1>7, <1>8, <2>1, <3>1
  <2>2. CASE k # n
    <3>1. k \in 1 .. Len(Answers) /\ Answers'[k] = Answers[k]
      BY <1>2, <1>5, <1>6, <2>2
    <3> QED BY <3>1 DEF IInv, AnswersAreFresh
  <2> QED BY <2>1, <2>2
<1>10. AnswersAscend'
  <2> SUFFICES ASSUME NEW k \in 1 .. Len(Answers'), NEW l \in 1 .. Len(Answers'), k < l,
                      Answers'[k].instrument = Answers'[l].instrument,
                      Answers'[l].seq # Failed
               PROVE  Answers'[k].seq <= Answers'[l].seq
    BY DEF AnswersAscend
  <2>1. k \in 1 .. Len(Answers) /\ Answers'[k] = Answers[k]
    BY <1>2, <1>5
  <2>2. CASE l = n
    BY <1>7, <2>1, <2>2 DEF IInv, AnswersAreFresh
  <2>3. CASE l # n
    <3>1. l \in 1 .. Len(Answers) /\ Answers'[l] = Answers[l]
      BY <1>2, <1>5, <1>6, <2>3
    <3> QED BY <2>1, <3>1 DEF IInv, AnswersAscend
  <2> QED BY <2>2, <2>3
<1> QED BY <1>2, <1>3, <1>4, <1>9, <1>10 DEF IInv

(* An answer that arrives is as it was when the venue gave it, or a        *)
(* failure.                                                                *)
LEMMA FetchedIInv ==
  ASSUME IInv, Fetched \/ FetchFailed
  PROVE  IInv'
<1>0. /\ now' = now /\ sent' = sent /\ connectedAt' = connectedAt /\ pc' = pc
      /\ books' = books /\ states' = states /\ verification' = verification
      /\ shown' = shown /\ mismatched' = mismatched /\ generation' = generation
  BY DEF Fetched, FetchFailed, streamVars, bookVars
<1>1. TypeOK
  BY DEF IInv
<1>2. /\ TypeOK' /\ KeepsPipeline
      /\ Len(Answers') = Len(Answers)
      /\ \A k \in 1 .. Len(Answers) :
           /\ Answers'[k].instrument = Answers[k].instrument
           /\ Answers'[k].generation = Answers[k].generation
           /\ Answers'[k].seq = Answers[k].seq \/ Answers'[k].seq = Failed
  BY <1>1, FetchedPipeline
<1>3. RequestsAreMatched' /\ GenerationsArePast'
  BY <1>0, <1>2, KeptRequests DEF IInv
<1>4. ShadowIsNewer' /\ LiveMeansIdle' /\ HandlerKnows' /\ VerifiedBookIsLive'
      /\ BooksAreOfTheStream' /\ LiveBookIsOfThisConnection'
  BY <1>0 DEF IInv, ShadowIsNewer, LiveMeansIdle, HandlerKnows, VerifiedBookIsLive,
              BooksAreOfTheStream, LiveBookIsOfThisConnection
<1>5. \A k \in 1 .. Len(Answers) : /\ Answers[k].instrument \in Instruments
                                   /\ Answers[k].seq \in -1 .. MaxSeq
                                   /\ now[Answers[k].instrument] \in 0 .. MaxSeq
  <2>1. PipelineShape
    BY <1>1, PipelineIsShaped
  <2> QED BY <1>1, <2>1 DEF PipelineShape, Results, TypeOK
<1>6. AnswersAreFresh'
  <2> SUFFICES ASSUME NEW k \in 1 .. Len(Answers)
               PROVE  LET r == Answers'[k]
                      IN  /\ r.seq <= now[r.instrument]
                          /\ r.generation = generation /\ r.seq # Failed =>
                               /\ connectedAt[r.instrument] <= r.seq
                               /\ IsLive(books, r.instrument) =>
                                    books.syncs[r.instrument].base <= r.seq
    BY <1>0, <1>2 DEF AnswersAreFresh
  <2>1. CASE Answers'[k].seq = Answers[k].seq
    BY <1>2, <2>1 DEF IInv, AnswersAreFresh
  <2>2. CASE Answers'[k].seq = Failed
    BY <1>2, <1>5, <2>2, Bounds DEF Failed
  <2> QED BY <1>2, <2>1, <2>2
<1>7. AnswersAscend'
  <2> SUFFICES ASSUME NEW k \in 1 .. Len(Answers), NEW l \in 1 .. Len(Answers), k < l,
                      Answers'[k].instrument = Answers'[l].instrument,
                      Answers'[l].seq # Failed
               PROVE  Answers'[k].seq <= Answers'[l].seq
    BY <1>2 DEF AnswersAscend
  <2>1. Answers'[l].seq = Answers[l].seq
    BY <1>2
  <2>2. Answers[k].seq <= Answers[l].seq
    BY <1>2, <2>1 DEF IInv, AnswersAscend
  <2>3. CASE Answers'[k].seq = Answers[k].seq
    BY <2>1, <2>2, <2>3
  <2>4. CASE Answers'[k].seq = Failed
    BY <1>5, <2>1, <2>4, Bounds DEF Failed
  <2> QED BY <1>2, <2>3, <2>4
<1> QED BY <1>2, <1>3, <1>4, <1>6, <1>7 DEF IInv

(* The count of timeouts stays within its bound. *)
LEMMA AbandonBound ==
  ASSUME TypeOK, Abandon
  PROVE  timeouts' \in 0 .. MaxTimeouts
<1>1. timeouts \in 0 .. MaxTimeouts
  BY DEF TypeOK
<1>2. CASE CouldSettle
  BY <1>1, <1>2, Bounds DEF Abandon, One
<1>3. CASE ~CouldSettle
  BY <1>1, <1>3, Bounds DEF Abandon, One
<1> QED BY <1>2, <1>3

(* Giving up a verification touches no instrument's book. *)
LEMMA TimeOutIInv ==
  ASSUME IInv, TimeOut
  PROVE  IInv'
<1> USE DEF TimeOut, streamVars, workerVars
<1>1. books \in Books
  BY DEF IInv, TypeOK
<1>2. books' \in Books /\ books'.syncs = books.syncs /\ books'.shadow = NoShadow
  BY <1>1, CancelFacts
<1>3. TypeOK'
  <2>1. timeouts' \in 0 .. MaxTimeouts
    BY AbandonBound DEF IInv
  <2> QED BY <1>2, <2>1 DEF IInv, TypeOK
<1>4. Outstanding' = Outstanding /\ Answers' = Answers /\ \A j : SyncRequests(j)' = SyncRequests(j)
  BY DEF Outstanding, Answers, SyncRequests
<1>5. \A j : IsLive(books', j) <=> IsLive(books, j)
  BY <1>2 DEF IsLive
<1>6. RequestsAreMatched' /\ AnswersAscend' /\ AnswersAreFresh'
  BY <1>2, <1>4, <1>5 DEF IInv, RequestsAreMatched, AnswersAscend, AnswersAreFresh
<1>7. GenerationsArePast'
  BY <1>4 DEF IInv, GenerationsArePast
<1>8. LiveMeansIdle' /\ HandlerKnows' /\ LiveBookIsOfThisConnection'
  BY <1>2, <1>5 DEF IInv, LiveMeansIdle, HandlerKnows, LiveBookIsOfThisConnection
<1>9. BooksAreOfTheStream'
  BY <1>2 DEF IInv, BooksAreOfTheStream
<1>10. ShadowIsNewer' /\ VerifiedBookIsLive'
  BY <1>2, NewBooksFacts DEF ShadowIsNewer, VerifiedBookIsLive, Verifying
<1> QED BY <1>3, <1>6, <1>7, <1>8, <1>9, <1>10 DEF IInv

(* The requests after new jobs: the ones before and the ones among them. *)
LEMMA AppendedRequests ==
  ASSUME TypeOK, NEW new \in Seq(Jobs), jobs' = jobs \o new,
         results' = results, fetching' = fetching, generation' = generation,
         NEW i
  PROVE  \A m : m \in SyncRequests(i)' <=>
           \/ m \in SyncRequests(i)
           \/ \E k \in 1 .. Len(new) : /\ m = Len(Outstanding) + k
                                       /\ new[k].instrument = i
                                       /\ new[k].generation = generation
                                       /\ new[k].purpose = Sync
<1>1. /\ Len(Outstanding) \in Nat
      /\ Len(Outstanding') = Len(Outstanding) + Len(new)
      /\ \A k \in 1 .. Len(Outstanding) : Outstanding'[k] = Outstanding[k]
      /\ \A k \in 1 .. Len(new) : Outstanding'[Len(Outstanding) + k] = new[k]
      /\ Len(new) \in Nat
  BY AppendPipeline
<1> SUFFICES ASSUME NEW m
             PROVE  m \in SyncRequests(i)' <=>
                      \/ m \in SyncRequests(i)
                      \/ \E k \in 1 .. Len(new) : /\ m = Len(Outstanding) + k
                                                  /\ new[k].instrument = i
                                                  /\ new[k].generation = generation
                                                  /\ new[k].purpose = Sync
  OBVIOUS
<1>2. m \in SyncRequests(i)' <=> /\ m \in 1 .. Len(Outstanding')
                                 /\ Outstanding'[m].instrument = i
                                 /\ Outstanding'[m].generation = generation
                                 /\ Outstanding'[m].purpose = Sync
  BY DEF SyncRequests
<1>3. m \in SyncRequests(i) <=> /\ m \in 1 .. Len(Outstanding)
                                /\ Outstanding[m].instrument = i
                                /\ Outstanding[m].generation = generation
                                /\ Outstanding[m].purpose = Sync
  BY DEF SyncRequests
<1>4. CASE m \in 1 .. Len(Outstanding)
  <2>1. m \in 1 .. Len(Outstanding') /\ Outstanding'[m] = Outstanding[m]
    BY <1>1, <1>4
  <2>2. \A k \in 1 .. Len(new) : m # Len(Outstanding) + k
    BY <1>1, <1>4
  <2> QED BY <1>2, <1>3, <1>4, <2>1, <2>2
<1>5. CASE m \notin 1 .. Len(Outstanding) /\ m \in 1 .. Len(Outstanding')
  <2>1. PICK k \in 1 .. Len(new) : m = Len(Outstanding) + k
    <3>1. m - Len(Outstanding) \in 1 .. Len(new) /\ m = Len(Outstanding) + (m - Len(Outstanding))
      BY <1>1, <1>5
    <3> QED BY <3>1
  <2>2. Outstanding'[m] = new[k]
    BY <1>1, <2>1
  <2>3. \A l \in 1 .. Len(new) : m = Len(Outstanding) + l => l = k
    BY <1>1, <2>1
  <2> QED BY <1>2, <1>3, <1>5, <2>1, <2>2, <2>3
<1>6. CASE m \notin 1 .. Len(Outstanding) /\ m \notin 1 .. Len(Outstanding')
  <2>1. \A k \in 1 .. Len(new) : Len(Outstanding) + k \in 1 .. Len(Outstanding')
    BY <1>1
  <2> QED BY <1>2, <1>3, <1>6, <2>1
<1> QED BY <1>4, <1>5, <1>6

(* New jobs are of this connection. *)
LEMMA AppendedGenerations ==
  ASSUME IInv, NEW new \in Seq(Jobs), jobs' = jobs \o new,
         results' = results, fetching' = fetching, generation' = generation,
         \A k \in 1 .. Len(new) : new[k].generation = generation,
         pc' \notin {"down", "stopped"}
  PROVE  GenerationsArePast'
<1>1. /\ Len(Outstanding) \in Nat
      /\ Len(Outstanding') = Len(Outstanding) + Len(new)
      /\ \A k \in 1 .. Len(Outstanding) : Outstanding'[k] = Outstanding[k]
      /\ \A k \in 1 .. Len(new) : Outstanding'[Len(Outstanding) + k] = new[k]
      /\ Len(new) \in Nat
  BY AppendPipeline DEF IInv
<1> SUFFICES ASSUME NEW m \in 1 .. Len(Outstanding')
             PROVE  Outstanding'[m].generation <= generation
  BY DEF GenerationsArePast
<1>2. CASE m \in 1 .. Len(Outstanding)
  BY <1>1, <1>2 DEF IInv, GenerationsArePast
<1>3. CASE m \notin 1 .. Len(Outstanding)
  <2>1. PICK k \in 1 .. Len(new) : m = Len(Outstanding) + k
    <3>1. m - Len(Outstanding) \in 1 .. Len(new) /\ m = Len(Outstanding) + (m - Len(Outstanding))
      BY <1>1, <1>3
    <3> QED BY <3>1
  <2>2. Outstanding'[m].generation = generation
    BY <1>1, <2>1
  <2> QED BY <2>2, Bounds DEF IInv, TypeOK
<1> QED BY <1>2, <1>3

(* A verification starts with an empty shadow, for a live book, and its    *)
(* job is no sync request.                                                 *)
LEMMA StartNextIInv ==
  ASSUME IInv, StartNext
  PROVE  IInv'
<1> USE DEF StartNext, streamVars
<1>1. PICK n \in 1 .. NumInstruments :
        /\ IsLive(books, Turn(n))
        /\ books' = StartVerification(books, Turn(n))
        /\ verification' = Turn(n)
        /\ jobs' = Append(jobs, Job(Turn(n), Verification))
        /\ cursor' = (Turn(n) % NumInstruments) + 1
  OBVIOUS
<1>2. PICK i : i = Turn(n)
  OBVIOUS
<1>3. i \in Instruments /\ i # NoInstrument /\ cursor' \in Instruments
  <2>1. NumInstruments \in Nat \ {0} /\ Instruments = 1 .. NumInstruments
    BY InstrumentsAssumption
  <2>2. cursor \in Int
    BY <2>1 DEF IInv, TypeOK
  <2>3. i \in Instruments
    <3>1. PICK c : c = cursor + n - 2
      OBVIOUS
    <3>2. c \in Int
      BY <2>1, <2>2, <3>1
    <3>3. c % NumInstruments \in 0 .. NumInstruments - 1
      BY <2>1, <3>2, Division
    <3>4. i = (c % NumInstruments) + 1
      BY <1>2, <3>1 DEF Turn
    <3> QED BY <2>1, <3>3, <3>4
  <2>4. i % NumInstruments \in 0 .. NumInstruments - 1
    <3>1. i \in Int
      BY <2>1, <2>3
    <3> QED BY <2>1, <3>1, Division
  <2>5. cursor' \in Instruments
    BY <1>1, <1>2, <2>1, <2>4
  <2> QED BY <2>3, <2>5, InstrumentsAssumption
<1>4. PICK job : job = Job(i, Verification)
  OBVIOUS
<1>5. /\ job \in Jobs /\ job.generation = generation /\ job.purpose = Verification
      /\ jobs \in Seq(Jobs) /\ jobs' = Append(jobs, job)
  BY <1>1, <1>2, <1>3, <1>4 DEF Job, Jobs, IInv, TypeOK
<1>6. PICK new : new = <<job>>
  OBVIOUS
<1>7. new \in Seq(Jobs) /\ Len(new) = 1 /\ new[1] = job /\ jobs' = jobs \o new
  BY <1>5, <1>6
<1>8. books \in Books
  BY DEF IInv, TypeOK
<1>9. /\ books' \in Books /\ books'.syncs = books.syncs
      /\ Verifying(books') = i /\ ~books'.shadow.loaded /\ books'.shadow.book = NewSync
  BY <1>1, <1>2, <1>3, <1>8, NewBooksFacts DEF StartVerification, Books, Verifying
<1>10. TypeOK /\ Answers' = Answers /\ jobs' \in Seq(Jobs)
  BY <1>7, AppendPipeline DEF IInv
<1>11. TypeOK'
  <2>1. timeouts' \in 0 .. MaxTimeouts
    BY <1>10, AbandonBound
  <2> QED BY <1>1, <1>2, <1>3, <1>9, <1>10, <2>1 DEF TypeOK
<1>12. \A k \in 1 .. Len(new) : new[k].generation = generation /\ new[k].purpose = Verification
  BY <1>5, <1>7
<1>13. GenerationsArePast'
  BY <1>7, <1>12, AppendedGenerations
<1>14. \A j \in Instruments : SyncRequests(j)' = SyncRequests(j)
  <2> TAKE j \in Instruments
  <2>1. \A m : m \in SyncRequests(j)' <=> m \in SyncRequests(j)
    BY <1>7, <1>10, <1>12, AppendedRequests DEF Sync, Verification
  <2> QED BY <2>1
<1>15. RequestsAreMatched'
  BY <1>14 DEF IInv, RequestsAreMatched
<1>16. \A j : IsLive(books', j) <=> IsLive(books, j)
  BY <1>9 DEF IsLive
<1>17. AnswersAscend' /\ AnswersAreFresh'
  BY <1>9, <1>10, <1>16 DEF IInv, AnswersAscend, AnswersAreFresh
<1>18. LiveMeansIdle' /\ HandlerKnows' /\ LiveBookIsOfThisConnection'
  BY <1>9, <1>16 DEF IInv, LiveMeansIdle, HandlerKnows, LiveBookIsOfThisConnection
<1>19. BooksAreOfTheStream'
  BY <1>9 DEF IInv, BooksAreOfTheStream
<1>20. ShadowIsNewer' /\ VerifiedBookIsLive'
  BY <1>1, <1>2, <1>9, <1>16, NewBooksFacts DEF ShadowIsNewer, VerifiedBookIsLive
<1> QED BY <1>11, <1>13, <1>15, <1>17, <1>18, <1>19, <1>20 DEF IInv

(* Requesting snapshots: one job for every instrument that is due, none of *)
(* which was requested.                                                    *)
LEMMA RequestSnapshotsIInv ==
  ASSUME IInv, RequestSnapshots
  PROVE  IInv'
<1> DEFINE due == {i \in Instruments : NeedsSnapshot(i)}
<1> USE DEF RequestSnapshots, streamVars
<1>1. PICK inOrder \in [1 .. Cardinality(due) -> due] :
        /\ \A j, k \in DOMAIN inOrder : j < k => inOrder[j] < inOrder[k]
        /\ jobs' = jobs \o [k \in DOMAIN inOrder |-> Job(inOrder[k], Sync)]
  OBVIOUS
<1>2. IsFiniteSet(due) /\ Cardinality(due) \in Nat
  <2>1. IsFiniteSet(Instruments)
    BY InstrumentsAssumption, FS_Interval
  <2> QED BY <2>1, FS_Subset, FS_CardinalityType
<1>3. PICK c : c = Cardinality(due)
  OBVIOUS
<1>4. c \in Nat /\ inOrder \in [1 .. c -> due] /\ DOMAIN inOrder = 1 .. c
  BY <1>1, <1>2, <1>3
<1>5. due \subseteq Instruments /\ Instruments \subseteq Int
  BY InstrumentsAssumption
<1>6. \A j, k \in 1 .. c : inOrder[j] = inOrder[k] => j = k
  <2> SUFFICES ASSUME NEW j \in 1 .. c, NEW k \in 1 .. c, inOrder[j] = inOrder[k] PROVE j = k
    OBVIOUS
  <2>1. inOrder[j] \in Int /\ inOrder[k] \in Int
    BY <1>4, <1>5
  <2>2. ~(inOrder[j] < inOrder[k]) /\ ~(inOrder[k] < inOrder[j])
    BY <2>1
  <2> QED BY <1>1, <1>4, <2>2
<1>7. \A i \in due : \E k \in 1 .. c : inOrder[k] = i
  <2>1. IsFiniteSet(1 .. c) /\ Cardinality(1 .. c) = c
    BY <1>4, FS_Interval
  <2>2. inOrder \in Injection(1 .. c, due)
    BY <1>4, <1>6 DEF Injection, IsInjective
  <2> HIDE DEF due
  <2>3. inOrder \in Surjection(1 .. c, due)
    BY <1>2, <1>3, <2>1, <2>2, FS_Injection
  <2> QED BY <2>3 DEF Surjection
<1>8. PICK new : new = [k \in 1 .. c |-> Job(inOrder[k], Sync)]
  OBVIOUS
<1>9. /\ new \in Seq(Jobs) /\ Len(new) = c /\ jobs' = jobs \o new
      /\ \A k \in 1 .. c : /\ new[k].instrument = inOrder[k]
                           /\ new[k].generation = generation
                           /\ new[k].purpose = Sync
  <2>1. jobs' = jobs \o new
    BY <1>1, <1>4, <1>8
  <2>2. \A k \in 1 .. c : Job(inOrder[k], Sync) \in Jobs
    BY <1>4, <1>5 DEF Job, Jobs, IInv, TypeOK
  <2>3. new \in [1 .. c -> Jobs]
    BY <1>8, <2>2
  <2>4. new \in Seq(Jobs) /\ Len(new) = c
    BY <1>4, <2>3
  <2>5. \A k \in 1 .. c : /\ new[k].instrument = inOrder[k]
                          /\ new[k].generation = generation
                          /\ new[k].purpose = Sync
    BY <1>8 DEF Job
  <2> QED BY <2>1, <2>4, <2>5
<1>10. TypeOK /\ Answers' = Answers /\ jobs' \in Seq(Jobs) /\ Len(Outstanding) \in Nat
  BY <1>9, AppendPipeline DEF IInv
<1>11. states' = [i \in Instruments |-> IF i \in due THEN Requested ELSE states[i]]
  OBVIOUS
<1>12. TypeOK'
  BY <1>10, <1>11 DEF TypeOK
<1>13. GenerationsArePast'
  BY <1>9, AppendedGenerations
<1>14. \A i \in due : i \in Instruments /\ ~IsLive(books, i) /\ states[i] # Requested
  BY DEF NeedsSnapshot, Idle, RetryDue, Requested
<1> HIDE DEF due
<1>15. \A i \in Instruments : \A m : m \in SyncRequests(i)' <=>
           \/ m \in SyncRequests(i)
           \/ \E k \in 1 .. c : m = Len(Outstanding) + k /\ inOrder[k] = i
  <2> TAKE i \in Instruments
  <2>1. results' = results /\ fetching' = fetching /\ generation' = generation
    OBVIOUS
  <2> HIDE DEF RequestSnapshots, streamVars
  <2>0. TypeOK /\ new \in Seq(Jobs) /\ jobs' = jobs \o new
    BY <1>9, <1>10
  <2>2. \A m : m \in SyncRequests(i)' <=>
           \/ m \in SyncRequests(i)
           \/ \E k \in 1 .. Len(new) : /\ m = Len(Outstanding) + k
                                       /\ new[k].instrument = i
                                       /\ new[k].generation = generation
                                       /\ new[k].purpose = Sync
    BY <2>0, <2>1, AppendedRequests
  <2> QED BY <1>9, <2>2
<1>16. RequestsAreMatched'
  <2> SUFFICES ASSUME NEW i \in Instruments
               PROVE  /\ states'[i] = Requested <=> SyncRequests(i)' # {}
                      /\ \A k, l \in SyncRequests(i)' : k = l
    BY DEF RequestsAreMatched
  <2>1. /\ states[i] = Requested <=> SyncRequests(i) # {}
        /\ \A k, l \in SyncRequests(i) : k = l
    BY DEF IInv, RequestsAreMatched
  <2>2. CASE i \in due
    <3>1. SyncRequests(i) = {} /\ states'[i] = Requested
      BY <1>11, <1>14, <2>1, <2>2
    <3>2. PICK k \in 1 .. c : inOrder[k] = i
      BY <1>7, <2>2
    <3>3. SyncRequests(i)' = {Len(Outstanding) + k}
      <4>1. \A l \in 1 .. c : inOrder[l] = i => l = k
        BY <1>6, <3>2
      <4> QED BY <1>15, <3>1, <3>2, <4>1
    <3> QED BY <3>1, <3>3
  <2>3. CASE i \notin due
    <3>1. states'[i] = states[i]
      BY <1>11, <2>3
    <3>2. \A k \in 1 .. c : inOrder[k] # i
      BY <1>4, <2>3
    <3>3. SyncRequests(i)' = SyncRequests(i)
      BY <1>15, <3>2
    <3> QED BY <2>1, <3>1, <3>3
  <2> QED BY <2>2, <2>3
<1>17. AnswersAscend' /\ AnswersAreFresh'
  BY <1>10 DEF IInv, AnswersAscend, AnswersAreFresh
<1>18. LiveMeansIdle'
  BY <1>11, <1>14 DEF IInv, LiveMeansIdle
<1>19. HandlerKnows' /\ VerifiedBookIsLive' /\ BooksAreOfTheStream' /\ ShadowIsNewer'
  BY DEF IInv, HandlerKnows, VerifiedBookIsLive, BooksAreOfTheStream, ShadowIsNewer
<1>20. LiveBookIsOfThisConnection'
  BY DEF IInv, LiveBookIsOfThisConnection
<1> QED BY <1>12, <1>13, <1>16, <1>17, <1>18, <1>19, <1>20 DEF IInv

(* What is on its way once a result has been collected. *)
LEMMA CollectedRequests ==
  ASSUME IInv, Collect
  PROVE  /\ GenerationsArePast' /\ AnswersAscend'
         /\ \A j \in Instruments : \A m : m \in SyncRequests(j)' <=>
              m \in Nat \ {0} /\ m + 1 \in SyncRequests(j)
<1> USE DEF Collect, streamVars
<1>1. /\ Len(Answers) > 0 /\ Len(Answers') = Len(Answers) - 1
      /\ \A k \in 1 .. Len(Answers') : Answers'[k] = Answers[k + 1]
      /\ Len(Outstanding') = Len(Outstanding) - 1
      /\ \A k \in 1 .. Len(Outstanding') : Outstanding'[k] = Outstanding[k + 1]
  BY CollectPipeline DEF IInv
<1>2. PipelineShape /\ Len(Answers) \in Nat /\ Len(Outstanding) \in Nat
  BY PipelineIsShaped DEF IInv, PipelineShape
<1>3. GenerationsArePast'
  <2>1. generation' = generation /\ pc' \notin {"down", "stopped"}
    OBVIOUS
  <2>2. \A k \in 1 .. Len(Outstanding') : k + 1 \in 1 .. Len(Outstanding)
    BY <1>1, <1>2
  <2> QED BY <1>1, <2>1, <2>2 DEF IInv, GenerationsArePast
<1>4. AnswersAscend'
  <2> SUFFICES ASSUME NEW k \in 1 .. Len(Answers'), NEW l \in 1 .. Len(Answers'), k < l,
                      Answers'[k].instrument = Answers'[l].instrument,
                      Answers'[l].seq # Failed
               PROVE  Answers'[k].seq <= Answers'[l].seq
    BY DEF AnswersAscend
  <2>1. k + 1 \in 1 .. Len(Answers) /\ l + 1 \in 1 .. Len(Answers) /\ k + 1 < l + 1
    BY <1>1, <1>2
  <2> QED BY <1>1, <2>1 DEF IInv, AnswersAscend
<1>5. ASSUME NEW j \in Instruments, NEW m
      PROVE  m \in SyncRequests(j)' <=> m \in Nat \ {0} /\ m + 1 \in SyncRequests(j)
  <2>1. generation' = generation
    OBVIOUS
  <2>2. m \in 1 .. Len(Outstanding') <=> m \in Nat \ {0} /\ m + 1 \in 1 .. Len(Outstanding)
    BY <1>1, <1>2
  <2> QED BY <1>1, <2>1, <2>2 DEF SyncRequests
<1> QED BY <1>3, <1>4, <1>5

(* The result being collected. *)
LEMMA CollectedResult ==
  ASSUME IInv, Collect, NEW r, r = Head(results)
  PROVE  /\ r \in Results
         /\ r.seq # Failed => r.seq \in 0 .. MaxSeq
         /\ r.seq # Failed /\ r.generation = generation =>
              /\ r.seq <= now[r.instrument]
              /\ connectedAt[r.instrument] <= r.seq
              /\ IsLive(books, r.instrument) => books.syncs[r.instrument].base <= r.seq
         /\ \A k \in 1 .. Len(Answers') :
              Answers'[k].instrument = r.instrument /\ Answers'[k].seq # Failed
                => r.seq <= Answers'[k].seq
         /\ r.generation = generation /\ r.purpose = Sync => 1 \in SyncRequests(r.instrument)
<1>1. /\ Len(Answers) > 0 /\ Len(Answers') = Len(Answers) - 1
      /\ \A k \in 1 .. Len(Answers') : Answers'[k] = Answers[k + 1]
      /\ r = Answers[1] /\ r = Outstanding[1]
  BY CollectPipeline DEF IInv, Collect
<1>2. PipelineShape /\ Len(Answers) \in Nat
  BY PipelineIsShaped DEF IInv, PipelineShape
<1>3. 1 \in 1 .. Len(Answers) /\ r \in Results
  BY <1>1, <1>2 DEF PipelineShape
<1>4. r.seq # Failed => r.seq \in 0 .. MaxSeq
  BY <1>3, Bounds DEF Results, Failed
<1>5. r.seq # Failed /\ r.generation = generation =>
        /\ r.seq <= now[r.instrument]
        /\ connectedAt[r.instrument] <= r.seq
        /\ IsLive(books, r.instrument) => books.syncs[r.instrument].base <= r.seq
  BY <1>1, <1>3 DEF IInv, AnswersAreFresh
<1>6. ASSUME NEW k \in 1 .. Len(Answers'),
             Answers'[k].instrument = r.instrument, Answers'[k].seq # Failed
      PROVE  r.seq <= Answers'[k].seq
  <2>1. k + 1 \in 1 .. Len(Answers) /\ 1 < k + 1
    BY <1>1, <1>2
  <2> QED BY <1>1, <1>3, <1>6, <2>1 DEF IInv, AnswersAscend
<1>7. r.generation = generation /\ r.purpose = Sync => 1 \in SyncRequests(r.instrument)
  <2>1. 1 \in 1 .. Len(Outstanding)
    BY <1>2, <1>3 DEF PipelineShape
  <2> QED BY <1>1, <2>1 DEF SyncRequests
<1> QED BY <1>3, <1>4, <1>5, <1>6, <1>7

(* Only the instrument whose sync request was answered has one less. *)
LEMMA CollectedMatch ==
  ASSUME IInv, Collect, NEW r, r = Head(results),
         states' \in [Instruments -> {Idle, Requested, RetryAt, RetryDue}],
         \A j \in Instruments :
           IF r.generation = generation /\ r.purpose = Sync /\ r.instrument = j
             THEN states'[j] # Requested
             ELSE states'[j] = Requested <=> states[j] = Requested
  PROVE  RequestsAreMatched'
<1> SUFFICES ASSUME NEW j \in Instruments
             PROVE  /\ states'[j] = Requested <=> SyncRequests(j)' # {}
                    /\ \A k, l \in SyncRequests(j)' : k = l
  BY DEF RequestsAreMatched
<1>1. /\ states[j] = Requested <=> SyncRequests(j) # {}
      /\ \A k, l \in SyncRequests(j) : k = l
  BY DEF IInv, RequestsAreMatched
<1>2. \A m : m \in SyncRequests(j)' <=> m \in Nat \ {0} /\ m + 1 \in SyncRequests(j)
  BY CollectedRequests
<1>3. \A k, l \in SyncRequests(j)' : k = l
  <2> TAKE k, l \in SyncRequests(j)'
  <2>1. k \in Nat /\ l \in Nat /\ k + 1 = l + 1
    BY <1>1, <1>2
  <2> QED BY <2>1
<1>4. CASE r.generation = generation /\ r.purpose = Sync /\ r.instrument = j
  <2>1. 1 \in SyncRequests(j)
    BY <1>4, CollectedResult
  <2>2. ASSUME NEW m \in SyncRequests(j)' PROVE FALSE
    <3>1. m \in Nat \ {0} /\ m + 1 = 1
      BY <1>1, <1>2, <2>1
    <3> QED BY <3>1
  <2> QED BY <1>3, <1>4, <2>2
<1>5. CASE ~(r.generation = generation /\ r.purpose = Sync /\ r.instrument = j)
  <2>1. r = Outstanding[1]
    BY CollectPipeline DEF IInv, Collect
  <2>2. 1 \notin SyncRequests(j)
    BY <1>5, <2>1 DEF SyncRequests
  <2>3. ASSUME NEW m \in SyncRequests(j) PROVE m - 1 \in SyncRequests(j)'
    <3>1. m \in Nat \ {0} /\ m # 1
      BY <2>2 DEF SyncRequests
    <3>2. m - 1 \in Nat \ {0} /\ (m - 1) + 1 = m
      BY <3>1
    <3> QED BY <1>2, <3>2
  <2>4. SyncRequests(j)' # {} <=> SyncRequests(j) # {}
    BY <1>2, <2>3
  <2> QED BY <1>1, <1>3, <1>5, <2>4
<1> QED BY <1>4, <1>5

(* The answers left are fresh, when the books are as they were except for  *)
(* the one built on the answer collected.                                  *)
LEMMA CollectedFresh ==
  ASSUME IInv, Collect, NEW r, r = Head(results),
         \A j \in Instruments : IsLive(books', j) =>
           \/ IsLive(books, j) /\ books'.syncs[j].base = books.syncs[j].base
           \/ r.instrument = j /\ books'.syncs[j].base = r.seq
  PROVE  AnswersAreFresh'
<1> SUFFICES ASSUME NEW k \in 1 .. Len(Answers')
             PROVE  LET a == Answers'[k]
                    IN  /\ a.seq <= now[a.instrument]
                        /\ a.generation = generation /\ a.seq # Failed =>
                             /\ connectedAt[a.instrument] <= a.seq
                             /\ IsLive(books', a.instrument) =>
                                  books'.syncs[a.instrument].base <= a.seq
  BY DEF AnswersAreFresh, Collect, streamVars
<1>1. /\ Len(Answers') = Len(Answers) - 1 /\ Answers'[k] = Answers[k + 1]
  BY CollectPipeline DEF IInv, Collect
<1>2. PipelineShape /\ Len(Answers) \in Nat
  BY PipelineIsShaped DEF IInv, PipelineShape
<1>3. k + 1 \in 1 .. Len(Answers)
  BY <1>1, <1>2
<1>4. PICK a : a = Answers'[k]
  OBVIOUS
<1>5. a = Answers[k + 1] /\ a.instrument \in Instruments
  BY <1>1, <1>2, <1>3, <1>4 DEF PipelineShape, Results
<1>6. /\ a.seq <= now[a.instrument]
      /\ a.generation = generation /\ a.seq # Failed =>
           /\ connectedAt[a.instrument] <= a.seq
           /\ IsLive(books, a.instrument) => books.syncs[a.instrument].base <= a.seq
  BY <1>3, <1>5 DEF IInv, AnswersAreFresh
<1>7. a.instrument = r.instrument /\ a.seq # Failed => r.seq <= a.seq
  BY <1>4, CollectedResult
<1> QED BY <1>4, <1>5, <1>6, <1>7

(* A result that no instrument waits for leaves every book as it is, or    *)
(* takes it down.                                                          *)
LEMMA CollectOtherIInv ==
  ASSUME IInv, Collect, NEW r, r = Head(results),
         ~(r.generation = generation /\ r.purpose = Sync),
         books' \in Books, states' = states,
         verification' \in Instruments \cup {NoInstrument},
         shown' \in [Instruments -> BOOLEAN], mismatched' \subseteq Instruments,
         \A j \in Instruments : \/ books'.syncs[j] = books.syncs[j]
                                \/ books'.syncs[j] = NewSync,
         HandlerKnows', VerifiedBookIsLive', ShadowIsNewer'
  PROVE  IInv'
<1>0. /\ now' = now /\ sent' = sent /\ connectedAt' = connectedAt
      /\ pc' = pc /\ generation' = generation /\ cursor' = cursor
      /\ jobs' = jobs /\ fetching' = fetching /\ timeouts' = timeouts
  BY DEF Collect, streamVars
<1>1. results' \in Seq(Results)
  BY CollectPipeline DEF IInv, Collect
<1>2. TypeOK'
  BY <1>0, <1>1 DEF IInv, TypeOK
<1>3. GenerationsArePast' /\ AnswersAscend'
  BY CollectedRequests
<1>4. RequestsAreMatched'
  BY CollectedMatch DEF IInv, TypeOK
<1>5. \A j \in Instruments : IsLive(books', j) =>
        IsLive(books, j) /\ books'.syncs[j].base = books.syncs[j].base
  BY NewBooksFacts DEF IsLive
<1>6. AnswersAreFresh'
  BY <1>5, CollectedFresh
<1>7. LiveMeansIdle' /\ LiveBookIsOfThisConnection'
  BY <1>0, <1>5 DEF IInv, LiveMeansIdle, LiveBookIsOfThisConnection
<1>8. BooksAreOfTheStream'
  <2> SUFFICES ASSUME NEW j \in Instruments
               PROVE  LET s == books'.syncs[j]
                      IN  /\ sent[j] <= now[j] /\ connectedAt[j] <= now[j]
                          /\ s.sync.live => /\ s.base <= now[j]
                                            /\ s.sync.last = s.base \/ s.sync.last <= sent[j]
                          /\ ~s.sync.live => s.sync.last <= sent[j]
    BY <1>0 DEF BooksAreOfTheStream
  <2>1. CASE books'.syncs[j] = books.syncs[j]
    BY <2>1 DEF IInv, BooksAreOfTheStream
  <2>2. CASE books'.syncs[j] = NewSync
    <3>1. 0 <= sent[j]
      BY Bounds DEF IInv, TypeOK
    <3> QED BY <2>2, <3>1, NewBooksFacts DEF IInv, BooksAreOfTheStream
  <2> QED BY <2>1, <2>2
<1> QED BY <1>2, <1>3, <1>4, <1>6, <1>7, <1>8 DEF IInv

(* A result of an earlier connection changes nothing, and neither does one *)
(* of a verification that is over.                                         *)
LEMMA CollectNothingIInv ==
  ASSUME IInv, Collect, NEW r, r = Head(results),
         ~(r.generation = generation /\ r.purpose = Sync), UNCHANGED bookVars
  PROVE  IInv'
<1>1. /\ books' = books /\ states' = states /\ verification' = verification
      /\ shown' = shown /\ mismatched' = mismatched
  BY DEF bookVars
<1>2. HandlerKnows' /\ VerifiedBookIsLive' /\ ShadowIsNewer'
  BY <1>1 DEF IInv, HandlerKnows, VerifiedBookIsLive, ShadowIsNewer
<1> QED BY <1>1, <1>2, CollectOtherIInv DEF IInv, TypeOK

(* The answer to a sync request: the book was down, and comes live on it   *)
(* or stays down.                                                          *)
LEMMA CollectSyncIInv ==
  ASSUME IInv, Collect, NEW r, r = Head(results), r.generation = generation, r.purpose = Sync
  PROVE  IInv'
<1>0. /\ now' = now /\ sent' = sent /\ connectedAt' = connectedAt
      /\ pc' = pc /\ generation' = generation /\ cursor' = cursor
      /\ jobs' = jobs /\ fetching' = fetching /\ timeouts' = timeouts /\ pc = "collect"
  BY DEF Collect, streamVars
<1>1. PICK i : i = r.instrument
  OBVIOUS
<1>2. PICK seq : seq = r.seq
  OBVIOUS
<1>3. /\ i \in Instruments /\ 1 \in SyncRequests(i)
      /\ seq # Failed => /\ seq \in 0 .. MaxSeq /\ seq <= now[i] /\ connectedAt[i] <= seq
  BY <1>1, <1>2, CollectedResult DEF Results
<1>4. states[i] = Requested /\ ~IsLive(books, i)
  BY <1>3 DEF IInv, RequestsAreMatched, LiveMeansIdle, Requested, Idle
<1>5. ApplySnapshot(i, seq)
  BY <1>1, <1>2 DEF Collect, Sync, Verification
<1>6. books \in Books
  BY DEF IInv, TypeOK
<1> DEFINE s == books.syncs[i]
           t == books'.syncs[i]
<1>7. /\ books' \in Books /\ books'.shadow = books.shadow
      /\ \A j \in Instruments : j # i => books'.syncs[j] = books.syncs[j]
      /\ t.sync.live => /\ seq # Failed /\ t.base = seq
                        /\ t.sync.last = seq \/ t.sync.last = s.sync.last
      /\ ~t.sync.live => t.sync.last = 0 \/ t.sync.last = s.sync.last
      /\ verification' = verification /\ mismatched' = mismatched
      /\ \/ t.sync.live /\ states' = [states EXCEPT ![i] = Idle]
                        /\ shown' = [shown EXCEPT ![i] = TRUE]
         \/ /\ ~t.sync.live
            /\ states' \in {[states EXCEPT ![i] = Idle], [states EXCEPT ![i] = RetryAt]}
            /\ shown' \in {shown, [shown EXCEPT ![i] = FALSE]}
  <2>1. CASE seq = Failed
    <3>1. ~t.sync.live /\ books' = books
      BY <1>4, <1>5, <2>1 DEF ApplySnapshot, IsLive
    <3> QED BY <1>5, <1>6, <2>1, <3>1 DEF ApplySnapshot
  <2>2. CASE seq # Failed
    <3>1. PICK o \in OnSnapshot(books, i, seq) :
            /\ books' = o.books
            /\ states' = [states EXCEPT ![i] = IF o.outcome = "Invalid" THEN RetryAt ELSE Idle]
            /\ shown' = CASE o.outcome = "Live" -> [shown EXCEPT ![i] = TRUE]
                          [] o.outcome = "Invalid" -> [shown EXCEPT ![i] = FALSE]
                          [] OTHER -> shown
            /\ UNCHANGED <<verification, mismatched>>
      BY <1>5, <2>2 DEF ApplySnapshot
    <3>2. /\ books' \in Books /\ books'.shadow = books.shadow
          /\ \A j \in Instruments : j # i => books'.syncs[j] = books.syncs[j]
          /\ t.sync.live => /\ o.outcome = "Live" /\ t.base = seq
                            /\ t.sync.last = seq \/ t.sync.last = s.sync.last
          /\ ~t.sync.live => /\ o.outcome \in {"Invalid", "TooOld"}
                             /\ t.sync.last = 0 \/ t.sync.last = s.sync.last
      BY <1>3, <1>4, <1>6, <2>2, <3>1, OnSnapshotFacts
    <3>3. CASE t.sync.live
      BY <2>2, <3>1, <3>2, <3>3
    <3>4. CASE ~t.sync.live /\ o.outcome = "Invalid"
      BY <2>2, <3>1, <3>2, <3>4
    <3>5. CASE ~t.sync.live /\ o.outcome = "TooOld"
      BY <2>2, <3>1, <3>2, <3>5
    <3> QED BY <3>2, <3>3, <3>4, <3>5
  <2> QED BY <2>1, <2>2
<1> HIDE DEF s, t
<1>8. /\ states \in [Instruments -> {Idle, Requested, RetryAt, RetryDue}]
      /\ shown \in [Instruments -> BOOLEAN]
      /\ shown[i] <=> IsLive(books, i)
  BY <1>3 DEF IInv, TypeOK, HandlerKnows
<1>9. /\ states' \in [Instruments -> {Idle, Requested, RetryAt, RetryDue}]
      /\ states'[i] \in {Idle, RetryAt} /\ (t.sync.live => states'[i] = Idle)
      /\ \A j \in Instruments : j # i => states'[j] = states[j]
  BY <1>3, <1>7, <1>8
<1>10. /\ shown' \in [Instruments -> BOOLEAN]
       /\ shown'[i] <=> t.sync.live
       /\ \A j \in Instruments : j # i => shown'[j] = shown[j]
  <2>1. CASE t.sync.live
    BY <1>3, <1>7, <1>8, <2>1
  <2>2. CASE ~t.sync.live /\ shown' = shown
    BY <1>4, <1>8, <2>2
  <2>3. CASE ~t.sync.live /\ shown' = [shown EXCEPT ![i] = FALSE]
    BY <1>3, <1>8, <2>3
  <2> QED BY <1>7, <2>1, <2>2, <2>3
<1>11. TypeOK'
  <2>1. results' \in Seq(Results)
    BY CollectPipeline DEF IInv, Collect
  <2> QED BY <1>0, <1>7, <1>9, <1>10, <2>1 DEF IInv, TypeOK
<1>12. GenerationsArePast' /\ AnswersAscend'
  BY CollectedRequests
<1>13. RequestsAreMatched'
  <2>1. states'[i] # Requested
    BY <1>9 DEF Idle, RetryAt, Requested
  <2> QED BY <1>1, <1>9, <2>1, CollectedMatch
<1>14. \A j \in Instruments : IsLive(books', j) =>
         \/ j # i /\ IsLive(books, j) /\ books'.syncs[j] = books.syncs[j]
         \/ j = i /\ t.sync.live /\ books'.syncs[j] = t
  BY <1>7 DEF IsLive, t
<1>15. AnswersAreFresh'
  <2>1. \A j \in Instruments : IsLive(books', j) =>
          \/ IsLive(books, j) /\ books'.syncs[j].base = books.syncs[j].base
          \/ r.instrument = j /\ books'.syncs[j].base = r.seq
    BY <1>1, <1>2, <1>7, <1>14
  <2> QED BY <2>1, CollectedFresh
<1>16. BooksAreOfTheStream'
  <2> SUFFICES ASSUME NEW j \in Instruments
               PROVE  LET u == books'.syncs[j]
                      IN  /\ sent[j] <= now[j] /\ connectedAt[j] <= now[j]
                          /\ u.sync.live => /\ u.base <= now[j]
                                            /\ u.sync.last = u.base \/ u.sync.last <= sent[j]
                          /\ ~u.sync.live => u.sync.last <= sent[j]
    BY <1>0 DEF BooksAreOfTheStream
  <2>1. CASE j # i
    BY <1>7, <2>1 DEF IInv, BooksAreOfTheStream
  <2>2. CASE j = i
    <3>1. s.sync.last <= sent[i] /\ sent[i] <= now[i] /\ connectedAt[i] <= now[i]
      BY <1>3, <1>4 DEF IInv, BooksAreOfTheStream, IsLive, s
    <3>2. 0 <= sent[i]
      BY <1>3, Bounds DEF IInv, TypeOK
    <3>3. books'.syncs[j] = t
      BY <2>2 DEF t
    <3> QED BY <1>3, <1>7, <2>2, <3>1, <3>2, <3>3
  <2> QED BY <2>1, <2>2
<1>17. LiveMeansIdle'
  BY <1>9, <1>14 DEF IInv, LiveMeansIdle
<1>18. LiveBookIsOfThisConnection'
  <2> SUFFICES ASSUME NEW j \in Instruments, IsLive(books', j)
               PROVE  books'.syncs[j].base >= connectedAt[j]
    BY <1>0 DEF LiveBookIsOfThisConnection
  <2>1. CASE j # i
    BY <1>14, <2>1 DEF IInv, LiveBookIsOfThisConnection
  <2>2. CASE j = i
    <3>1. connectedAt[i] \in Int /\ seq \in Int /\ books'.syncs[j].base = seq
          /\ connectedAt[i] <= seq
      BY <1>3, <1>7, <1>14, <2>2, Bounds DEF IInv, TypeOK
    <3> QED BY <2>2, <3>1
  <2> QED BY <2>1, <2>2
<1>19. HandlerKnows'
  BY <1>7, <1>10 DEF IInv, HandlerKnows, IsLive, t
<1>20. VerifiedBookIsLive' /\ ShadowIsNewer'
  <2>1. Verifying(books') = Verifying(books)
    BY <1>7 DEF Verifying
  <2>2. Verifying(books) # NoInstrument =>
          /\ Verifying(books) \in Instruments /\ IsLive(books, Verifying(books))
          /\ Verifying(books) # i
    BY <1>4, <1>6, BooksFields DEF IInv, VerifiedBookIsLive, Verifying
  <2>3. Verifying(books) # NoInstrument =>
          books'.syncs[Verifying(books)] = books.syncs[Verifying(books)]
    BY <1>7, <2>2
  <2>4. VerifiedBookIsLive'
    BY <1>7, <2>1, <2>2, <2>3 DEF IInv, VerifiedBookIsLive, IsLive
  <2>5. ShadowIsNewer'
    BY <1>7, <2>1, <2>3 DEF IInv, ShadowIsNewer
  <2> QED BY <2>4, <2>5
<1> QED BY <1>11, <1>12, <1>13, <1>15, <1>16, <1>17, <1>18, <1>19, <1>20 DEF IInv

(* The answer to a verification loads the shadow, ends the verification,   *)
(* or takes down the book that it shows to be wrong.                       *)
LEMMA CollectVerificationIInv ==
  ASSUME IInv, Collect, NEW r, r = Head(results),
         r.generation = generation, r.purpose = Verification
  PROVE  IInv'
<1>1. PICK i : i = r.instrument
  OBVIOUS
<1>2. PICK seq : seq = r.seq
  OBVIOUS
<1>3. /\ i \in Instruments /\ i # NoInstrument
      /\ seq # Failed => seq \in 0 .. MaxSeq
      /\ seq # Failed /\ IsLive(books, i) => books.syncs[i].base <= seq
  BY <1>1, <1>2, CollectedResult, InstrumentsAssumption DEF Results
<1>4. ApplyVerificationSnapshot(i, seq)
  BY <1>1, <1>2 DEF Collect, Sync, Verification
<1>5. books \in Books
  BY DEF IInv, TypeOK
<1>6. CASE verification # i \/ Verifying(books) # i
  <2>1. UNCHANGED bookVars
    BY <1>4, <1>6 DEF ApplyVerificationSnapshot
  <2> QED BY <2>1, CollectNothingIInv DEF Sync, Verification
<1>7. CASE verification = i /\ Verifying(books) = i
  <2>0. IsLive(books, i) /\ states[i] = Idle
    BY <1>3, <1>7 DEF IInv, VerifiedBookIsLive, LiveMeansIdle
  <2>1. CASE seq = Failed
    <3>1. /\ books' = CancelVerification(books) /\ verification' = NoInstrument
          /\ states' = states /\ shown' = shown /\ mismatched' = mismatched
      BY <1>4, <1>7, <2>1 DEF ApplyVerificationSnapshot
    <3>2. books' \in Books /\ books'.syncs = books.syncs /\ books'.shadow = NoShadow
      BY <1>5, <3>1, CancelFacts
    <3>3. ShadowIsNewer' /\ VerifiedBookIsLive'
      BY <3>1, <3>2, NewBooksFacts DEF ShadowIsNewer, VerifiedBookIsLive, Verifying
    <3>4. HandlerKnows'
      BY <3>1, <3>2 DEF IInv, HandlerKnows, IsLive
    <3> QED BY <3>1, <3>2, <3>3, <3>4, CollectOtherIInv DEF IInv, TypeOK, Sync, Verification
  <2>2. CASE seq # Failed
    <3>1. PICK o \in OnVerificationSnapshot(books, i, seq) :
            /\ books' = o.books
            /\ verification' = IF o.outcome = "Pending" THEN verification ELSE NoInstrument
            /\ IF o.outcome = "Failed"
                 THEN /\ states' = [states EXCEPT ![i] = Idle]
                      /\ shown' = [shown EXCEPT ![i] = FALSE]
                      /\ mismatched' = mismatched \cup {i}
                 ELSE UNCHANGED <<states, shown, mismatched>>
      BY <1>4, <1>7, <2>2 DEF ApplyVerificationSnapshot
    <3>2. OnVerificationFacts(books, i, seq, o)
      <4>1. ~books.shadow.loaded => ~books.shadow.book.sync.live
        BY DEF IInv, ShadowIsNewer
      <4> QED BY <1>3, <1>5, <1>7, <2>2, <3>1, <4>1, OnVerificationOutcome
    <3>3. books' \in Books
      BY <3>1, <3>2 DEF OnVerificationFacts
    <3>4. /\ states \in [Instruments -> {Idle, Requested, RetryAt, RetryDue}]
          /\ shown \in [Instruments -> BOOLEAN] /\ mismatched \subseteq Instruments
          /\ books.syncs \in [Instruments -> BookSyncs]
      BY <1>5, BooksFields DEF IInv, TypeOK
    <3>5. states' = states
      BY <2>0, <3>1, <3>4
    <3>6. /\ verification' \in Instruments \cup {NoInstrument}
          /\ shown' \in [Instruments -> BOOLEAN] /\ mismatched' \subseteq Instruments
      BY <1>3, <1>7, <3>1, <3>4
    <3>7. \A j \in Instruments :
            books'.syncs[j] = IF o.outcome = "Failed" /\ j = i THEN NewSync ELSE books.syncs[j]
      BY <3>1, <3>2, <3>4 DEF OnVerificationFacts
    <3>8. HandlerKnows'
      <4> SUFFICES ASSUME NEW j \in Instruments PROVE shown'[j] <=> IsLive(books', j)
        BY DEF HandlerKnows
      <4>1. shown[j] <=> IsLive(books, j)
        BY DEF IInv, HandlerKnows
      <4>2. CASE o.outcome = "Failed" /\ j = i
        BY <3>1, <3>4, <3>7, <4>2, NewBooksFacts DEF IsLive
      <4>3. CASE ~(o.outcome = "Failed" /\ j = i)
        <5>1. shown'[j] = shown[j]
          BY <3>1, <3>4, <4>3
        <5> QED BY <3>7, <4>1, <4>3, <5>1 DEF IsLive
      <4> QED BY <4>2, <4>3
    <3>9. VerifiedBookIsLive' /\ ShadowIsNewer'
      <4>1. CASE o.outcome = "NotRunning"
        <5>1. books' = books /\ verification' = NoInstrument
          BY <3>1, <3>2, <4>1 DEF OnVerificationFacts
        <5> QED BY <5>1 DEF IInv, VerifiedBookIsLive, ShadowIsNewer
      <4>2. CASE o.outcome = "Pending"
        <5>1. /\ Verifying(books') = i /\ verification' = i
              /\ books'.shadow.loaded /\ books'.shadow.book.base = seq
              /\ books'.syncs[i] = books.syncs[i]
          BY <1>3, <1>7, <3>1, <3>2, <3>7, <4>2 DEF OnVerificationFacts
        <5>2. IsLive(books', i) /\ books'.syncs[i].base <= seq
          BY <1>3, <2>0, <2>2, <5>1 DEF IsLive
        <5> QED BY <5>1, <5>2 DEF VerifiedBookIsLive, ShadowIsNewer
      <4>3. CASE o.outcome \notin {"NotRunning", "Pending"}
        <5>1. books'.shadow = NoShadow /\ verification' = NoInstrument
          BY <3>1, <3>2, <4>3 DEF OnVerificationFacts
        <5> QED BY <5>1, NewBooksFacts DEF VerifiedBookIsLive, ShadowIsNewer, Verifying
      <4> QED BY <4>1, <4>2, <4>3
    <3> QED BY <3>3, <3>5, <3>6, <3>7, <3>8, <3>9, CollectOtherIInv DEF Sync, Verification
  <2> QED BY <2>1, <2>2
<1> QED BY <1>6, <1>7

(* Collecting a result. *)
LEMMA CollectIInv ==
  ASSUME IInv, Collect
  PROVE  IInv'
<1>1. PICK r : r = Head(results)
  OBVIOUS
<1>2. r.purpose \in {Sync, Verification}
  BY <1>1, CollectedResult DEF Results
<1>3. CASE r.generation # generation
  <2>1. UNCHANGED bookVars
    BY <1>1, <1>3 DEF Collect
  <2> QED BY <1>1, <1>3, <2>1, CollectNothingIInv
<1>4. CASE r.generation = generation /\ r.purpose = Sync
  BY <1>1, <1>4, CollectSyncIInv
<1>5. CASE r.generation = generation /\ r.purpose = Verification
  BY <1>1, <1>5, CollectVerificationIInv
<1> QED BY <1>2, <1>3, <1>4, <1>5

(* Every step preserves the invariant. *)
LEMMA NextIInv == IInv /\ [Next]_vars => IInv'
<1> SUFFICES ASSUME IInv, [Next]_vars PROVE IInv'
  OBVIOUS
<1>1. ASSUME NEW i \in Instruments, VenueUpdate(i) PROVE IInv'
  BY <1>1, VenueUpdateIInv
<1>2. ASSUME NEW i \in Instruments, RetryTimer(i) PROVE IInv'
  BY <1>2, RetryTimerIInv
<1>3. ASSUME NEW i \in Instruments, NEW from \in 1 .. MaxSeq, NEW to \in 1 .. MaxSeq,
             ReceiveDelta(i, from, to)
      PROVE  IInv'
  BY <1>3, ReceiveDeltaIInv
<1>4. CASE Connect
  BY <1>4, ConnectIInv
<1>5. CASE ConnectFails
  <2>1. TakeAllDown /\ pc' \in {"down", "stopped"}
    BY <1>5 DEF ConnectFails
  <2> QED BY <2>1, TakeAllDownIInv
<1>6. CASE Drop
  <2>1. TakeAllDown /\ pc' \in {"down", "stopped"}
    BY <1>6 DEF Drop
  <2> QED BY <2>1, TakeAllDownIInv
<1>7. CASE Stop \/ DrainDone \/ CollectDone \/ NothingDue
  BY <1>7, MoveOnIInv
<1>8. CASE Collect
  BY <1>8, CollectIInv
<1>9. CASE RequestSnapshots
  BY <1>9, RequestSnapshotsIInv
<1>10. CASE TimeOut
  BY <1>10, TimeOutIInv
<1>11. CASE StartNext
  BY <1>11, StartNextIInv
<1>12. CASE TakeJob
  BY <1>12, TakeJobIInv
<1>13. CASE Fetched \/ FetchFailed
  BY <1>13, FetchedIInv
<1>14. CASE UNCHANGED vars
  <2>1. /\ now' = now /\ sent' = sent /\ connectedAt' = connectedAt /\ pc' = pc
        /\ books' = books /\ states' = states /\ verification' = verification
        /\ shown' = shown /\ mismatched' = mismatched /\ generation' = generation
        /\ cursor' = cursor /\ jobs' = jobs /\ fetching' = fetching /\ results' = results
        /\ timeouts' = timeouts
    BY <1>14 DEF vars, streamVars, bookVars, workerVars
  <2>2. Outstanding' = Outstanding /\ Answers' = Answers
        /\ \A j : SyncRequests(j)' = SyncRequests(j)
    BY <2>1 DEF Outstanding, Answers, SyncRequests
  <2>3. TypeOK' /\ RequestsAreMatched' /\ GenerationsArePast' /\ AnswersAreFresh'
        /\ AnswersAscend'
    BY <2>1, <2>2 DEF IInv, TypeOK, RequestsAreMatched, GenerationsArePast, AnswersAreFresh,
                      AnswersAscend
  <2>4. BooksAreOfTheStream' /\ ShadowIsNewer' /\ LiveMeansIdle' /\ HandlerKnows'
        /\ LiveBookIsOfThisConnection' /\ VerifiedBookIsLive'
    BY <2>1 DEF IInv, BooksAreOfTheStream, ShadowIsNewer, LiveMeansIdle, HandlerKnows,
                LiveBookIsOfThisConnection, VerifiedBookIsLive
  <2> QED BY <2>3, <2>4 DEF IInv
<1> QED BY <1>1, <1>2, <1>3, <1>4, <1>5, <1>6, <1>7, <1>8, <1>9, <1>10, <1>11, <1>12,
           <1>13, <1>14 DEF Next

-----------------------------------------------------------------------------
(***************************************************************************)
(* The theorems.                                                           *)
(***************************************************************************)

(* The session, its snapshot thread and its books keep the invariant       *)
(* through every interleaving, reconnect, retry and timeout.               *)
THEOREM SessionInvariant == Spec => []IInv
BY InitIInv, NextIInv, PTL DEF Spec

(* Every variable of the session keeps its type: the channels hold jobs    *)
(* and results of connections that have been made, and a verification is   *)
(* of an instrument of the session.                                        *)
THEOREM SessionTypeCorrect == Spec => []TypeOK
<1>1. IInv => TypeOK
  BY DEF IInv
<1> QED BY <1>1, SessionInvariant, PTL

(* request_snapshots and collect_snapshots: an instrument is Requested     *)
(* exactly while one sync request of this connection is on its way for it. *)
THEOREM SessionOneSyncRequest == Spec => []OneSyncRequest
<1>1. IInv => OneSyncRequest
  <2> SUFFICES ASSUME IInv, NEW i \in Instruments
               PROVE  Cardinality(SyncRequests(i)) = One(states[i] = Requested)
    BY DEF OneSyncRequest
  <2>1. /\ states[i] = Requested <=> SyncRequests(i) # {}
        /\ \A k, l \in SyncRequests(i) : k = l
    BY DEF IInv, RequestsAreMatched
  <2>2. CASE SyncRequests(i) = {}
    BY <2>1, <2>2, FS_EmptySet DEF One
  <2>3. CASE SyncRequests(i) # {}
    <3>1. PICK k : SyncRequests(i) = {k}
      BY <2>1, <2>3
    <3> QED BY <2>1, <2>3, <3>1, FS_Singleton DEF One
  <2> QED BY <2>2, <2>3
<1> QED BY <1>1, SessionInvariant, PTL

(* after_apply and apply_snapshot: a live book waits for nothing. *)
THEOREM SessionLiveMeansIdle == Spec => []LiveMeansIdle
<1>1. IInv => LiveMeansIdle
  BY DEF IInv
<1> QED BY <1>1, SessionInvariant, PTL

(* take_all_down and the generation of a result: no book is live on a      *)
(* snapshot from before the connection.                                    *)
THEOREM SessionLiveBookIsOfThisConnection == Spec => []LiveBookIsOfThisConnection
<1>1. IInv => LiveBookIsOfThisConnection
  BY DEF IInv
<1> QED BY <1>1, SessionInvariant, PTL

(* The handler's calls: it believes an instrument live exactly when its    *)
(* book is.                                                                *)
THEOREM SessionHandlerKnows == Spec => []HandlerKnows
<1>1. IInv => HandlerKnows
  BY DEF IInv
<1> QED BY <1>1, SessionInvariant, PTL

(* start_verification, apply and reset_all: the book under verification is *)
(* live, so the shadow is never compared with one rebuilt meanwhile.       *)
THEOREM SessionVerifiedBookIsLive == Spec => []VerifiedBookIsLive
<1>1. IInv => VerifiedBookIsLive
  BY DEF IInv
<1> QED BY <1>1, SessionInvariant, PTL

(* What MismatchIsReal says of one step. *)
MismatchStep ==
  \A i \in mismatched' \ mismatched :
    books.syncs[i].base < Misreported[i] /\ Misreported[i] <= sent'[i]

(* A mismatch that the stream brings to light. *)
LEMMA DeltaMismatch ==
  ASSUME IInv, NEW i \in Instruments, NEW from \in 1 .. MaxSeq, NEW to \in 1 .. MaxSeq,
         ReceiveDelta(i, from, to)
  PROVE  MismatchStep
<1>1. PICK r \in Apply(books, i, from, to) : AfterApply(i, r)
  BY DEF ReceiveDelta
<1>2. books \in Books /\ from <= to /\ sent'[i] = to
  BY DEF IInv, TypeOK, ReceiveDelta
<1>3. CASE r.verdict # "mismatch"
  BY <1>1, <1>3 DEF AfterApply, MismatchStep
<1>4. CASE r.verdict = "mismatch"
  <2>1. MismatchFacts(books, i, to)
    BY <1>1, <1>2, <1>4, ApplyOutcome
  <2>2. books.syncs[i].base <= books.shadow.book.base
    BY <2>1, InstrumentsAssumption DEF MismatchFacts, IInv, ShadowIsNewer
  <2>3. books.syncs[i].base \in Int /\ books.shadow.book.base \in Int /\ Misreported[i] \in Int
        /\ to \in Int
    BY <1>2, Bounds, BooksFields, MisreportedAssumption DEF BookSyncs
  <2>4. books.syncs[i].base < Misreported[i] /\ Misreported[i] <= to
    BY <2>1, <2>2, <2>3 DEF MismatchFacts
  <2>5. mismatched' = mismatched \cup {i}
    BY <1>1, <1>4 DEF AfterApply
  <2> QED BY <1>2, <2>4, <2>5 DEF MismatchStep
<1> QED BY <1>3, <1>4

(* A mismatch that a verification snapshot brings to light. *)
LEMMA SnapshotMismatch ==
  ASSUME IInv, Collect
  PROVE  MismatchStep
<1>1. PICK r : r = Head(results)
  OBVIOUS
<1>2. PICK i : i = r.instrument
  OBVIOUS
<1>3. PICK seq : seq = r.seq
  OBVIOUS
<1>4. /\ i \in Instruments
      /\ r.purpose \in {Sync, Verification}
      /\ seq # Failed => seq \in 0 .. MaxSeq
      /\ seq # Failed /\ IsLive(books, i) /\ r.generation = generation =>
           books.syncs[i].base <= seq
  BY <1>1, <1>2, <1>3, CollectedResult DEF Results
<1>5. CASE mismatched' = mismatched
  BY <1>5 DEF MismatchStep
<1>6. CASE mismatched' # mismatched
  <2>1. r.generation = generation /\ r.purpose = Verification
    BY <1>1, <1>4, <1>6 DEF Collect, ApplySnapshot, bookVars
  <2>2. ApplyVerificationSnapshot(i, seq)
    BY <1>1, <1>2, <1>3, <2>1 DEF Collect, Sync, Verification
  <2>3. verification = i /\ Verifying(books) = i /\ seq # Failed
    BY <1>6, <2>2 DEF ApplyVerificationSnapshot, bookVars
  <2>4. PICK o \in OnVerificationSnapshot(books, i, seq) :
          o.outcome = "Failed" /\ mismatched' = mismatched \cup {i}
    BY <1>6, <2>2, <2>3 DEF ApplyVerificationSnapshot
  <2>5. books \in Books /\ (~books.shadow.loaded => ~books.shadow.book.sync.live)
    BY DEF IInv, TypeOK, ShadowIsNewer
  <2>6. MismatchAtSnapshot(books, i, seq)
    BY <1>4, <2>3, <2>4, <2>5, OnVerificationOutcome
  <2> DEFINE s == books.syncs[i]
  <2>7. s.base \in Int /\ s.sync.last \in Int /\ Misreported[i] \in Int /\ seq \in Int
        /\ sent[i] \in Int
    <3>1. s \in BookSyncs
      BY <1>4, <2>5, BooksFields
    <3>2. s.base \in Int /\ s.sync.last \in Int
      BY <3>1, Bounds DEF BookSyncs, SyncStates
    <3>3. Misreported[i] \in Int /\ sent[i] \in Int
      BY <1>4, MisreportedAssumption, Bounds DEF IInv, TypeOK
    <3>4. seq \in Int
      BY <1>4, <2>3, Bounds
    <3> QED BY <3>2, <3>3, <3>4
  <2>8. s.base <= seq /\ s.sync.live
    BY <1>4, <2>1, <2>3, <2>6 DEF MismatchAtSnapshot, IsLive
  <2>9. s.sync.last = s.base \/ s.sync.last <= sent[i]
    BY <1>4, <2>8 DEF IInv, BooksAreOfTheStream
  <2>10. s.base < Misreported[i] /\ Misreported[i] <= s.sync.last
    BY <2>6, <2>7, <2>8 DEF MismatchAtSnapshot
  <2>11. s.base < Misreported[i] /\ Misreported[i] <= sent[i]
    <3> HIDE DEF s
    <3> QED BY <2>7, <2>9, <2>10
  <2>12. sent' = sent
    BY DEF Collect, streamVars
  <2> QED BY <2>4, <2>11, <2>12 DEF MismatchStep
<1> QED BY <1>5, <1>6

(* MdBooks::settle_verification: a mismatch is reported only for a book    *)
(* that took the misreported update from the stream, whatever lag, gap,    *)
(* late snapshot or timeout came between.                                  *)
THEOREM SessionMismatchIsReal == Spec => MismatchIsReal
<1>1. IInv /\ [Next]_vars => [MismatchStep]_vars
  <2> SUFFICES ASSUME IInv, Next PROVE MismatchStep
    OBVIOUS
  <2>1. ASSUME NEW i \in Instruments, NEW from \in 1 .. MaxSeq, NEW to \in 1 .. MaxSeq,
               ReceiveDelta(i, from, to)
        PROVE  MismatchStep
    BY <2>1, DeltaMismatch
  <2>2. CASE Collect
    BY <2>2, SnapshotMismatch
  <2>3. CASE mismatched' = mismatched
    BY <2>3 DEF MismatchStep
  <2>4. \/ \E i \in Instruments : \E from, to \in 1 .. MaxSeq : ReceiveDelta(i, from, to)
        \/ Collect
        \/ mismatched' = mismatched
    BY DEF Next, VenueUpdate, RetryTimer, Connect, ConnectFails, Drop, Stop, DrainDone,
           CollectDone, RequestSnapshots, NothingDue, TimeOut, StartNext, TakeJob, Fetched,
           FetchFailed, TakeAllDown, bookVars
  <2> QED BY <2>1, <2>2, <2>3, <2>4
<1> QED BY <1>1, SessionInvariant, PTL DEF Spec, MismatchIsReal, MismatchStep

-----------------------------------------------------------------------------
(***************************************************************************)
(* MdReplay: the inductive invariant.                                      *)
(***************************************************************************)

(* A verification is of a live book, and its snapshot is no older than the *)
(* one that book was built on.                                             *)
ShadowSound(b) ==
  /\ ~b.shadow.loaded => ~b.shadow.book.sync.live
  /\ Verifying(b) # NoInstrument =>
       /\ IsLive(b, Verifying(b))
       /\ b.shadow.book.sync.live => b.syncs[Verifying(b)].base <= b.shadow.book.base

(* A replay that is followed differs from the session at most in a         *)
(* verification that the session has given up and not replaced by another. *)
ReplayInv ==
  /\ IInv
  /\ followed \in BOOLEAN
  /\ followed => /\ replayed \in Books
                 /\ replayed.syncs = books.syncs
                 /\ ShadowSound(replayed)
                 /\ Verifying(books) # NoInstrument => replayed = books

(* What the session's books are. *)
LEMMA SessionBooks ==
  IInv => books \in Books /\ ShadowSound(books)
BY DEF IInv, TypeOK, ShadowIsNewer, VerifiedBookIsLive, ShadowSound

(* No verification is a sound one. *)
LEMMA NoShadowSound ==
  ASSUME NEW b, b.shadow = NoShadow
  PROVE  ShadowSound(b) /\ Verifying(b) = NoInstrument
BY NewBooksFacts DEF ShadowSound, Verifying

-----------------------------------------------------------------------------
(***************************************************************************)
(* The calls on the books of the replay.                                   *)
(***************************************************************************)

(* MdBooks::apply keeps a verification sound. *)
LEMMA ApplyKeepsShadow ==
  ASSUME NEW b \in Books, NEW i \in Instruments,
         NEW from \in 1 .. MaxSeq, NEW to \in 1 .. MaxSeq, from <= to,
         ShadowSound(b), NEW r \in Apply(b, i, from, to)
  PROVE  ShadowSound(r.books) /\ (Verifying(b) = NoInstrument => Verifying(r.books) = NoInstrument)
<1>1. ApplyFacts(b, i, to, r) /\ ShadowFollows(b, r)
  BY ApplyOutcome
<1>2. CASE r.books.shadow = NoShadow
  BY <1>2, NoShadowSound
<1>3. CASE /\ Verifying(r.books) = Verifying(b)
           /\ r.books.shadow.loaded = b.shadow.loaded
           /\ r.books.shadow.book.sync.live =>
                b.shadow.book.sync.live /\ r.books.shadow.book.base = b.shadow.book.base
  <2>1. ~r.books.shadow.loaded => ~r.books.shadow.book.sync.live
    BY <1>3 DEF ShadowSound
  <2>2. ASSUME Verifying(r.books) # NoInstrument
        PROVE  /\ IsLive(r.books, Verifying(r.books))
               /\ r.books.shadow.book.sync.live =>
                    r.books.syncs[Verifying(r.books)].base <= r.books.shadow.book.base
    <3>1. PICK v : v = Verifying(b)
      OBVIOUS
    <3>2. /\ v \in Instruments /\ Verifying(r.books) = v
          /\ b.syncs[v].sync.live
          /\ b.shadow.book.sync.live => b.syncs[v].base <= b.shadow.book.base
      BY <1>3, <2>2, <3>1, BooksFields DEF ShadowSound, IsLive, Verifying
    <3>3. r.books.syncs[v].sync.live /\ r.books.syncs[v].base = b.syncs[v].base
      <4>1. CASE v = i
        BY <1>1, <3>2, <4>1 DEF ApplyFacts
      <4>2. CASE v # i
        BY <1>1, <3>2, <4>2 DEF ApplyFacts
      <4> QED BY <4>1, <4>2
    <3> QED BY <1>3, <3>2, <3>3 DEF IsLive
  <2> QED BY <1>3, <2>1, <2>2 DEF ShadowSound
<1> QED BY <1>1, <1>2, <1>3 DEF ShadowFollows

(* MdBooks::on_snapshot, of an instrument that is down, keeps it sound. *)
LEMMA SnapshotKeepsShadow ==
  ASSUME NEW b \in Books, NEW i \in Instruments, ~IsLive(b, i), NEW seq \in 0 .. MaxSeq,
         ShadowSound(b), NEW r \in OnSnapshot(b, i, seq)
  PROVE  ShadowSound(r.books) /\ Verifying(r.books) = Verifying(b) /\ r.books \in Books
<1>1. /\ r.books \in Books /\ r.books.shadow = b.shadow
      /\ \A j \in Instruments : j # i => r.books.syncs[j] = b.syncs[j]
  BY OnSnapshotFacts
<1>2. PICK v : v = Verifying(b)
  OBVIOUS
<1>3. Verifying(r.books) = v
  BY <1>1, <1>2 DEF Verifying
<1>4. v # NoInstrument => /\ v \in Instruments /\ b.syncs[v].sync.live
                          /\ b.shadow.book.sync.live => b.syncs[v].base <= b.shadow.book.base
  BY <1>2, BooksFields DEF ShadowSound, IsLive, Verifying
<1>5. v # NoInstrument => r.books.syncs[v] = b.syncs[v]
  BY <1>1, <1>4 DEF IsLive
<1>6. ~b.shadow.loaded => ~b.shadow.book.sync.live
  BY DEF ShadowSound
<1>7. ShadowSound(r.books)
  BY <1>1, <1>3, <1>4, <1>5, <1>6 DEF ShadowSound, IsLive
<1> QED BY <1>1, <1>2, <1>3, <1>7

(* A live book that takes a delta is at its end, and that is where a       *)
(* mismatch is found.                                                      *)
LEMMA ApplyReachesTo ==
  ASSUME NEW b \in Books, NEW i \in Instruments,
         NEW from \in 1 .. MaxSeq, NEW to \in 1 .. MaxSeq, from <= to,
         NEW r \in Apply(b, i, from, to)
  PROVE  /\ r.verdict = "mismatch" => to > b.syncs[i].sync.last
         /\ r.books.syncs[i].sync.live /\ to > b.syncs[i].sync.last =>
              r.books.syncs[i].sync.last = to
<1>1. PICK s \in SyncDelta(b.syncs[i], from, to) :
        r \in IF IsLive(b, i) /\ ~s.sync.live THEN ApplyFailed(b, i, s)
              ELSE IF IsLive(b, i) /\ to > b.syncs[i].sync.last THEN ApplyLive(b, i, s, from, to)
              ELSE ApplyQuiet(b, i, s, from, to)
  BY DEF Apply
<1> DEFINE o == b.syncs[i]
<1>2. o \in BookSyncs /\ o.sync.last \in Int /\ to \in Int
  BY BooksFields, Bounds DEF BookSyncs, SyncStates
<1> HIDE DEF o
<1>3. /\ s \in BookSyncs
      /\ s.sync.live => o.sync.live
      /\ s.sync.live => (s = o /\ to <= o.sync.last) \/ (s.sync.last = to /\ to > o.sync.last)
  BY <1>1, <1>2, AfterDeltaFacts DEF o
<1>4. CASE o.sync.live /\ ~s.sync.live
  <2>1. r \in ApplyFailed(b, i, s)
    BY <1>1, <1>4 DEF IsLive, o
  <2>2. r.verdict = "none"
    BY <2>1 DEF ApplyFailed
  <2>3. ~r.books.syncs[i].sync.live
    <3>0. PICK down : down = [b EXCEPT !.syncs[i] = s]
      OBVIOUS
    <3>1. down \in Books /\ down.syncs[i] = s
      BY <1>3, <3>0, BooksFields DEF Books
    <3>2. r.books = IF Verifying(b) = i THEN CancelVerification(down) ELSE down
      BY <2>1, <3>0 DEF ApplyFailed
    <3> QED BY <1>4, <3>1, <3>2, CancelFacts
  <2> QED BY <2>2, <2>3
<1>5. CASE o.sync.live /\ s.sync.live /\ to > o.sync.last
  <2>1. r \in ApplyLive(b, i, s, from, to)
    BY <1>1, <1>5 DEF IsLive, o
  <2>2. s.sync.last = to
    BY <1>2, <1>3, <1>5
  <2>3. r.books.syncs[i] = s \/ r.books.syncs[i] = NewSync
    <3>1. CASE Verifying(b) # i
      <4>1. r.books = [b EXCEPT !.syncs[i] = s]
        BY <2>1, <3>1 DEF ApplyLive
      <4> QED BY <4>1, BooksFields DEF Books
    <3>2. CASE Verifying(b) = i
      <4>1. PICK t \in SyncDelta(b.shadow.book, from, to) :
              LET v == SettleVerification([b EXCEPT !.syncs[i] = s, !.shadow.book = t])
              IN  r = [books   |-> v.books,
                       applied |-> IF v.verdict = "mismatch" THEN "down" ELSE "book",
                       verdict |-> v.verdict]
        BY <2>1, <3>2 DEF ApplyLive
      <4>2. PICK c : c = [b EXCEPT !.syncs[i] = s, !.shadow.book = t]
        OBVIOUS
      <4>3. t \in BookSyncs
        BY BooksFields, AfterDeltaFacts
      <4>4. c \in Books /\ c.syncs = [b.syncs EXCEPT ![i] = s] /\ c.shadow.instrument = i
        BY <1>3, <3>2, <4>2, <4>3 DEF Books, Verifying
      <4>5. PICK v : v = SettleVerification(c)
        OBVIOUS
      <4>6. Verifying(c) = i
        BY <4>4 DEF Verifying
      <4>7. \/ v.books.syncs = c.syncs
            \/ v.books.syncs = [c.syncs EXCEPT ![i] = NewSync]
        BY <4>4, <4>5, <4>6, SettleFacts
      <4>8. r.books = v.books
        BY <4>1, <4>2, <4>5
      <4> QED BY <4>4, <4>7, <4>8, BooksFields
    <3> QED BY <3>1, <3>2
  <2>4. r.books.syncs[i].sync.live => r.books.syncs[i] = s
    BY <2>3, NewBooksFacts
  <2> QED BY <1>5, <2>2, <2>4 DEF o
<1>6. CASE ~o.sync.live \/ (s.sync.live /\ ~(to > o.sync.last))
  <2>1. r \in ApplyQuiet(b, i, s, from, to)
    BY <1>1, <1>6 DEF IsLive, o
  <2>2. PICK t : r = [books   |-> [b EXCEPT !.syncs[i] = s, !.shadow.book = t],
                      applied |-> "quiet", verdict |-> "none"]
    BY <2>1 DEF ApplyQuiet
  <2>3. r.verdict = "none" /\ r.books.syncs[i] = s
    <3>1. r.verdict = "none" /\ r.books.syncs = [b.syncs EXCEPT ![i] = s]
      BY <2>2 DEF Books
    <3> QED BY <3>1, BooksFields
  <2>4. s.sync.live => ~(to > o.sync.last)
    BY <1>3, <1>6
  <2> QED BY <2>3, <2>4 DEF o
<1> QED BY <1>4, <1>5, <1>6

-----------------------------------------------------------------------------
(***************************************************************************)
(* Every step keeps the invariant, and a replay that leaves the session    *)
(* has found a wrong book.                                                 *)
(***************************************************************************)

(* The replay has left the session. *)
Leaves == followed /\ ~followed'

(* A book of the session is live and has the misreported update from the   *)
(* stream.                                                                 *)
SomeBookIsWrong ==
  \E i \in Instruments : IsLive(books', i) /\ IsWrong(i, books'.syncs[i])

(* What a step has to show of the replay, if it is followed. *)
StepOK ==
  /\ followed' => /\ replayed' \in Books
                  /\ ShadowSound(replayed')
                  /\ Verifying(books') # NoInstrument => replayed' = books'
  /\ ~followed' => SomeBookIsWrong

(* The step of the replay is a step of the session. *)
LEMMA ReplayStepIsNext == ReplayNext => Next
BY DEF ReplayNext, ReplayStep, Next

(* A message, which both books take. *)
LEMMA ReplayDelta ==
  ASSUME ReplayInv, followed, NEW i \in Instruments,
         NEW from \in 1 .. MaxSeq, NEW to \in 1 .. MaxSeq, ReceiveDelta(i, from, to),
         NEW r \in Apply(replayed, i, from, to),
         Verifying(books) = NoInstrument, replayed' = r.books,
         r.books.syncs = books'.syncs \/ (r.verdict = "mismatch" /\ IsLive(books', i)),
         followed' = (followed /\ replayed'.syncs = books'.syncs)
  PROVE  StepOK
<1>1. /\ books \in Books /\ ShadowSound(books) /\ replayed \in Books /\ ShadowSound(replayed)
      /\ replayed.syncs = books.syncs /\ from <= to
  BY SessionBooks DEF ReplayInv, ReceiveDelta
<1>2. PICK o \in Apply(books, i, from, to) : books' = o.books
  BY DEF ReceiveDelta, AfterApply
<1>3. r.books \in Books /\ ShadowSound(r.books)
  BY <1>1, ApplyKeepsShadow, ApplyOutcome DEF ApplyFacts
<1>4. Verifying(books') = NoInstrument
  BY <1>1, <1>2, ApplyKeepsShadow
<1>5. ASSUME ~followed' PROVE SomeBookIsWrong
  <2>1. r.verdict = "mismatch" /\ books'.syncs[i].sync.live
    BY <1>5 DEF IsLive
  <2>2. MismatchFacts(replayed, i, to) /\ to > replayed.syncs[i].sync.last
    BY <1>1, <2>1, ApplyOutcome, ApplyReachesTo
  <2>3. books'.syncs[i].base = books.syncs[i].base /\ books'.syncs[i].sync.last = to
    <3>1. ApplyFacts(books, i, to, o)
      BY <1>1, ApplyOutcome
    <3>2. o.books.syncs[i].sync.live /\ to > books.syncs[i].sync.last
      BY <1>1, <1>2, <2>1, <2>2
    <3>3. o.books.syncs[i].base = books.syncs[i].base
      BY <3>1, <3>2 DEF ApplyFacts
    <3>4. o.books.syncs[i].sync.last = to
      BY <1>1, <3>2, ApplyReachesTo
    <3> QED BY <1>2, <3>3, <3>4
  <2>4. replayed.syncs[i].base <= replayed.shadow.book.base
    BY <1>1, <2>2, InstrumentsAssumption DEF MismatchFacts, ShadowSound
  <2>5. /\ replayed.syncs[i].base \in Int /\ replayed.shadow.book.base \in Int
        /\ Misreported[i] \in Int /\ to \in Int
    BY <1>1, Bounds, BooksFields, MisreportedAssumption DEF BookSyncs
  <2>6. replayed.syncs[i].base < Misreported[i] /\ Misreported[i] <= to
    BY <2>2, <2>4, <2>5 DEF MismatchFacts
  <2>7. IsWrong(i, books'.syncs[i])
    BY <1>1, <2>3, <2>6 DEF IsWrong
  <2> QED BY <2>1, <2>7 DEF SomeBookIsWrong, IsLive
<1> QED BY <1>3, <1>4, <1>5 DEF StepOK

(* A snapshot of an instrument that is down, which both books take. *)
LEMMA ReplaySync ==
  ASSUME ReplayInv, followed, Collect, NEW r, r = Head(results), Journaled(r), r.purpose = Sync,
         NEW o \in OnSnapshot(replayed, r.instrument, r.seq),
         Verifying(books) = NoInstrument, replayed' = o.books,
         o.books.syncs = books'.syncs,
         followed' = (followed /\ replayed'.syncs = books'.syncs)
  PROVE  StepOK
<1>1. /\ books \in Books /\ ShadowSound(books) /\ replayed \in Books /\ ShadowSound(replayed)
      /\ replayed.syncs = books.syncs /\ IInv
  BY SessionBooks DEF ReplayInv
<1>2. PICK i, seq : i = r.instrument /\ seq = r.seq
  OBVIOUS
<1>3. /\ i \in Instruments /\ seq \in 0 .. MaxSeq /\ seq # Failed
      /\ r.generation = generation /\ SyncRequests(i) # {}
  BY <1>1, <1>2, CollectedResult DEF Results, Journaled
<1>4. ~IsLive(books, i) /\ ~IsLive(replayed, i)
  <2>1. states[i] = Requested
    BY <1>1, <1>3 DEF IInv, RequestsAreMatched
  <2>2. ~IsLive(books, i)
    BY <1>1, <1>3, <2>1 DEF IInv, LiveMeansIdle, Idle, Requested
  <2> QED BY <1>1, <2>2 DEF IsLive
<1>5. o.books \in Books /\ ShadowSound(o.books)
  BY <1>1, <1>2, <1>3, <1>4, SnapshotKeepsShadow
<1>6. ApplySnapshot(i, seq)
  BY <1>2, <1>3 DEF Collect, Sync, Verification
<1>7. PICK q \in OnSnapshot(books, i, seq) : books' = q.books
  BY <1>3, <1>6 DEF ApplySnapshot
<1>8. Verifying(books') = NoInstrument
  BY <1>1, <1>3, <1>4, <1>7, SnapshotKeepsShadow
<1> QED BY <1>5, <1>8 DEF StepOK

(* A step that leaves every instrument's book as it is and starts no       *)
(* verification.                                                           *)
LEMMA ReplayUnread ==
  ASSUME ReplayInv, followed, replayed' = replayed, books'.syncs = books.syncs,
         books' = books \/ Verifying(books') = NoInstrument,
         followed' = (followed /\ replayed'.syncs = books'.syncs)
  PROVE  StepOK
<1>1. followed'
  BY DEF ReplayInv
<1> QED BY <1>1 DEF ReplayInv, StepOK

(* Both books take the same call. *)
LEMMA ReplaySame ==
  ASSUME IInv', followed, replayed' = books',
         followed' = (followed /\ replayed'.syncs = books'.syncs)
  PROVE  StepOK
<1>1. IInv' => (books \in Books /\ ShadowSound(books))'
  BY SessionBooks, PTL
<1>2. books' \in Books /\ ShadowSound(books')
  BY <1>1 DEF ShadowSound, Verifying, IsLive
<1> QED BY <1>2 DEF StepOK

(* A result of the snapshot thread. *)
LEMMA ReplayCollect ==
  ASSUME ReplayInv, IInv', followed, Collect,
         IF Journaled(Head(results)) THEN ReplaySnapshot(Head(results)) ELSE UNCHANGED replayed,
         followed' = (followed /\ replayed'.syncs = books'.syncs)
  PROVE  StepOK
<1>1. PICK r : r = Head(results)
  OBVIOUS
<1>2. IInv /\ books \in Books
  BY SessionBooks DEF ReplayInv
<1>3. r.purpose \in {Sync, Verification}
  BY <1>1, <1>2, CollectedResult DEF Results
<1>4. CASE Journaled(r) /\ replayed = books
  <2>1. replayed' = books'
    BY <1>1, <1>4 DEF ReplaySnapshot, Replays
  <2> QED BY <2>1, ReplaySame
<1>5. CASE Journaled(r) /\ replayed # books
  <2>1. Verifying(books) = NoInstrument
    BY <1>5 DEF ReplayInv
  <2>2. r.purpose = Sync
    <3>1. r.instrument \in Instruments
      BY <1>1, <1>2, CollectedResult DEF Results
    <3> QED BY <1>3, <1>5, <2>1, <3>1, InstrumentsAssumption DEF Journaled
  <2>3. PICK o \in OnSnapshot(replayed, r.instrument, r.seq) :
          o.books.syncs = books'.syncs /\ replayed' = o.books
    BY <1>1, <1>5, <2>2 DEF ReplaySnapshot, Replays
  <2> QED BY <1>1, <1>5, <2>1, <2>2, <2>3, ReplaySync
<1>6. CASE ~Journaled(r)
  <2>1. replayed' = replayed
    BY <1>1, <1>6
  <2>2. books' = books \/ books' = CancelVerification(books)
    <3>1. CASE r.generation # generation
      BY <1>1, <3>1 DEF Collect, bookVars
    <3>2. CASE r.generation = generation /\ r.purpose = Sync
      <4>1. ApplySnapshot(r.instrument, r.seq) /\ r.seq = Failed
        BY <1>1, <1>6, <3>2 DEF Collect, Journaled, Sync, Verification
      <4> QED BY <4>1 DEF ApplySnapshot
    <3>3. CASE r.generation = generation /\ r.purpose = Verification
      <4>1. ApplyVerificationSnapshot(r.instrument, r.seq)
        BY <1>1, <3>3 DEF Collect, Sync, Verification
      <4>2. \/ verification # r.instrument \/ Verifying(books) # r.instrument
            \/ r.seq = Failed
        BY <1>6, <3>3 DEF Journaled
      <4> QED BY <4>1, <4>2 DEF ApplyVerificationSnapshot, bookVars
    <3> QED BY <1>3, <3>1, <3>2, <3>3
  <2>3. books'.syncs = books.syncs /\ (books' = books \/ Verifying(books') = NoInstrument)
    BY <1>2, <2>2, CancelFacts, NoShadowSound
  <2> QED BY <2>1, <2>3, ReplayUnread
<1> QED BY <1>4, <1>5, <1>6

(* A verification that the session starts, the replay starts too. *)
LEMMA ReplayStarts ==
  ASSUME ReplayInv, IInv', followed, StartNext, ReplayStart,
         followed' = (followed /\ replayed'.syncs = books'.syncs)
  PROVE  StepOK
<1>1. PICK i : /\ IsLive(books, i) /\ verification' = i
               /\ books' = StartVerification(books, i)
  BY DEF StartNext
<1>2. /\ books \in Books /\ replayed \in Books /\ replayed.syncs = books.syncs
  BY SessionBooks DEF ReplayInv
<1>3. replayed' = StartVerification(replayed, i)
  BY <1>1, <1>2 DEF ReplayStart, IsLive
<1>4. replayed' = books'
  BY <1>1, <1>2, <1>3 DEF StartVerification, Books
<1> QED BY <1>4, ReplaySame

(* All of them. *)
LEMMA ReplayStepOK ==
  ASSUME ReplayInv, followed, ReplayNext
  PROVE  StepOK
<1>1. IInv' /\ IInv /\ books \in Books
  BY ReplayStepIsNext, NextIInv, SessionBooks DEF ReplayInv
<1>2. followed' = (followed /\ replayed'.syncs = books'.syncs)
  BY DEF ReplayNext
<1>3. ASSUME NEW i \in Instruments, NEW from \in 1 .. MaxSeq, NEW to \in 1 .. MaxSeq,
             ReceiveDelta(i, from, to), Replays(i, Apply(replayed, i, from, to))
      PROVE  StepOK
  <2>1. CASE replayed = books
    <3>1. replayed' = books'
      BY <1>3, <2>1 DEF Replays
    <3> QED BY <1>1, <1>2, <3>1, ReplaySame
  <2>2. CASE replayed # books
    <3>1. PICK r \in Apply(replayed, i, from, to) :
            /\ r.books.syncs = books'.syncs \/ (r.verdict = "mismatch" /\ IsLive(books', i))
            /\ replayed' = r.books
      BY <1>3, <2>2 DEF Replays
    <3>2. Verifying(books) = NoInstrument
      BY <2>2 DEF ReplayInv
    <3> QED BY <1>2, <1>3, <3>1, <3>2, ReplayDelta
  <2> QED BY <2>1, <2>2
<1>4. CASE /\ Collect
           /\ IF Journaled(Head(results)) THEN ReplaySnapshot(Head(results))
              ELSE UNCHANGED replayed
  BY <1>1, <1>2, <1>4, ReplayCollect
<1>5. CASE (ConnectFails \/ Drop) /\ ReplayReset
  <2>1. replayed' = books'
    BY <1>5 DEF ConnectFails, Drop, TakeAllDown, ReplayReset, ResetAll
  <2> QED BY <1>1, <1>2, <2>1, ReplaySame
<1>6. CASE StartNext /\ ReplayStart
  BY <1>1, <1>2, <1>6, ReplayStarts
<1>7. CASE TimeOut /\ UNCHANGED replayed
  <2>1. books' = CancelVerification(books)
    BY <1>7 DEF TimeOut
  <2>2. books'.syncs = books.syncs /\ Verifying(books') = NoInstrument
    BY <1>1, <2>1, CancelFacts, NoShadowSound
  <2> QED BY <1>2, <1>7, <2>2, ReplayUnread
<1>8. CASE /\ \/ \E i \in Instruments : VenueUpdate(i) \/ RetryTimer(i)
              \/ Connect \/ Stop \/ DrainDone \/ CollectDone \/ RequestSnapshots
              \/ NothingDue \/ TakeJob \/ Fetched \/ FetchFailed
           /\ UNCHANGED replayed
  <2>1. books' = books
    BY <1>8 DEF VenueUpdate, RetryTimer, Connect, Stop, DrainDone, CollectDone,
                RequestSnapshots, NothingDue, TakeJob, Fetched, FetchFailed, bookVars
  <2> QED BY <1>2, <1>8, <2>1, ReplayUnread
<1> QED BY <1>3, <1>4, <1>5, <1>6, <1>7, <1>8 DEF ReplayNext, ReplayStep

(* While the replay is followed it differs from the session at most in a   *)
(* verification that the session has given up (md.rs: schedule_verification*)
(* and apply_verification_snapshot cancel it and journal nothing).         *)
THEOREM ReplayInvariant == ReplaySpec => []ReplayInv
<1>1. ReplayInit => ReplayInv
  <2> SUFFICES ASSUME ReplayInit PROVE ReplayInv
    OBVIOUS
  <2>1. IInv /\ books = NewBooks /\ replayed = NewBooks /\ followed = TRUE
    BY InitIInv DEF ReplayInit, Init
  <2>2. ShadowSound(replayed) /\ Verifying(books) = NoInstrument /\ replayed \in Books
    BY <2>1, NewBooksFacts, NoShadowSound
  <2> QED BY <2>1, <2>2 DEF ReplayInv
<1>2. ReplayInv /\ [ReplayNext]_replayVars => ReplayInv'
  <2> SUFFICES ASSUME ReplayInv, [ReplayNext]_replayVars PROVE ReplayInv'
    OBVIOUS
  <2>1. IInv'
    BY ReplayStepIsNext, NextIInv DEF ReplayInv, replayVars
  <2>2. CASE ReplayNext
    <3>1. /\ followed' \in BOOLEAN
          /\ followed' => followed /\ replayed'.syncs = books'.syncs
      BY <2>2 DEF ReplayNext
    <3>2. followed' => StepOK
      BY <2>2, <3>1, ReplayStepOK
    <3> QED BY <2>1, <3>1, <3>2 DEF ReplayInv, StepOK
  <2>3. CASE UNCHANGED replayVars
    <3>1. replayed' = replayed /\ followed' = followed /\ books' = books
      BY <2>3 DEF replayVars, vars, bookVars
    <3> QED BY <2>1, <3>1 DEF ReplayInv
  <2> QED BY <2>2, <2>3
<1> QED BY <1>1, <1>2, PTL DEF ReplaySpec

(* replay.rs: a replay leaves the session only where it finds a live book  *)
(* of the session wrong, in a verification that the session gave up.       *)
THEOREM ReplayLeavesRightly == ReplaySpec => ReplayLeavesOnlyWrongBooks
<1>1. ReplayInv /\ [ReplayNext]_replayVars => [Leaves => SomeBookIsWrong]_replayVars
  BY ReplayStepOK DEF StepOK, Leaves
<1> QED BY <1>1, ReplayInvariant, PTL
        DEF ReplaySpec, ReplayLeavesOnlyWrongBooks, Leaves, SomeBookIsWrong

-----------------------------------------------------------------------------
(***************************************************************************)
(* The replay never holds the session up: ReplaySpec has every behaviour   *)
(* of the session, because books that are followed can take each record    *)
(* the way the session took it.                                            *)
(***************************************************************************)
ReplayCanFollow ==
  followed /\ replayed # books =>
    /\ \A i \in Instruments : \A from, to \in 1 .. MaxSeq : from <= to =>
         \A o \in Apply(books, i, from, to) :
           \E r \in Apply(replayed, i, from, to) :
             r.books.syncs = o.books.syncs \/ (r.verdict = "mismatch" /\ IsLive(o.books, i))
    /\ \A i \in Instruments : \A seq \in 0 .. MaxSeq :
         \A o \in OnSnapshot(books, i, seq) :
           \E r \in OnSnapshot(replayed, i, seq) : r.books.syncs = o.books.syncs

(* Every delta has an outcome. *)
LEMMA SomeSyncDelta ==
  ASSUME NEW s, NEW from, NEW to
  PROVE  \E t : t \in SyncDelta(s, from, to)
<1>1. ASSUME NEW v PROVE \E u : u \in AfterBuffer(v, from, to)
  BY DEF AfterBuffer
<1>2. PICK u : u \in AfterDelta(s.sync, from, to)
  BY <1>1 DEF AfterDelta
<1>3. [sync |-> u, base |-> IF u.live THEN s.base ELSE 0] \in SyncDelta(s, from, to)
  BY <1>2 DEF SyncDelta
<1> QED BY <1>3

(* Books that verify nothing take the book s of instrument i. *)
LEMMA ApplyUnverified ==
  ASSUME NEW b \in Books, NEW i \in Instruments, NEW from, NEW to,
         Verifying(b) = NoInstrument, NEW o \in Apply(b, i, from, to)
  PROVE  \E s \in SyncDelta(b.syncs[i], from, to) : o.books.syncs = [b.syncs EXCEPT ![i] = s]
<1>1. PICK s \in SyncDelta(b.syncs[i], from, to) :
        o \in IF IsLive(b, i) /\ ~s.sync.live THEN ApplyFailed(b, i, s)
              ELSE IF IsLive(b, i) /\ to > b.syncs[i].sync.last THEN ApplyLive(b, i, s, from, to)
              ELSE ApplyQuiet(b, i, s, from, to)
  BY DEF Apply
<1>2. Verifying(b) # i
  BY InstrumentsAssumption
<1>3. CASE o \in ApplyFailed(b, i, s)
  <2>1. o.books = [b EXCEPT !.syncs[i] = s]
    BY <1>2, <1>3 DEF ApplyFailed
  <2> QED BY <2>1 DEF Books
<1>4. CASE o \in ApplyLive(b, i, s, from, to)
  <2>1. o.books = [b EXCEPT !.syncs[i] = s]
    BY <1>2, <1>4 DEF ApplyLive
  <2> QED BY <2>1 DEF Books
<1>5. CASE o \in ApplyQuiet(b, i, s, from, to)
  <2>1. PICK t : o = [books   |-> [b EXCEPT !.syncs[i] = s, !.shadow.book = t],
                      applied |-> "quiet", verdict |-> "none"]
    BY <1>5 DEF ApplyQuiet
  <2> QED BY <2>1 DEF Books
<1> QED BY <1>1, <1>3, <1>4, <1>5

(* Any books can take the book s of instrument i, unless their own         *)
(* verification finds it wrong.                                            *)
LEMMA ApplyCanTake ==
  ASSUME NEW b \in Books, NEW i \in Instruments,
         NEW from \in 1 .. MaxSeq, NEW to \in 1 .. MaxSeq, from <= to,
         NEW s \in SyncDelta(b.syncs[i], from, to)
  PROVE  \E r \in Apply(b, i, from, to) :
           \/ r.books.syncs = [b.syncs EXCEPT ![i] = s]
           \/ r.verdict = "mismatch" /\ s.sync.live
<1>0. s \in BookSyncs
  BY BooksFields, AfterDeltaFacts
<1>1. \A r \in IF IsLive(b, i) /\ ~s.sync.live THEN ApplyFailed(b, i, s)
               ELSE IF IsLive(b, i) /\ to > b.syncs[i].sync.last THEN ApplyLive(b, i, s, from, to)
               ELSE ApplyQuiet(b, i, s, from, to) :
        r \in Apply(b, i, from, to)
  BY DEF Apply
<1>2. CASE IsLive(b, i) /\ ~s.sync.live
  <2>1. PICK down : down = [b EXCEPT !.syncs[i] = s]
    OBVIOUS
  <2>2. down \in Books /\ down.syncs = [b.syncs EXCEPT ![i] = s]
    BY <1>0, <2>1 DEF Books
  <2>3. PICK r : r = [books   |-> IF Verifying(b) = i THEN CancelVerification(down) ELSE down,
                      applied |-> "down", verdict |-> "none"]
    OBVIOUS
  <2>4. r \in ApplyFailed(b, i, s)
    BY <2>1, <2>3 DEF ApplyFailed
  <2>5. r.books.syncs = [b.syncs EXCEPT ![i] = s]
    BY <2>2, <2>3, CancelFacts
  <2> QED BY <1>1, <1>2, <2>4, <2>5
<1>3. CASE IsLive(b, i) /\ s.sync.live /\ to > b.syncs[i].sync.last /\ Verifying(b) # i
  <2>1. PICK r : r = [books |-> [b EXCEPT !.syncs[i] = s], applied |-> "book", verdict |-> "none"]
    OBVIOUS
  <2>2. r \in ApplyLive(b, i, s, from, to)
    BY <1>3, <2>1 DEF ApplyLive
  <2>3. r.books.syncs = [b.syncs EXCEPT ![i] = s]
    BY <2>1 DEF Books
  <2> QED BY <1>1, <1>3, <2>2, <2>3
<1>4. CASE IsLive(b, i) /\ s.sync.live /\ to > b.syncs[i].sync.last /\ Verifying(b) = i
  <2>1. PICK t : t \in SyncDelta(b.shadow.book, from, to)
    BY SomeSyncDelta
  <2>2. PICK c : c = [b EXCEPT !.syncs[i] = s, !.shadow.book = t]
    OBVIOUS
  <2>3. t \in BookSyncs
    BY <2>1, BooksFields, AfterDeltaFacts
  <2>4. c \in Books /\ c.syncs = [b.syncs EXCEPT ![i] = s]
    BY <1>0, <2>2, <2>3 DEF Books
  <2>5. PICK v : v = SettleVerification(c)
    OBVIOUS
  <2>6. v.books.syncs = c.syncs \/ v.verdict = "mismatch"
    BY <2>4, <2>5, SettleFacts
  <2>7. PICK r : r = [books   |-> v.books,
                      applied |-> IF v.verdict = "mismatch" THEN "down" ELSE "book",
                      verdict |-> v.verdict]
    OBVIOUS
  <2>8. r \in ApplyLive(b, i, s, from, to)
    <3> DEFINE settled(u) == SettleVerification([b EXCEPT !.syncs[i] = s, !.shadow.book = u])
               taken(u) == [books   |-> settled(u).books,
                            applied |-> IF settled(u).verdict = "mismatch" THEN "down" ELSE "book",
                            verdict |-> settled(u).verdict]
    <3>1. r = taken(t)
      BY <2>2, <2>5, <2>7
    <3>2. ApplyLive(b, i, s, from, to) = {taken(u) : u \in SyncDelta(b.shadow.book, from, to)}
      BY <1>4 DEF ApplyLive
    <3> HIDE DEF taken
    <3> QED BY <2>1, <3>1, <3>2
  <2>9. r.books = v.books /\ r.verdict = v.verdict
    BY <2>7
  <2> QED BY <1>1, <1>4, <2>4, <2>6, <2>8, <2>9
<1>5. CASE ~(IsLive(b, i) /\ ~s.sync.live) /\ ~(IsLive(b, i) /\ to > b.syncs[i].sync.last)
  <2>1. PICK t : t \in IF Verifying(b) = i THEN SyncDelta(b.shadow.book, from, to)
                       ELSE {b.shadow.book}
    BY SomeSyncDelta
  <2>2. PICK r : r = [books   |-> [b EXCEPT !.syncs[i] = s, !.shadow.book = t],
                      applied |-> "quiet", verdict |-> "none"]
    OBVIOUS
  <2>3. r \in ApplyQuiet(b, i, s, from, to)
    BY <2>1, <2>2 DEF ApplyQuiet
  <2>4. r.books.syncs = [b.syncs EXCEPT ![i] = s]
    BY <2>2 DEF Books
  <2> QED BY <1>1, <1>5, <2>3, <2>4
<1> QED BY <1>2, <1>3, <1>4, <1>5

(* replay.rs: whatever the session made of a record, a replay that is      *)
(* followed can do the same, or finds the book wrong.  So the theorem      *)
(* above is about every behaviour of the session.                          *)
THEOREM ReplayFollows == ReplaySpec => []ReplayCanFollow
<1>1. ReplayInv => ReplayCanFollow
  <2> SUFFICES ASSUME ReplayInv, followed, replayed # books PROVE ReplayCanFollow
    BY DEF ReplayCanFollow
  <2>1. /\ books \in Books /\ replayed \in Books /\ replayed.syncs = books.syncs
        /\ Verifying(books) = NoInstrument
    BY SessionBooks DEF ReplayInv
  <2>2. ASSUME NEW i \in Instruments, NEW from \in 1 .. MaxSeq, NEW to \in 1 .. MaxSeq,
               from <= to, NEW o \in Apply(books, i, from, to)
        PROVE  \E r \in Apply(replayed, i, from, to) :
                 r.books.syncs = o.books.syncs \/ (r.verdict = "mismatch" /\ IsLive(o.books, i))
    <3>1. PICK s \in SyncDelta(books.syncs[i], from, to) :
            o.books.syncs = [books.syncs EXCEPT ![i] = s]
      BY <2>1, ApplyUnverified
    <3>2. o.books.syncs[i] = s
      BY <2>1, <3>1, BooksFields
    <3>3. \E r \in Apply(replayed, i, from, to) :
            \/ r.books.syncs = [replayed.syncs EXCEPT ![i] = s]
            \/ r.verdict = "mismatch" /\ s.sync.live
      BY <2>1, <2>2, ApplyCanTake
    <3> QED BY <2>1, <3>1, <3>2, <3>3 DEF IsLive
  <2>3. ASSUME NEW i \in Instruments, NEW seq \in 0 .. MaxSeq, NEW o \in OnSnapshot(books, i, seq)
        PROVE  \E r \in OnSnapshot(replayed, i, seq) : r.books.syncs = o.books.syncs
    <3>1. PICK s \in SyncSnapshot(books.syncs[i], seq) : o.books = [books EXCEPT !.syncs[i] = s]
      BY DEF OnSnapshot
    <3> DEFINE taken(t) ==
                 [books   |-> [replayed EXCEPT !.syncs[i] = t],
                  outcome |-> IF IsLive(replayed, i) /\ seq < replayed.syncs[i].sync.last
                                THEN "Unchanged"
                              ELSE IF t.sync.live THEN "Live"
                              ELSE IF t.sync = Empty THEN "Invalid"
                              ELSE "TooOld"]
    <3>2. PICK r : r \in OnSnapshot(replayed, i, seq) /\ r.books = [replayed EXCEPT !.syncs[i] = s]
      <4>1. OnSnapshot(replayed, i, seq) = {taken(t) : t \in SyncSnapshot(books.syncs[i], seq)}
        BY <2>1 DEF OnSnapshot
      <4>2. taken(s).books = [replayed EXCEPT !.syncs[i] = s]
        OBVIOUS
      <4>3. taken(s) \in OnSnapshot(replayed, i, seq)
        <5> HIDE DEF taken
        <5> QED BY <3>1, <4>1
      <4> QED BY <4>2, <4>3
    <3>3. r.books.syncs = o.books.syncs
      BY <2>1, <3>1, <3>2 DEF Books
    <3> QED BY <3>2, <3>3
  <2> QED BY <2>2, <2>3 DEF ReplayCanFollow
<1> QED BY <1>1, ReplayInvariant, PTL

=============================================================================
