------------------------------- MODULE MdBooks -------------------------------
(***************************************************************************)
(* bowst-venue: MdBooks (binance/books.rs), every instrument's BookSync    *)
(* and the shadow sync that verifies one live book at a time against a     *)
(* book rebuilt from a fresh snapshot.                                     *)
(*                                                                         *)
(* A sync is seen as SeqRules sees it, together with `base`, the snapshot  *)
(* a live book was built on.  BookSyncProofs shows that such a book is the *)
(* venue's book at `last`, provided the deltas told the truth.  Here the   *)
(* stream may misreport one update of an instrument, Misreported[i] (0 for *)
(* none), so that a live book is wrong when that update reached it through *)
(* a delta, and right when it was covered by the snapshot.  A verification *)
(* compares the top VERIFY_LEVELS of each side only: whether the level of  *)
(* that update is one of them depends on where the market is, at update n  *)
(* exactly for n in InReach[i].  That a snapshot has no more levels than   *)
(* the venue's limit, so that a level below them may be missing from the   *)
(* book, is left out: books.rs:22-25 keeps VERIFY_LEVELS far from it.      *)
(*                                                                         *)
(* The operators give the set of results a call may have: a record with    *)
(* the books after the call and what the call returned.                    *)
(***************************************************************************)
EXTENDS SeqRules

CONSTANTS
  Instruments,
  Misreported,     \* [Instruments -> Nat]
  InReach,         \* [Instruments -> SUBSET Nat]
  NoInstrument     \* Option::None

NewSync == [sync |-> Empty, base |-> 0]

NoShadow == [instrument |-> NoInstrument, book |-> NewSync, loaded |-> FALSE]

(* MdBooks::new *)
NewBooks == [syncs |-> [i \in Instruments |-> NewSync], shadow |-> NoShadow]

IsLive(b, i) == b.syncs[i].sync.live

Verifying(b) == b.shadow.instrument

SyncDelta(s, from, to) ==
  {[sync |-> t, base |-> IF t.live THEN s.base ELSE 0] : t \in AfterDelta(s.sync, from, to)}

SyncSnapshot(s, seq) ==
  {[sync |-> t,
    base |-> IF ~t.live THEN 0
             ELSE IF s.sync.live /\ seq < s.sync.last THEN s.base
             ELSE seq] : t \in AfterSnapshot(s.sync, seq)}

(* Whether a live book of instrument i misses the misreported update. *)
IsWrong(i, s) == s.base < Misreported[i] /\ Misreported[i] <= s.sync.last

(* compare() finds a difference: between the books after two different     *)
(* updates, or else if one of them is wrong where compare() looks.         *)
Differ(i, s, t) ==
  \/ s.sync.last # t.sync.last
  \/ IsWrong(i, s) # IsWrong(i, t) /\ s.sync.last \in InReach[i]

CancelVerification(b) == [b EXCEPT !.shadow = NoShadow]

(* Mutant: the books are compared wherever each of them is. *)
CanSettleAnywhere(b) ==
  /\ Verifying(b) # NoInstrument
  /\ b.shadow.loaded
  /\ IsLive(b, Verifying(b))
  /\ b.shadow.book.sync.live

(* MdBooks::settle_verification is ready to compare. *)
CanSettle(b) ==
  /\ Verifying(b) # NoInstrument
  /\ b.shadow.loaded
  /\ IsLive(b, Verifying(b))
  /\ b.shadow.book.sync.live
  /\ b.syncs[Verifying(b)].sync.last = b.shadow.book.sync.last

(* MdBooks::settle_verification *)
SettleVerification(b) ==
  LET i == Verifying(b)
      after == CancelVerification(b)
  IN  IF ~CanSettle(b) THEN [books |-> b, verdict |-> "none"]
      ELSE IF Differ(i, b.syncs[i], b.shadow.book)
        THEN [books |-> [after EXCEPT !.syncs[i] = NewSync], verdict |-> "mismatch"]
      ELSE [books |-> after, verdict |-> "passed"]

(* MdBooks::apply, one operator per arm of its match. *)
ApplyFailed(b, i, s) ==
  LET down == [b EXCEPT !.syncs[i] = s]
  IN  {[books   |-> IF Verifying(b) = i THEN CancelVerification(down) ELSE down,
        applied |-> "down", verdict |-> "none"]}

ApplyQuiet(b, i, s, from, to) ==
  {[books   |-> [b EXCEPT !.syncs[i] = s, !.shadow.book = t],
    applied |-> "quiet", verdict |-> "none"] :
      t \in IF Verifying(b) = i THEN SyncDelta(b.shadow.book, from, to) ELSE {b.shadow.book}}

ApplyLive(b, i, s, from, to) ==
  IF Verifying(b) # i
    THEN {[books |-> [b EXCEPT !.syncs[i] = s], applied |-> "book", verdict |-> "none"]}
    ELSE LET settled(t) == SettleVerification([b EXCEPT !.syncs[i] = s, !.shadow.book = t])
         IN  {[books   |-> settled(t).books,
               applied |-> IF settled(t).verdict = "mismatch" THEN "down" ELSE "book",
               verdict |-> settled(t).verdict] : t \in SyncDelta(b.shadow.book, from, to)}

Apply(b, i, from, to) ==
  UNION {IF IsLive(b, i) /\ ~s.sync.live THEN ApplyFailed(b, i, s)
         ELSE IF IsLive(b, i) /\ to > b.syncs[i].sync.last THEN ApplyLive(b, i, s, from, to)
         ELSE ApplyQuiet(b, i, s, from, to) : s \in SyncDelta(b.syncs[i], from, to)}

(* MdBooks::on_snapshot and settle *)
OnSnapshot(b, i, seq) ==
  {[books   |-> [b EXCEPT !.syncs[i] = s],
    outcome |-> IF IsLive(b, i) /\ seq < b.syncs[i].sync.last THEN "Unchanged"
                ELSE IF s.sync.live THEN "Live"
                ELSE IF s.sync = Empty THEN "Invalid"
                ELSE "TooOld"] : s \in SyncSnapshot(b.syncs[i], seq)}

(* MdBooks::start_verification, of a live instrument *)
StartVerification(b, i) ==
  [b EXCEPT !.shadow = [instrument |-> i, book |-> NewSync, loaded |-> FALSE]]

(* MdBooks::on_verification_snapshot and after_verification_snapshot *)
OnVerificationSnapshot(b, i, seq) ==
  IF Verifying(b) # i \/ b.shadow.loaded
    THEN {[books |-> b, outcome |-> "NotRunning"]}
    ELSE LET settled(s) == SettleVerification([b EXCEPT !.shadow.book = s, !.shadow.loaded = TRUE])
         IN  {IF ~s.sync.live
                THEN [books |-> CancelVerification(b), outcome |-> "Unusable"]
                ELSE [books   |-> settled(s).books,
                      outcome |-> CASE settled(s).verdict = "mismatch" -> "Failed"
                                    [] settled(s).verdict = "passed" -> "Passed"
                                    [] settled(s).verdict = "none" -> "Pending"] :
                s \in SyncSnapshot(b.shadow.book, seq)}

(* MdBooks::reset_all *)
ResetAll(b) == NewBooks

=============================================================================
