------------------------------ MODULE MdReplay ------------------------------
(***************************************************************************)
(* bowst-venue: the journal of a market-data session, as MdSession writes  *)
(* it (binance/md.rs), and its replay (binance/replay.rs).  `replayed` are *)
(* the books of a replay that has read everything the session has          *)
(* journaled so far; no record is lost on the way (see Journal for that).  *)
(*                                                                         *)
(* The session journals what it gives to MdBooks: messages, snapshots, the *)
(* start and the snapshot of a verification, and resets.  It does not      *)
(* journal that it cancels a verification, after a timeout or a failed     *)
(* request.                                                                *)
(***************************************************************************)
EXTENDS MdSession

VARIABLES
  replayed,   \* the MdBooks of the replay
  followed    \* so far the replay has had the session's book of every instrument

replayVars == <<vars, replayed, followed>>

(* The same record is applied to the books of the replay.  Where a call    *)
(* has several outcomes they are told apart by the data of the record, so  *)
(* the same books take the same outcome.  Other books, which differ in the *)
(* verification only, take the same outcome for the instrument, after      *)
(* which they may find a mismatch of their own.                            *)
Replays(i, outcomes) ==
  IF replayed = books THEN replayed' = books'
  ELSE \E r \in outcomes :
         /\ r.books.syncs = books'.syncs \/ (r.verdict = "mismatch" /\ IsLive(books', i))
         /\ replayed' = r.books

(* Kind::MD_SNAPSHOT and Kind::MD_VERIFY_SNAPSHOT: the results that are    *)
(* journaled                                                               *)
Journaled(r) ==
  /\ r.generation = generation
  /\ r.seq # Failed
  /\ r.purpose = Verification => verification = r.instrument /\ Verifying(books) = r.instrument

(* on_raw_snapshot and on_raw_verification_snapshot *)
ReplaySnapshot(r) ==
  LET plain(outcomes) == {[books |-> o.books, verdict |-> "none"] : o \in outcomes}
  IN  Replays(r.instrument,
              IF r.purpose = Sync
                THEN plain(OnSnapshot(replayed, r.instrument, r.seq))
                ELSE {[books |-> o.books,
                       verdict |-> IF o.outcome = "Failed" THEN "mismatch" ELSE "none"] :
                        o \in OnVerificationSnapshot(replayed, r.instrument, r.seq)})

(* Mutant: a reconnect is not journaled. *)
ReplayResetForgotten == UNCHANGED replayed

(* Kind::MD_RESET *)
ReplayReset == replayed' = ResetAll(replayed)

(* Kind::MD_VERIFY_START *)
ReplayStart ==
  replayed' = IF IsLive(replayed, verification')
                THEN StartVerification(replayed, verification') ELSE replayed

ReplayInit == Init /\ replayed = NewBooks /\ followed = TRUE

(* What the session does and, once it has the record, the replay.  A       *)
(* replay that has left the session is not followed any further.           *)
ReplayStep ==
  \/ \E i \in Instruments : \E from, to \in 1 .. MaxSeq :
       ReceiveDelta(i, from, to) /\ IF followed THEN Replays(i, Apply(replayed, i, from, to))
                                    ELSE UNCHANGED replayed
  \/ Collect /\ IF followed /\ Journaled(Head(results)) THEN ReplaySnapshot(Head(results))
                ELSE UNCHANGED replayed
  \/ (ConnectFails \/ Drop) /\ IF followed THEN ReplayReset ELSE UNCHANGED replayed
  \/ StartNext /\ IF followed THEN ReplayStart ELSE UNCHANGED replayed
  \/ /\ \/ \E i \in Instruments : VenueUpdate(i) \/ RetryTimer(i)
        \/ Connect \/ Stop \/ DrainDone \/ CollectDone \/ RequestSnapshots
        \/ NothingDue \/ TimeOut \/ TakeJob \/ Fetched \/ FetchFailed
     /\ UNCHANGED replayed

ReplayNext == ReplayStep /\ followed' = (followed /\ replayed'.syncs = books'.syncs)

ReplaySpec == ReplayInit /\ [][ReplayNext]_replayVars

-----------------------------------------------------------------------------

(* A replay leaves the session only where it is the one that is right: it  *)
(* goes on with a verification that the session gave up, and finds that    *)
(* the session's live book is wrong.  Nothing else that changes a book is  *)
(* missing from the journal, however requests, retries and verifications   *)
(* ended.  ReplayIsExact below does not make that exception.               *)
ReplayLeavesOnlyWrongBooks ==
  [][followed /\ ~followed' =>
       \E i \in Instruments : IsLive(books', i) /\ IsWrong(i, books'.syncs[i])]_replayVars

(* replay.rs:5-8: a replay has "exactly the books and status changes the   *)
(* live session produced, including any verification mismatch"; books.rs:  *)
(* "so a replay reproduces a live run exactly".                            *)
ReplayIsExact == followed

=============================================================================
