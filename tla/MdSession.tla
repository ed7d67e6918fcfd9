------------------------------ MODULE MdSession ------------------------------
(***************************************************************************)
(* bowst-venue: MdSession (binance/md.rs), the market-data thread, with    *)
(* its snapshot thread, the venue and the handler it reports to.           *)
(*                                                                         *)
(* The session loop drains the stream, collects the snapshot results that  *)
(* have arrived, requests snapshots for the books that are down, and       *)
(* schedules verifications.  The snapshot thread takes jobs in order and   *)
(* runs at its own pace: between a request and its result the connection   *)
(* may be lost and made again, the book may come and go, and the           *)
(* verification it was meant for may have been given up.                   *)
(*                                                                         *)
(* Clocks are choices: a retry or a verification may come due, or time     *)
(* out, at any turn of the loop.  The journal, latency and reports are     *)
(* left out.                                                               *)
(***************************************************************************)
EXTENDS MdBooks, Sequences, FiniteSets

CONSTANTS
  NumInstruments,
  MaxSeq,          \* bound on venue updates per instrument
  MaxGeneration,   \* bound on lost connections
  MaxTimeouts,     \* bound on verifications timed out that could have settled
  Verify           \* whether verify_every is set

ASSUME InstrumentsAssumption ==
  /\ NumInstruments \in Nat \ {0}
  /\ Instruments = 1 .. NumInstruments
  /\ NoInstrument \notin Instruments

ASSUME MisreportedAssumption ==
  /\ Misreported \in [Instruments -> Nat]
  /\ InReach \in [Instruments -> SUBSET Nat]

ASSUME SessionBoundsAssumption ==
  /\ {MaxSeq, MaxGeneration, MaxTimeouts} \subseteq Nat
  /\ Verify \in BOOLEAN

VARIABLES
  now,            \* now[i]: the venue's last update of instrument i
  sent,           \* sent[i]: the last update the stream has delivered
  connectedAt,    \* connectedAt[i]: now[i] when the stream was opened
  pc,             \* where the session thread is
  books,          \* MdSession::books
  states,         \* MdSession::states
  generation,     \* MdSession::generation
  verification,   \* MdSession::verification
  cursor,         \* MdSession::verify_cursor
  jobs,           \* the job channel
  fetching,       \* what the snapshot thread is fetching, <<>> or one result
  results,        \* the result channel
  shown,          \* shown[i]: the handler has been told that instrument i is live
  mismatched,     \* the instruments a mismatch was reported for
  timeouts        \* such verifications so far

streamVars == <<now, sent, connectedAt>>
bookVars == <<books, states, verification, shown, mismatched>>
workerVars == <<jobs, fetching, results>>
vars == <<streamVars, pc, bookVars, generation, cursor, workerVars, timeouts>>

(* SnapshotState *)
Idle == "Idle"
Requested == "Requested"
RetryAt == "RetryAt"      \* the retry is not due yet
RetryDue == "RetryDue"    \* now it is

(* Purpose *)
Sync == "Sync"
Verification == "Verify"

(* SnapshotFailure; otherwise a result has the snapshot's last_update_id. *)
Failed == -1

Init ==
  /\ now = [i \in Instruments |-> 0]
  /\ sent = now
  /\ connectedAt = now
  /\ pc = "down"
  /\ books = NewBooks
  /\ states = [i \in Instruments |-> Idle]
  /\ generation = 0
  /\ verification = NoInstrument
  /\ cursor = 1
  /\ jobs = <<>>
  /\ fetching = <<>>
  /\ results = <<>>
  /\ shown = [i \in Instruments |-> FALSE]
  /\ mismatched = {}
  /\ timeouts = 0

One(p) == IF p THEN 1 ELSE 0

(***************************************************************************)
(* The venue (external): it publishes updates, and answers the snapshot    *)
(* thread's requests.                                                      *)
(***************************************************************************)
VenueUpdate(i) ==
  /\ now[i] < MaxSeq
  /\ now' = [now EXCEPT ![i] = @ + 1]
  /\ UNCHANGED <<sent, connectedAt, pc, bookVars, generation, cursor, workerVars, timeouts>>

(***************************************************************************)
(* MdSession::run                                                          *)
(***************************************************************************)
Connect ==
  /\ pc = "down"
  /\ pc' = "drain"
  /\ sent' = now
  /\ connectedAt' = now
  /\ UNCHANGED <<now, bookVars, generation, cursor, workerVars, timeouts>>

(* Mutant: the states survive the connection. *)
TakeAllDownKeepingStates ==
  /\ generation < MaxGeneration
  /\ generation' = generation + 1
  /\ books' = ResetAll(books)
  /\ verification' = NoInstrument
  /\ shown' = [i \in Instruments |-> FALSE]
  /\ UNCHANGED <<streamVars, cursor, workerVars, states, mismatched, timeouts>>

(* take_all_down, and the handler told of the disconnection *)
TakeAllDown ==
  /\ generation < MaxGeneration
  /\ generation' = generation + 1
  /\ books' = ResetAll(books)
  /\ verification' = NoInstrument
  /\ states' = [i \in Instruments |-> Idle]
  /\ shown' = [i \in Instruments |-> FALSE]
  /\ UNCHANGED <<streamVars, cursor, workerVars, mismatched, timeouts>>

ConnectFails ==
  /\ pc = "down"
  /\ TakeAllDown
  /\ UNCHANGED pc

(* stream() returns: an error, a close, no data, maximum age, or stop *)
Drop ==
  /\ pc = "drain"
  /\ TakeAllDown
  /\ pc' \in {"down", "stopped"}

Stop ==
  /\ pc = "down"
  /\ pc' = "stopped"
  /\ UNCHANGED <<streamVars, bookVars, generation, cursor, workerVars, timeouts>>

(***************************************************************************)
(* MdSession::stream, one turn of its loop.                                *)
(***************************************************************************)

(* Mutants: a mismatch is not reported; an ended verification is kept. *)
AfterApplySilent(i, r) ==
  /\ books' = r.books
  /\ verification' = IF Verifying(r.books) # verification THEN NoInstrument ELSE verification
  /\ IF r.applied = "down"
       THEN /\ states' = [states EXCEPT ![i] = Idle]
            /\ shown' = [shown EXCEPT ![i] = r.verdict = "mismatch"]
       ELSE UNCHANGED <<states, shown>>
  /\ mismatched' = IF r.verdict = "mismatch" THEN mismatched \cup {i} ELSE mismatched

AfterApplyKeeping(i, r) ==
  /\ books' = r.books
  /\ states' = IF r.applied = "down" THEN [states EXCEPT ![i] = Idle] ELSE states
  /\ shown' = IF r.applied = "down" THEN [shown EXCEPT ![i] = FALSE] ELSE shown
  /\ UNCHANGED <<verification, mismatched>>

(* after_apply: report, forget an ended verification, resync *)
AfterApply(i, r) ==
  /\ books' = r.books
  /\ verification' = IF Verifying(r.books) # verification THEN NoInstrument ELSE verification
  /\ IF r.applied = "down"
       THEN /\ states' = [states EXCEPT ![i] = Idle]
            /\ shown' = [shown EXCEPT ![i] = FALSE]
       ELSE UNCHANGED <<states, shown>>
  /\ mismatched' = IF r.verdict = "mismatch" THEN mismatched \cup {i} ELSE mismatched

(* A message with the updates from..to of instrument i.  Those between     *)
(* sent[i] and from were lost.                                             *)
ReceiveDelta(i, from, to) ==
  /\ pc = "drain"
  /\ sent[i] < from /\ from <= to /\ to <= now[i]
  /\ sent' = [sent EXCEPT ![i] = to]
  /\ \E r \in Apply(books, i, from, to) : AfterApply(i, r)
  /\ UNCHANGED <<now, connectedAt, pc, generation, cursor, workerVars, timeouts>>

DrainDone ==
  /\ pc = "drain"
  /\ pc' = "collect"
  /\ UNCHANGED <<streamVars, bookVars, generation, cursor, workerVars, timeouts>>

(* apply_snapshot *)
ApplySnapshot(i, seq) ==
  IF seq = Failed
    THEN /\ states' = [states EXCEPT ![i] = RetryAt]
         /\ UNCHANGED <<books, verification, shown, mismatched>>
    ELSE \E r \in OnSnapshot(books, i, seq) :
           /\ books' = r.books
           /\ states' = [states EXCEPT ![i] = IF r.outcome = "Invalid" THEN RetryAt ELSE Idle]
           /\ shown' = CASE r.outcome = "Live" -> [shown EXCEPT ![i] = TRUE]
                         [] r.outcome = "Invalid" -> [shown EXCEPT ![i] = FALSE]
                         [] OTHER -> shown
           /\ UNCHANGED <<verification, mismatched>>

(* apply_verification_snapshot *)
ApplyVerificationSnapshot(i, seq) ==
  IF verification # i \/ Verifying(books) # i
    THEN UNCHANGED bookVars
  ELSE IF seq = Failed
    THEN /\ books' = CancelVerification(books)
         /\ verification' = NoInstrument
         /\ UNCHANGED <<states, shown, mismatched>>
  ELSE \E r \in OnVerificationSnapshot(books, i, seq) :
         /\ books' = r.books
         /\ verification' = IF r.outcome = "Pending" THEN verification ELSE NoInstrument
         /\ IF r.outcome = "Failed"
              THEN /\ states' = [states EXCEPT ![i] = Idle]
                   /\ shown' = [shown EXCEPT ![i] = FALSE]
                   /\ mismatched' = mismatched \cup {i}
              ELSE UNCHANGED <<states, shown, mismatched>>

(* Mutant: a result of an earlier connection is used. *)
CollectAnyGeneration ==
  /\ pc = "collect"
  /\ results # <<>>
  /\ results' = Tail(results)
  /\ LET r == Head(results)
     IN  IF r.purpose = Sync THEN ApplySnapshot(r.instrument, r.seq)
         ELSE ApplyVerificationSnapshot(r.instrument, r.seq)
  /\ UNCHANGED <<streamVars, pc, generation, cursor, jobs, fetching, timeouts>>

(* collect_snapshots, one result *)
Collect ==
  /\ pc = "collect"
  /\ results # <<>>
  /\ results' = Tail(results)
  /\ LET r == Head(results)
     IN  CASE r.generation # generation -> UNCHANGED bookVars
           [] r.generation = generation /\ r.purpose = Sync -> ApplySnapshot(r.instrument, r.seq)
           [] r.generation = generation /\ r.purpose = Verification ->
                ApplyVerificationSnapshot(r.instrument, r.seq)
  /\ UNCHANGED <<streamVars, pc, generation, cursor, jobs, fetching, timeouts>>

CollectDone ==
  /\ pc = "collect"
  /\ results = <<>>
  /\ pc' = "request"
  /\ UNCHANGED <<streamVars, bookVars, generation, cursor, workerVars, timeouts>>

RetryTimer(i) ==
  /\ states[i] = RetryAt
  /\ states' = [states EXCEPT ![i] = RetryDue]
  /\ UNCHANGED <<streamVars, pc, books, verification, shown, mismatched, generation,
                 cursor, workerVars, timeouts>>

Job(i, purpose) == [instrument |-> i, generation |-> generation, purpose |-> purpose]

(* Mutant: a snapshot is requested for a live book too. *)
NeedsSnapshotEvenLive(i) == states[i] \in {Idle, RetryDue}

(* request_snapshots *)
NeedsSnapshot(i) == ~IsLive(books, i) /\ states[i] \in {Idle, RetryDue}

RequestSnapshots ==
  LET due == {i \in Instruments : NeedsSnapshot(i)}
  IN  /\ pc = "request"
      /\ pc' = "schedule"
      /\ \E inOrder \in [1 .. Cardinality(due) -> due] :
           /\ \A j, k \in DOMAIN inOrder : j < k => inOrder[j] < inOrder[k]
           /\ jobs' = jobs \o [k \in DOMAIN inOrder |-> Job(inOrder[k], Sync)]
      /\ states' = [i \in Instruments |-> IF i \in due THEN Requested ELSE states[i]]
      /\ UNCHANGED <<streamVars, books, verification, shown, mismatched, generation,
                     cursor, fetching, results, timeouts>>

(* schedule_verification: nothing is due *)
NothingDue ==
  /\ pc = "schedule"
  /\ pc' = "drain"
  /\ UNCHANGED <<streamVars, bookVars, generation, cursor, workerVars, timeouts>>

(* The requests and results on their way, the oldest first, whatever their *)
(* generation.                                                             *)
Outstanding == results \o fetching \o jobs

(* The verification in progress would settle, given the time: its snapshot *)
(* is on its way, or the live book has yet to catch up with it.            *)
CouldSettle ==
  /\ verification # NoInstrument
  /\ LET shadow == books.shadow.book.sync
     IN  \/ \E k \in 1 .. Len(Outstanding) : /\ Outstanding[k].instrument = verification
                                             /\ Outstanding[k].purpose = Verification
                                             /\ Outstanding[k].generation = generation
         \/ books.shadow.loaded /\ shadow.live /\ shadow.last > books.syncs[verification].sync.last

(* Mutant: a verification never times out. *)
AbandonNever == verification = NoInstrument /\ UNCHANGED timeouts

(* The verification in progress, if any, has timed out. *)
Abandon ==
  /\ CouldSettle => timeouts < MaxTimeouts
  /\ timeouts' = timeouts + One(CouldSettle)

(* schedule_verification: timed out, and the next one is not due *)
TimeOut ==
  /\ Verify
  /\ pc = "schedule"
  /\ pc' = "drain"
  /\ verification # NoInstrument
  /\ Abandon
  /\ books' = CancelVerification(books)
  /\ verification' = NoInstrument
  /\ UNCHANGED <<streamVars, states, shown, mismatched, generation, cursor, workerVars>>

(* The k-th instrument from the cursor on, cyclically. *)
Turn(k) == ((cursor + k - 2) % NumInstruments) + 1

(* schedule_verification: the next one is due, for the first live book *)
StartNext ==
  /\ Verify
  /\ pc = "schedule"
  /\ pc' = "drain"
  /\ Abandon
  /\ \E k \in 1 .. NumInstruments :
       /\ IsLive(books, Turn(k))
       /\ \A j \in 1 .. k - 1 : ~IsLive(books, Turn(j))
       /\ books' = StartVerification(books, Turn(k))
       /\ verification' = Turn(k)
       /\ jobs' = Append(jobs, Job(Turn(k), Verification))
       /\ cursor' = (Turn(k) % NumInstruments) + 1
  /\ UNCHANGED <<streamVars, states, shown, mismatched, generation, fetching, results>>

(***************************************************************************)
(* SnapshotWorker::run.  The venue answers with the book as it is when the *)
(* request reaches it; the answer, or a failure, arrives later.            *)
(***************************************************************************)
TakeJob ==
  /\ jobs # <<>>
  /\ fetching = <<>>
  /\ LET job == Head(jobs)
     IN  fetching' = <<[instrument |-> job.instrument, generation |-> job.generation,
                        purpose |-> job.purpose, seq |-> now[job.instrument]]>>
  /\ jobs' = Tail(jobs)
  /\ UNCHANGED <<streamVars, pc, bookVars, generation, cursor, results, timeouts>>

Fetched ==
  /\ fetching # <<>>
  /\ results' = results \o fetching
  /\ fetching' = <<>>
  /\ UNCHANGED <<streamVars, pc, bookVars, generation, cursor, jobs, timeouts>>

FetchFailed ==
  /\ fetching # <<>>
  /\ results' = Append(results, [fetching[1] EXCEPT !.seq = Failed])
  /\ fetching' = <<>>
  /\ UNCHANGED <<streamVars, pc, bookVars, generation, cursor, jobs, timeouts>>

Next ==
  \/ \E i \in Instruments : VenueUpdate(i) \/ RetryTimer(i)
  \/ \E i \in Instruments : \E from, to \in 1 .. MaxSeq : ReceiveDelta(i, from, to)
  \/ Connect \/ ConnectFails \/ Drop \/ Stop
  \/ DrainDone \/ Collect \/ CollectDone \/ RequestSnapshots
  \/ NothingDue \/ TimeOut \/ StartNext
  \/ TakeJob \/ Fetched \/ FetchFailed

Spec == Init /\ [][Next]_vars

(***************************************************************************)
(* Fairness.  The session loop and the snapshot thread never stop          *)
(* stepping, timers come due, and what is on the stream is delivered.  Of  *)
(* the venue it is assumed that requests do not fail for ever and that     *)
(* what it sends is not for ever invalid.                                  *)
(***************************************************************************)
LoopFairness ==
  /\ WF_vars(Connect)
  /\ WF_vars(DrainDone) /\ WF_vars(Collect \/ CollectDone) /\ WF_vars(RequestSnapshots)
  /\ WF_vars(NothingDue \/ TimeOut \/ StartNext) /\ SF_vars(StartNext)
  /\ WF_vars(TakeJob) /\ WF_vars(Fetched \/ FetchFailed)
  /\ \A i \in Instruments :
       /\ WF_vars(RetryTimer(i))
       /\ SF_vars(\E from, to \in 1 .. MaxSeq : ReceiveDelta(i, from, to))

(* The next result in the queue is for instrument i. *)
FetchedFor(i, purpose) ==
  fetching # <<>> /\ fetching[1].instrument = i /\ fetching[1].purpose = purpose /\ Fetched

CollectedFor(i, purpose) ==
  results # <<>> /\ Head(results).instrument = i /\ Head(results).purpose = purpose /\ Collect

VenueFairness ==
  \A i \in Instruments :
    /\ SF_vars(FetchedFor(i, Sync)) /\ SF_vars(FetchedFor(i, Verification))
    /\ SF_vars(CollectedFor(i, Sync) /\ IsLive(books', i))
    /\ SF_vars(CollectedFor(i, Verification) /\ verification = i
                 /\ (books'.shadow.loaded \/ ~IsLive(books', i)))

FairSpec == Spec /\ LoopFairness /\ VenueFairness

(***************************************************************************)
(* Properties.                                                             *)
(***************************************************************************)
SyncStates == [live : BOOLEAN, first : 0 .. MaxSeq, last : 0 .. MaxSeq]

BookSyncs == [sync : SyncStates, base : 0 .. MaxSeq]

Books == [syncs  : [Instruments -> BookSyncs],
          shadow : [instrument : Instruments \cup {NoInstrument},
                    book : BookSyncs, loaded : BOOLEAN]]

Jobs == [instrument : Instruments, generation : 0 .. MaxGeneration,
         purpose : {Sync, Verification}]

Results == [instrument : Instruments, generation : 0 .. MaxGeneration,
            purpose : {Sync, Verification}, seq : -1 .. MaxSeq]

TypeOK ==
  /\ now \in [Instruments -> 0 .. MaxSeq]
  /\ sent \in [Instruments -> 0 .. MaxSeq]
  /\ connectedAt \in [Instruments -> 0 .. MaxSeq]
  /\ pc \in {"down", "drain", "collect", "request", "schedule", "stopped"}
  /\ books \in Books
  /\ states \in [Instruments -> {Idle, Requested, RetryAt, RetryDue}]
  /\ generation \in 0 .. MaxGeneration
  /\ verification \in Instruments \cup {NoInstrument}
  /\ cursor \in Instruments
  /\ jobs \in Seq(Jobs)
  /\ fetching \in {<<>>} \cup {<<r>> : r \in Results}
  /\ results \in Seq(Results)
  /\ shown \in [Instruments -> BOOLEAN]
  /\ mismatched \subseteq Instruments
  /\ timeouts \in 0 .. MaxTimeouts

(* The requests of this connection for instrument i, wherever they are. *)
SyncRequests(i) ==
  {k \in 1 .. Len(Outstanding) : /\ Outstanding[k].instrument = i
                                 /\ Outstanding[k].generation = generation
                                 /\ Outstanding[k].purpose = Sync}

(* An instrument is Requested exactly while one sync request of this       *)
(* connection is on its way for it, through the job queue, the snapshot    *)
(* thread or the result queue: a reconnect, a retry or a resync never      *)
(* doubles a request and never waits for one that is not coming.           *)
OneSyncRequest ==
  \A i \in Instruments :
    Cardinality(SyncRequests(i)) = One(states[i] = Requested)

(* A live book waits for nothing, so no sync snapshot can reach it, and    *)
(* the moment it goes down its next snapshot is requested.                 *)
LiveMeansIdle == \A i \in Instruments : IsLive(books, i) => states[i] = Idle

(* A live book was built on a snapshot of this connection.  (A result of   *)
(* an earlier connection would be from before the stream's first update.)  *)
LiveBookIsOfThisConnection ==
  \A i \in Instruments :
    IsLive(books, i) => pc \notin {"down", "stopped"} /\ books.syncs[i].base >= connectedAt[i]

(* The handler believes an instrument live exactly when its book is.       *)
HandlerKnows == \A i \in Instruments : shown[i] <=> IsLive(books, i)

(* The instrument under verification is live: any step that takes its book *)
(* down ends the verification, so the shadow is never compared with a book *)
(* that was rebuilt meanwhile.                                             *)
VerifiedBookIsLive ==
  /\ Verifying(books) # NoInstrument => IsLive(books, Verifying(books))
  /\ verification # NoInstrument => Verifying(books) = verification

(* A mismatch is reported only for a book that took the misreported update *)
(* from the stream: lag, gaps, retries, late snapshots and timeouts never  *)
(* look like one, and a book that a later snapshot put right is left alone.*)
MismatchIsReal ==
  [][\A i \in mismatched' \ mismatched :
       books.syncs[i].base < Misreported[i] /\ Misreported[i] <= sent'[i]]_vars

(* A book that is down comes live again, unless the session is stopped:    *)
(* whatever happened to its requests, no instrument is left waiting for a  *)
(* snapshot that will not come.                                            *)
DownLeadsToLive ==
  \A i \in Instruments : ~IsLive(books, i) ~> (IsLive(books, i) \/ pc = "stopped")

(* A live book that is wrong among the levels a verification looks at does *)
(* not stay so: it is found, if nothing else takes it down first, however  *)
(* often verifications fail, time out, are overtaken by the stream or have *)
(* passed it while the level was deeper.  A book that stays wrong only     *)
(* below the top VERIFY_LEVELS passes every verification (books.rs:22-25,  *)
(* 523-544).                                                               *)
VisiblyWrong(i) ==
  LET s == books.syncs[i]
  IN  IsLive(books, i) /\ IsWrong(i, s) /\ s.sync.last \in InReach[i]

WrongBookIsCaught == \A i \in Instruments : VisiblyWrong(i) ~> ~VisiblyWrong(i)

(* MdSession::verification is the verification in progress.  It is not     *)
(* always: the snapshot of a verification that timed out is loaded into    *)
(* the next one of the same instrument, the snapshot meant for that one is *)
(* then answered NotRunning, and the session forgets a verification that   *)
(* is still running, and counts it neither passed, failed nor abandoned.   *)
VerificationTracked == verification = Verifying(books)

=============================================================================
