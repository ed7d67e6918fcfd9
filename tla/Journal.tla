------------------------------- MODULE Journal -------------------------------
(***************************************************************************)
(* bowst-journal: the producer on the hot path, the byte ring, the writer  *)
(* thread and its segments (journal.rs), through sessions that are         *)
(* finished, fail or crash and are started again in the same directory.    *)
(*                                                                         *)
(* The ring is a RecordQueue, which BytesRing implements: it may be full   *)
(* whenever it is not empty.  Clocks are choices: flush and sync may be    *)
(* due in any turn of the writer's loop.  The records of a session are     *)
(* numbered in the order of the calls of append, dropped ones included.    *)
(***************************************************************************)
EXTENDS JournalFiles

CONSTANTS
  SegmentUnits,  \* JournalConfig::segment_bytes
  RingSlots,     \* bound: records in the ring
  MaxAppends,    \* bound: calls of append in the first session
  MaxLater,      \* bound: calls of append in a later session
  MaxSessions,   \* bound: calls of start
  MaxFaults      \* bound: failures of the disk

ASSUME JournalAssumption ==
  /\ SegmentUnits \in Nat /\ SegmentUnits >= 2
  /\ {RingSlots, MaxAppends, MaxLater, MaxSessions} \subseteq Nat \ {0}
  /\ MaxFaults \in Nat

VARIABLES
  session,       \* calls of start so far
  ending,        \* how the session ended: "Open", "Ok", "Err" or "Crash"
  appends,       \* calls of append in this session
  append,        \* the call in progress: "none", or at its "gap" or its "record"
  pendingGap,    \* JournalProducer::pending_gap
  ring,
  dropped, stop, \* Shared
  writer,        \* the writer thread: "top", "drain", "timers", "done"
  stopping, wroteAny,
  error,         \* Sink::error, Shared::failed
  files,         \* the segments, the last one open
  faults,
  accepted,      \* history: the records append took before finish was called
  clean          \* history: no failed session, crash or damage so far

producerVars == <<appends, append, pendingGap, dropped>>
writerVars == <<writer, stopping, wroteAny, error>>
journalVars == <<session, ending, producerVars, ring, stop, writerVars, files, faults, accepted, clean>>

(* A record's session and `upTo`, the last call of append that it stands   *)
(* for, are history; `n` is the call it carries or the count of a gap.     *)
Data(n) == [session |-> session, gap |-> FALSE, n |-> n, upTo |-> n]

Gap(n) == [session |-> session, gap |-> TRUE, n |-> n, upTo |-> appends - 1]

JournalInit ==
  /\ session = 0
  /\ ending = "Ok"
  /\ appends = 0
  /\ append = "none"
  /\ pendingGap = 0
  /\ ring = <<>>
  /\ dropped = 0
  /\ stop = FALSE
  /\ writer = "done"
  /\ stopping = FALSE
  /\ wroteAny = FALSE
  /\ error = FALSE
  /\ files = <<>>
  /\ faults = 0
  /\ accepted = {}
  /\ clean = TRUE

(* start, next_segment_index and Segment::create: a segment after the last *)
(* one that is there.                                                      *)
Start ==
  /\ ending # "Open"
  /\ session < MaxSessions
  /\ session' = session + 1
  /\ ending' = "Open"
  /\ appends' = 0
  /\ append' = "none"
  /\ pendingGap' = 0
  /\ ring' = <<>>
  /\ dropped' = 0
  /\ stop' = FALSE
  /\ writer' = "top"
  /\ stopping' = FALSE
  /\ wroteAny' = FALSE
  /\ error' = FALSE
  /\ files' = Append(files, NewSegment)
  /\ accepted' = {}
  /\ UNCHANGED <<faults, clean>>

(***************************************************************************)
(* JournalProducer::append                                                 *)
(***************************************************************************)
(* drop_record *)
Dropped ==
  /\ pendingGap' = pendingGap + 1
  /\ dropped' = dropped + 1
  /\ append' = "none"

(* write_with finds no room. *)
RingFull == ring # <<>>

RingHasRoom == Len(ring) < RingSlots

CanAppend ==
  /\ ending = "Open" /\ append = "none"
  /\ appends < IF session = 1 THEN MaxAppends ELSE MaxLater

AppendTooLarge ==
  /\ CanAppend
  /\ appends' = appends + 1
  /\ Dropped
  /\ UNCHANGED <<session, ending, ring, stop, writerVars, files, faults, accepted, clean>>

AppendBegin ==
  /\ CanAppend
  /\ appends' = appends + 1
  /\ append' = IF pendingGap > 0 THEN "gap" ELSE "record"
  /\ UNCHANGED <<session, ending, pendingGap, dropped, ring, stop, writerVars, files, faults,
                 accepted, clean>>

(* Mutant: the count is kept until the record itself is in the ring. *)
WriteGapKept ==
  /\ append = "gap" /\ RingHasRoom
  /\ ring' = Append(ring, Gap(pendingGap))
  /\ append' = "record"
  /\ UNCHANGED <<session, ending, appends, dropped, pendingGap, stop, writerVars, files, faults,
                 accepted, clean>>

WriteGap ==
  /\ append = "gap" /\ RingHasRoom
  /\ ring' = Append(ring, Gap(pendingGap))
  /\ pendingGap' = 0
  /\ append' = "record"
  /\ UNCHANGED <<session, ending, appends, dropped, stop, writerVars, files, faults, accepted,
                 clean>>

WriteRecord ==
  /\ append = "record" /\ RingHasRoom
  /\ ring' = Append(ring, Data(appends))
  /\ append' = "none"
  /\ accepted' = IF stop THEN accepted ELSE accepted \cup {appends}
  /\ UNCHANGED <<session, ending, appends, pendingGap, dropped, stop, writerVars, files, faults,
                 clean>>

(* No room for the gap marker, or none for the record after it. *)
AppendFull ==
  /\ append # "none" /\ RingFull
  /\ Dropped
  /\ UNCHANGED <<session, ending, appends, ring, stop, writerVars, files, faults, accepted, clean>>

(* JournalHandle::finish *)
Finish ==
  /\ ending = "Open" /\ ~stop
  /\ stop' = TRUE
  /\ UNCHANGED <<session, ending, producerVars, ring, writerVars, files, faults, accepted, clean>>

(***************************************************************************)
(* Writer::run                                                             *)
(***************************************************************************)
LoadStop ==
  /\ writer = "top"
  /\ stopping' = stop
  /\ wroteAny' = FALSE
  /\ writer' = "drain"
  /\ UNCHANGED <<session, ending, producerVars, ring, stop, error, files, faults, accepted, clean>>

Segment == files[Len(files)]

Rewritten(s) == [files EXCEPT ![Len(files)] = s]

(* Sink::fail *)
Fails ==
  /\ faults < MaxFaults
  /\ faults' = faults + 1
  /\ error' = TRUE

Taken ==
  /\ writer = "drain" /\ ring # <<>>
  /\ ring' = Tail(ring)
  /\ wroteAny' = TRUE

(* Mutant: what cannot be written stays in the ring. *)
WriteLostKept ==
  /\ writer = "drain" /\ ring # <<>>
  /\ error
  /\ wroteAny' = TRUE
  /\ UNCHANGED <<session, ending, producerVars, ring, stop, writer, stopping, error, files, faults,
                 accepted, clean>>

(* Sink::write after a failure. *)
WriteLost ==
  /\ Taken
  /\ error
  /\ UNCHANGED <<session, ending, producerVars, stop, writer, stopping, error, files, faults,
                 accepted, clean>>

MustRotate == Segment.size >= SegmentUnits

(* BufWriter::flush and Segment::sync *)
Flushed(s) == [s EXCEPT !.os = s.size]

Synced(s) == [s EXCEPT !.os = s.size, !.synced = s.size]

(* Sink::rotate *)
Rotated == IF MustRotate THEN Append(Rewritten(Synced(Segment)), NewSegment) ELSE files

WithRecord(s, r, m, n) == [s EXCEPT !.recs = Append(s.recs, r), !.size = m, !.os = n]

(* BufWriter passes on what it holds when it has no room: before the       *)
(* record, or between its header and its payload.                          *)
Write ==
  /\ Taken
  /\ ~error
  /\ LET s == Rotated[Len(Rotated)]
     IN  \E n \in {s.os, s.size, s.size + 1} :
           files' = [Rotated EXCEPT ![Len(Rotated)] = WithRecord(s, Head(ring), s.size + 2, n)]
  /\ UNCHANGED <<session, ending, producerVars, stop, writer, stopping, error, faults, accepted,
                 clean>>

(* A failing write leaves any part of the record in the buffer or in the file. *)
WriteFails ==
  /\ Taken
  /\ ~error
  /\ Fails
  /\ LET s == Rotated[Len(Rotated)]
     IN  \E m \in s.size .. s.size + 1 : \E n \in s.os .. m :
           files' = [Rotated EXCEPT ![Len(Rotated)] = WithRecord(s, Head(ring), m, n)]
  /\ UNCHANGED <<session, ending, producerVars, stop, writer, stopping, accepted, clean>>

(* The sync at a segment's end, or the creation of the next one, fails. *)
RotateFails ==
  /\ Taken
  /\ ~error
  /\ MustRotate
  /\ Fails
  /\ \E n \in Segment.os .. Segment.size : files' = Rewritten([Segment EXCEPT !.os = n])
  /\ UNCHANGED <<session, ending, producerVars, stop, writer, stopping, accepted, clean>>

Drained ==
  /\ writer = "drain" /\ ring = <<>>
  /\ writer' = "timers"
  /\ UNCHANGED <<session, ending, producerVars, ring, stop, stopping, wroteAny, error, files,
                 faults, accepted, clean>>

(* Mutant: stop is looked at again after the ring was found empty. *)
LeavesLate == stop

Leaves == stopping /\ ~wroteAny

(* The flush and the sync, each if it is due, and the end of the turn. *)
Timers ==
  /\ writer = "timers"
  /\ files' \in IF error THEN {files}
                ELSE {files, Rewritten(Flushed(Segment)), Rewritten(Synced(Segment))}
  /\ writer' = IF Leaves THEN "last" ELSE "top"
  /\ UNCHANGED <<session, ending, producerVars, ring, stop, stopping, wroteAny, error, faults,
                 accepted, clean>>

TimerFails ==
  /\ writer = "timers" /\ ~error
  /\ Fails
  /\ \E n \in Segment.os .. Segment.size : files' = Rewritten([Segment EXCEPT !.os = n])
  /\ writer' = IF Leaves THEN "last" ELSE "top"
  /\ UNCHANGED <<session, ending, producerVars, ring, stop, stopping, wroteAny, accepted, clean>>

(* The thread and its variables are gone. *)
Gone ==
  /\ writer' = "done"
  /\ stopping' = FALSE
  /\ wroteAny' = FALSE
  /\ error' = FALSE

(* The last sync; the thread ends, and finish returns the statistics. *)
LastSync ==
  /\ writer = "last" /\ ~error
  /\ files' = Rewritten(Synced(Segment))
  /\ ending' = "Ok"
  /\ Gone
  /\ UNCHANGED <<session, producerVars, ring, stop, faults, accepted, clean>>

LastSyncFails ==
  /\ writer = "last" /\ ~error
  /\ Fails
  /\ \E n \in Segment.os .. Segment.size : files' = Rewritten([Segment EXCEPT !.os = n])
  /\ UNCHANGED <<session, ending, producerVars, ring, stop, writer, stopping, wroteAny, accepted, clean>>

(* After a failure finish returns it.  BufWriter tries to pass on what it  *)
(* holds when it is dropped.                                               *)
EndFailed ==
  /\ writer = "last" /\ error
  /\ \E n \in Segment.os .. Segment.size : files' = Rewritten([Segment EXCEPT !.os = n])
  /\ ending' = "Err"
  /\ Gone
  /\ clean' = FALSE
  /\ UNCHANGED <<session, producerVars, ring, stop, faults, accepted>>

(***************************************************************************)
(* The process dies: what is in memory is lost.  With the machine, what is *)
(* not synced may be lost too.  Or a unit on disk is damaged.              *)
(***************************************************************************)
Stopped(s) ==
  /\ ending = "Open"
  /\ ending' = "Crash"
  /\ files' = Rewritten(s)
  /\ Gone
  /\ appends' = 0
  /\ append' = "none"
  /\ pendingGap' = 0
  /\ dropped' = 0
  /\ stop' = FALSE
  /\ ring' = <<>>
  /\ accepted' = {}
  /\ clean' = FALSE
  /\ UNCHANGED <<session, faults>>

Crash == Stopped(Segment)

PowerFailure ==
  /\ ending = "Open"
  /\ \E n \in Segment.synced .. Segment.os : Stopped([Segment EXCEPT !.os = n])

Damage ==
  /\ ending # "Open" /\ faults < MaxFaults
  /\ faults' = faults + 1
  /\ clean' = FALSE
  /\ \E k \in DOMAIN files : \E u \in 1 .. files[k].os :
       files' = [files EXCEPT ![k].bad = {u}]
  /\ UNCHANGED <<session, ending, producerVars, ring, stop, writerVars, accepted>>

JournalNext ==
  \/ Start
  \/ AppendTooLarge \/ AppendBegin \/ WriteGap \/ WriteRecord \/ AppendFull \/ Finish
  \/ LoadStop \/ WriteLost \/ Write \/ WriteFails \/ RotateFails \/ Drained
  \/ Timers \/ TimerFails \/ LastSync \/ LastSyncFails \/ EndFailed
  \/ Crash \/ PowerFailure \/ Damage

(* The writer thread keeps running. *)
Writing == LoadStop \/ WriteLost \/ Write \/ Drained \/ Timers \/ LastSync \/ EndFailed

JournalSpec == JournalInit /\ [][JournalNext]_journalVars /\ WF_journalVars(Writing)

-----------------------------------------------------------------------------
(***************************************************************************)
(* Properties.                                                             *)
(***************************************************************************)
JournalTypeOK ==
  /\ session \in 0 .. MaxSessions
  /\ ending \in {"Open", "Ok", "Err", "Crash"}
  /\ appends \in Nat
  /\ append \in {"none", "gap", "record"}
  /\ pendingGap \in 0 .. dropped
  /\ dropped \in 0 .. appends
  /\ Len(ring) <= RingSlots
  /\ {stop, stopping, wroteAny, error, clean} \subseteq BOOLEAN
  /\ writer \in {"top", "drain", "timers", "last", "done"}
  /\ faults \in 0 .. MaxFaults
  /\ accepted \subseteq 1 .. appends
  /\ \A k \in DOMAIN files :
       /\ 0 <= files[k].synced
       /\ files[k].synced <= files[k].os
       /\ files[k].os <= files[k].size
       /\ files[k].size < SegmentUnits + 2

(* The calls of append that a record accounts for, and those of session t  *)
(* that the first k of recs do.                                            *)
Weight(r) == IF r.gap THEN r.n ELSE 1

Accounted(recs, t, k) ==
  LET sum[i \in 0 .. Len(recs)] ==
        IF i = 0 THEN 0
        ELSE sum[i - 1] + IF recs[i].session = t THEN Weight(recs[i]) ELSE 0
  IN  sum[k]

(* "Never silently incomplete", up to the end: of every session, however   *)
(* it ended and wherever the ring was full, the reader finds a beginning   *)
(* in which every record is there or is counted, once and at its place, by *)
(* a gap marker.                                                           *)
NothingMissingUnmarked ==
  LET recs == ReadBack(files)
  IN  \A k \in DOMAIN recs : Accounted(recs, recs[k].session, k) = recs[k].upTo

(* finish returns Ok only for a journal that can be read to its end and    *)
(* holds every record that append took before: nothing is left in the      *)
(* ring, in a buffer or in a segment that was rotated away.                *)
FinishedIsWhole ==
  ending = "Ok" /\ clean =>
    /\ ReadEnd(files) = "End"
    /\ \A n \in accepted : Contains(ReadBack(files), Data(n))

(* The writer ends after finish, failed or not, if it is given the time:   *)
(* it does not wait for records that cannot come or that cannot be written. *)
FinishReturns == (stop /\ ending = "Open") ~> (ending # "Open")

(* journal.rs and README.md: every drop is marked by a gap record.         *)
DropsAreMarked ==
  ending = "Ok" /\ clean =>
    LET gaps == SelectSeq(ReadBack(files), LAMBDA r : r.gap)
    IN  Accounted(gaps, session, Len(gaps)) = dropped

(* format.rs: a crash leaves at most the last record of the last segment   *)
(* incomplete, and readers accept that one.  Here for journals whose file  *)
(* headers have all been written.                                          *)
CrashIsAccepted == (\A k \in DOMAIN files : files[k].os > 0) /\ faults = 0 => Readable(files)

=============================================================================
