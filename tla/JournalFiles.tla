---------------------------- MODULE JournalFiles ----------------------------
(***************************************************************************)
(* bowst-journal: the segment files (format.rs) and what JournalReader     *)
(* (reader.rs) makes of them.                                              *)
(*                                                                         *)
(* A segment is counted in units: its file header is one, and every record *)
(* two, its header and its payload.  `recs` are the records handed to the  *)
(* segment's BufWriter; `size` units are buffered or written, `os` of them *)
(* have reached the operating system, `synced` the disk, and `bad` are     *)
(* damaged.  A reader sees the first `os` units.                           *)
(***************************************************************************)
EXTENDS Integers, Sequences, FiniteSets, SequencesExt

(* Segment::create: the file exists, its header is still in the buffer. *)
NewSegment == [recs |-> <<>>, size |-> 1, os |-> 0, synced |-> 0, bad |-> {}]

HeadUnit(k) == 2 * k

PayloadUnit(k) == 2 * k + 1

(* decode_file_header: too short, or not a journal's. *)
BadFileHeader(s) == s.os = 0 \/ 1 \in s.bad

(* decode_record of the k-th record. *)
Begins(s, k) == HeadUnit(k) <= s.os

Checksum(s, k) == Begins(s, k) /\ {HeadUnit(k), PayloadUnit(k)} \cap s.bad # {}

Incomplete(s, k) == Begins(s, k) /\ PayloadUnit(k) > s.os

NotReturned(s, k) == ~Begins(s, k) \/ Checksum(s, k) \/ Incomplete(s, k)

(* The first record that next_record does not return. *)
FirstNotReturned(s) == Min({k \in 1 .. Len(s.recs) + 1 : NotReturned(s, k)})

(* load_next and next_record, for one segment: the records that they       *)
(* return, and what comes after them.                                      *)
SegmentRecords(s) == IF BadFileHeader(s) THEN <<>> ELSE SubSeq(s.recs, 1, FirstNotReturned(s) - 1)

SegmentEnd(s) ==
  IF BadFileHeader(s) \/ Checksum(s, FirstNotReturned(s)) THEN "Corrupt"
  ELSE IF Incomplete(s, FirstNotReturned(s)) THEN "Incomplete"
  ELSE "End"

(* The last segment that the reader gets to. *)
LastRead(files) ==
  LET ends == {k \in DOMAIN files : SegmentEnd(files[k]) # "End"}
  IN  IF ends = {} THEN Len(files) ELSE Min(ends)

(* What next_record returns of the first k segments. *)
ReadUpTo(files, k) ==
  LET read[j \in 0 .. Len(files)] ==
        IF j = 0 THEN <<>> ELSE read[j - 1] \o SegmentRecords(files[j])
  IN  read[k]

(* All that next_record returns, and how it ends: at the "End" of the      *)
(* journal, there with a "TornTail", or with an error.                     *)
ReadBack(files) == ReadUpTo(files, LastRead(files))

ReadEnd(files) ==
  LET last == LastRead(files)
      end == SegmentEnd(files[last])
  IN  IF files = <<>> THEN "End"
      ELSE IF end # "Incomplete" THEN end
      ELSE IF last < Len(files) THEN "Truncated"
      ELSE "TornTail"

Readable(files) == ReadEnd(files) \in {"End", "TornTail"}

=============================================================================
