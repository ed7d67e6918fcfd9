------------------------------- MODULE SeqRules -------------------------------
(***************************************************************************)
(* What one call does to a BookSync, in sequence numbers only: no prices,  *)
(* no buffer sizes.  A sync either waits for a snapshot, holding one       *)
(* unbroken chain first..last of venue updates (or nothing), or is live at *)
(* the sequence number `last`.  Each operator gives the set of states the  *)
(* sync may be in after the call.  SeqSync makes a specification of these  *)
(* rules, which BookSync implements; MdBooks is built on them.             *)
(***************************************************************************)
EXTENDS Integers

(* AwaitingSnapshot with nothing buffered: where every invalidation ends. *)
Empty == [live |-> FALSE, first |-> 0, last |-> 0]

(* AwaitingSnapshot with the deltas from..to buffered.  Venue updates      *)
(* are numbered from 1, so that a chain is never confused with Empty.      *)
Chain(from, to) == [live |-> FALSE, first |-> from, last |-> to]

(* State::Live { last } *)
Live(to) == [live |-> TRUE, first |-> 0, last |-> to]

Buffering(s) == ~s.live /\ s.first # 0

(* BookSync::buffer.  A delta that extends the chain may still restart it  *)
(* (too many messages) or empty it (too many updates).                     *)
AfterBuffer(s, from, to) ==
  IF Buffering(s) /\ to <= s.last
    THEN {s}
    ELSE {Empty, Chain(from, to)}
           \cup IF Buffering(s) /\ from <= s.last + 1
                  THEN {Chain(s.first, to)}
                  ELSE {}

(* BookSync::on_delta.  A delta that continues a live book may still be    *)
(* invalid data, or cross the book.                                        *)
AfterDelta(s, from, to) ==
  IF ~s.live                   THEN AfterBuffer(s, from, to)
  ELSE IF to <= s.last         THEN {s}
  ELSE IF from > s.last + 1    THEN AfterBuffer(Empty, from, to)
  ELSE {Live(to), Empty}

(* BookSync::on_snapshot.  Any snapshot may be invalid data or crossed; a  *)
(* good one that reaches back to the chain makes the sync live at the end  *)
(* of the chain, or at the snapshot if that is newer.                      *)
AfterSnapshot(s, seq) ==
  IF s.live /\ seq < s.last                   THEN {s}
  ELSE IF Buffering(s) /\ seq + 1 < s.first   THEN {s, Empty}
  ELSE IF Buffering(s) /\ seq < s.last        THEN {Live(s.last), Empty}
  ELSE {Live(seq), Empty}

=============================================================================
