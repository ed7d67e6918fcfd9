------------------------------- MODULE SeqSync -------------------------------
(***************************************************************************)
(* What a BookSync promises its caller: its state, seen in sequence        *)
(* numbers only, changes by the rules of SeqRules and in no other way.     *)
(* BookSync implements this specification (BookSync!ImplementsSeqSync).    *)
(***************************************************************************)
EXTENDS SeqRules

CONSTANT MaxSeq      \* bound on the venue's sequence numbers

VARIABLE sync

Init == sync = Empty

OnDelta(from, to) == sync' \in AfterDelta(sync, from, to)

OnSnapshot(seq) == sync' \in AfterSnapshot(sync, seq)

Reset == sync' = Empty

Next ==
  \/ \E from, to \in 1 .. MaxSeq : from <= to /\ OnDelta(from, to)
  \/ \E seq \in 0 .. MaxSeq : OnSnapshot(seq)
  \/ Reset

Spec == Init /\ [][Next]_sync

=============================================================================
