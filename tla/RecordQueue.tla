----------------------------- MODULE RecordQueue -----------------------------
(***************************************************************************)
(* What the byte ring promises: a queue of records of any length up to     *)
(* MaxRecord.  How many fit depends on their lengths and on where they     *)
(* lie, but a record is never refused while the queue is empty.            *)
(***************************************************************************)
EXTENDS Naturals, Sequences

CONSTANTS
  Values,
  MaxRecord,     \* ByteProducer::max_record
  Nothing,       \* Option::None
  Pending        \* no answer yet

VARIABLES
  queue,
  written,       \* write_with's last answer: Ok, Full or TooLarge
  popped         \* the record read_with passed last

Records == UNION {[1 .. n -> Values] : n \in 0 .. MaxRecord}

Init ==
  /\ queue = <<>>
  /\ written = Pending
  /\ popped = Pending

WriteCall ==
  /\ written' = Pending
  /\ UNCHANGED <<queue, popped>>

Write(r) ==
  /\ queue' = Append(queue, r)
  /\ written' = "Ok"
  /\ UNCHANGED popped

WriteFull ==
  /\ queue # <<>>
  /\ written' = "Full"
  /\ UNCHANGED <<queue, popped>>

WriteTooLarge ==
  /\ written' = "TooLarge"
  /\ UNCHANGED <<queue, popped>>

ReadCall ==
  /\ popped' = Pending
  /\ UNCHANGED <<queue, written>>

Read ==
  /\ queue # <<>>
  /\ popped' = Head(queue)
  /\ queue' = Tail(queue)
  /\ UNCHANGED written

ReadNothing ==
  /\ queue = <<>>
  /\ popped' = Nothing
  /\ UNCHANGED <<queue, written>>

Next ==
  \/ \E r \in Records : Write(r)
  \/ WriteCall \/ WriteFull \/ WriteTooLarge
  \/ ReadCall \/ Read \/ ReadNothing

Spec == Init /\ [][Next]_<<queue, written, popped>>

=============================================================================
