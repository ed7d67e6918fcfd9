-------------------------------- MODULE Fifo --------------------------------
(***************************************************************************)
(* What a bounded single-producer/single-consumer ring promises: a queue   *)
(* whose push is refused exactly when it is full, and whose pop finds      *)
(* nothing exactly when it is empty.                                       *)
(***************************************************************************)
EXTENDS Naturals, Sequences

CONSTANTS
  Values,
  Capacity,
  Nothing        \* Option::None

VARIABLES
  queue,
  pushed,        \* push's last answer: Ok or Full
  popped         \* pop's last answer

Init ==
  /\ queue = <<>>
  /\ pushed = "Ok"
  /\ popped = Nothing

Push(v) ==
  /\ Len(queue) < Capacity
  /\ queue' = Append(queue, v)
  /\ pushed' = "Ok"
  /\ UNCHANGED popped

PushFull ==
  /\ Len(queue) = Capacity
  /\ pushed' = "Full"
  /\ UNCHANGED <<queue, popped>>

Pop ==
  /\ queue # <<>>
  /\ popped' = Head(queue)
  /\ queue' = Tail(queue)
  /\ UNCHANGED pushed

PopNothing ==
  /\ queue = <<>>
  /\ popped' = Nothing
  /\ UNCHANGED <<queue, pushed>>

Next == (\E v \in Values : Push(v)) \/ PushFull \/ Pop \/ PopNothing

Spec == Init /\ [][Next]_<<queue, pushed, popped>>

=============================================================================
