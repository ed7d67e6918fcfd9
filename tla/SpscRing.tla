------------------------------ MODULE SpscRing ------------------------------
(***************************************************************************)
(* bowst-core: the single-producer/single-consumer ring (ring.rs) between  *)
(* a thread that calls Producer::push and one that calls Consumer::pop.    *)
(* One action is one access to shared memory, so the two calls interleave  *)
(* freely.  Positions are usize counters that wrap: here they wrap at      *)
(* Wrap, as small as the model checker needs them to be.  A Release store  *)
(* and the Acquire load that observes it are sequentially consistent here; *)
(* NoSlotRace is what makes that enough for the slots' values.             *)
(***************************************************************************)
EXTENDS Integers, Sequences

CONSTANTS
  Values,
  Capacity,
  Wrap,          \* usize::MAX + 1
  Nothing        \* Option::None, and MaybeUninit::uninit

(* channel() refuses any other capacity. *)
ASSUME CapacityAssumption ==
  /\ Capacity \in Nat /\ Capacity >= 2
  /\ Wrap \in Nat /\ Wrap > Capacity
  /\ Wrap % Capacity = 0

ASSUME NothingAssumption == Nothing \notin Values

VARIABLES
  seq, value,    \* the slots
  sharedHead,    \* Shared::head
  position,      \* Producer::position
  cachedHead,    \* Producer::cached_head
  reading,       \* Consumer::position
  ppc, cpc,      \* where each side is in its call
  item,          \* the value being pushed
  popping,       \* the value being popped
  pushed, popped \* what the last call returned

producerVars == <<position, cachedHead, ppc, item, pushed>>
consumerVars == <<reading, cpc, popping, popped>>
ringVars == <<seq, value, sharedHead, producerVars, consumerVars>>

Slots == 0 .. Capacity - 1

(* Mutants: a slot that starts out looking published; a ring that takes    *)
(* one element too many.                                                   *)
StartingSeqPublished(s) == (s + 1) % Wrap

LooksFullLate(pos, h) == (pos - h) % Wrap > Capacity

(* wrapping_add and wrapping_sub *)
Wrapping(n) == n % Wrap

(* position & mask *)
Slot(pos) == pos % Capacity

StartingSeq(s) == Wrapping(s - 1)

LooksFull(pos, h) == Wrapping(pos - h) >= Capacity

(* channel *)
RingInit ==
  /\ seq = [s \in Slots |-> StartingSeq(s)]
  /\ value = [s \in Slots |-> Nothing]
  /\ sharedHead = 0
  /\ position = 0
  /\ cachedHead = 0
  /\ reading = 0
  /\ ppc = "idle"
  /\ cpc = "idle"
  /\ item = Nothing
  /\ popping = Nothing
  /\ pushed = "Ok"
  /\ popped = Nothing

(***************************************************************************)
(* Producer::push                                                          *)
(***************************************************************************)
PushCall(v) ==
  /\ ppc = "idle"
  /\ item' = v
  /\ ppc' = IF LooksFull(position, cachedHead) THEN "load" ELSE "write"
  /\ UNCHANGED <<seq, value, sharedHead, position, cachedHead, pushed, consumerVars>>

PushLoadHead ==
  /\ ppc = "load"
  /\ cachedHead' = sharedHead
  /\ IF LooksFull(position, sharedHead)
       THEN ppc' = "idle" /\ item' = Nothing /\ pushed' = "Full"
       ELSE ppc' = "write" /\ UNCHANGED <<item, pushed>>
  /\ UNCHANGED <<seq, value, sharedHead, position, consumerVars>>

PushWrite ==
  /\ ppc = "write"
  /\ value' = [value EXCEPT ![Slot(position)] = item]
  /\ ppc' = "publish"
  /\ UNCHANGED <<seq, sharedHead, position, cachedHead, item, pushed, consumerVars>>

PushPublish ==
  /\ ppc = "publish"
  /\ seq' = [seq EXCEPT ![Slot(position)] = Wrapping(position + 1)]
  /\ position' = Wrapping(position + 1)
  /\ ppc' = "idle"
  /\ item' = Nothing
  /\ pushed' = "Ok"
  /\ UNCHANGED <<value, sharedHead, cachedHead, consumerVars>>

(***************************************************************************)
(* Consumer::pop                                                           *)
(***************************************************************************)
PopLoadSeq ==
  /\ cpc = "idle"
  /\ IF seq[Slot(reading)] = Wrapping(reading + 1)
       THEN cpc' = "read" /\ UNCHANGED popped
       ELSE popped' = Nothing /\ UNCHANGED cpc
  /\ UNCHANGED <<seq, value, sharedHead, reading, popping, producerVars>>

PopRead ==
  /\ cpc = "read"
  /\ popping' = value[Slot(reading)]
  /\ cpc' = "free"
  /\ UNCHANGED <<seq, value, sharedHead, reading, popped, producerVars>>

PopFree ==
  /\ cpc = "free"
  /\ sharedHead' = Wrapping(reading + 1)
  /\ reading' = Wrapping(reading + 1)
  /\ cpc' = "idle"
  /\ popped' = popping
  /\ popping' = Nothing
  /\ UNCHANGED <<seq, value, producerVars>>

RingNext ==
  \/ (\E v \in Values : PushCall(v)) \/ PushLoadHead \/ PushWrite \/ PushPublish
  \/ PopLoadSeq \/ PopRead \/ PopFree

(* Both threads keep running: a push that was begun goes on, and the       *)
(* consumer keeps calling pop.                                             *)
Pushing == PushLoadHead \/ PushWrite \/ PushPublish

Popping == PopLoadSeq \/ PopRead \/ PopFree

RingSpec ==
  RingInit /\ [][RingNext]_ringVars /\ WF_ringVars(Pushing) /\ WF_ringVars(Popping)

-----------------------------------------------------------------------------
(***************************************************************************)
(* Properties.                                                             *)
(***************************************************************************)
Positions == 0 .. Wrap - 1

RingTypeOK ==
  /\ seq \in [Slots -> Positions]
  /\ value \in [Slots -> Values \cup {Nothing}]
  /\ sharedHead \in Positions
  /\ position \in Positions
  /\ cachedHead \in Positions
  /\ reading \in Positions
  /\ ppc \in {"idle", "load", "write", "publish"}
  /\ cpc \in {"idle", "read", "free"}
  /\ item \in Values \cup {Nothing}
  /\ popping \in Values \cup {Nothing}
  /\ pushed \in {"Ok", "Full"}
  /\ popped \in Values \cup {Nothing}

(* The SAFETY comments of push and pop: the producer never writes the slot *)
(* the consumer may be reading.  Their accesses to a slot's value are      *)
(* ordered by `seq` and `head` alone.                                      *)
NoSlotRace ==
  ~(ppc = "write" /\ cpc \in {"read", "free"} /\ Slot(position) = Slot(reading))

(* The elements published and not yet freed. *)
Queue == [k \in 1 .. Wrapping(position - reading) |-> value[Slot(reading + k - 1)]]

(* The ring is a bounded queue: what is pushed is popped once, in order    *)
(* and whole, through any number of wrap-arounds of the slots and of the   *)
(* counters; push is refused only when the ring really is full, although   *)
(* it decides by a cached head, and pop finds nothing only when it is      *)
(* empty.  (ring.rs: "full" is always exact.)                              *)
Abstract == INSTANCE Fifo WITH queue <- Queue

ImplementsFifo == Abstract!Spec

(* What is pushed is popped, as long as the consumer keeps calling pop: no *)
(* published slot is ever overlooked.  While there is one, the oldest is   *)
(* being freed sooner or later, and by the property above it is the one    *)
(* that was pushed first.                                                  *)
PushedIsPopped == (Queue # <<>>) ~> (cpc = "free")

=============================================================================
