---------------------------- MODULE TokenBucket ----------------------------
(***************************************************************************)
(* bowst-venue: the request budget of the snapshot thread.  TokenBucket    *)
(* (ratelimit.rs) and its use by SnapshotWorker (binance/md.rs): take the  *)
(* weight of a request, or sleep for the time try_take asks for; send the  *)
(* request; lower the balance to what the venue says is left; pause when   *)
(* the venue says so.                                                      *)
(*                                                                         *)
(* Time is counted in ticks.  Tokens are scaled by the window, as in the   *)
(* code, so a tick adds BucketCapacity of them.  The integers are wide     *)
(* enough in the code for no saturation to happen.                         *)
(***************************************************************************)
EXTENDS Integers

CONSTANTS
  BucketCapacity,   \* weight_per_minute
  Window,           \* the minute, in ticks
  Weights,          \* the values of depth_weight
  MaxRetryAfter,    \* bound on Retry-After
  MaxTime           \* bound on the clock

ASSUME BucketAssumption ==
  /\ {BucketCapacity, MaxRetryAfter, MaxTime} \subseteq Nat /\ Weights \subseteq Nat
  /\ Window \in Nat \ {0}

VARIABLES
  weight,     \* depth_weight of the configured limit
  clock,      \* now()
  scaled,     \* TokenBucket::scaled
  last,       \* TokenBucket::last
  worker,     \* "ready", "sleeping" or "fetching"
  wakeAt,     \* when the sleep ends
  slept,      \* the worker has slept for this request already
  asked,      \* the `now` that fetch was called with
  spentSince  \* spentSince[t]: the weight taken from the bucket at time t and later

bucketVars == <<weight, clock, scaled, last, worker, wakeAt, slept, asked, spentSince>>

Full == BucketCapacity * Window

Least(a, b) == IF a < b THEN a ELSE b

BucketInit ==
  /\ weight \in Weights
  /\ clock = 0
  /\ scaled = Full
  /\ last = 0
  /\ worker = "ready"
  /\ wakeAt = 0
  /\ slept = FALSE
  /\ asked = 0
  /\ spentSince = [t \in 0 .. MaxTime |-> 0]

\* Mutant: the balance is not capped.
RefilledBeyondFull(t) == scaled + (t - last) * BucketCapacity

\* TokenBucket::refill at time t: the balance
Refilled(t) == Least(scaled + (t - last) * BucketCapacity, Full)

Needed == weight * Window

\* Mutant: the wait is rounded down.
WaitRoundedDown == (Needed - Refilled(clock)) \div BucketCapacity

\* TokenBucket::try_take: until the missing tokens have accrued, rounded up
Wait == (Needed - Refilled(clock) + BucketCapacity - 1) \div BucketCapacity

Tick ==
  /\ clock < MaxTime
  /\ clock' = clock + 1
  /\ UNCHANGED <<weight, scaled, last, worker, wakeAt, slept, asked, spentSince>>

Wake ==
  /\ worker = "sleeping" /\ clock >= wakeAt
  /\ worker' = "ready"
  /\ UNCHANGED <<weight, clock, scaled, last, wakeAt, slept, asked, spentSince>>

\* try_take succeeds; or it can never succeed, and wait_for_budget goes on without.
Take ==
  /\ worker = "ready"
  /\ IF weight > BucketCapacity
     THEN UNCHANGED <<scaled, last, spentSince>>
     ELSE /\ Refilled(clock) >= Needed
          /\ scaled' = Refilled(clock) - Needed
          /\ last' = clock
          /\ spentSince' = [t \in 0 .. MaxTime |-> spentSince[t] + (IF t <= clock THEN weight ELSE 0)]
  /\ worker' = "fetching"
  /\ slept' = FALSE
  /\ asked' = clock
  /\ UNCHANGED <<weight, clock, wakeAt>>

\* try_take asks to wait, and wait_for_budget sleeps.
TakeLater ==
  /\ worker = "ready"
  /\ weight <= BucketCapacity /\ Refilled(clock) < Needed
  /\ scaled' = Refilled(clock)
  /\ last' = clock
  /\ worker' = "sleeping"
  /\ wakeAt' = clock + Wait
  /\ slept' = TRUE
  /\ UNCHANGED <<weight, clock, asked, spentSince>>

\* TokenBucket::observe_used with the venue's count, which fetch calls at the time from
\* before the request.  A response without a count is one with 0.
ObserveUsed(used) ==
  /\ scaled' = Least(Refilled(asked), (BucketCapacity - Least(used, BucketCapacity)) * Window)
  /\ last' = asked

\* fetch has an answer, with a snapshot or without.
Answered(used) ==
  /\ worker = "fetching"
  /\ ObserveUsed(used)
  /\ worker' = "ready"
  /\ UNCHANGED <<weight, clock, wakeAt, slept, asked, spentSince>>

\* The venue refuses with 418 or 429: the worker pauses before the next request.
RefusedFor(used, retryAfter) ==
  /\ worker = "fetching"
  /\ ObserveUsed(used)
  /\ worker' = "sleeping"
  /\ wakeAt' = clock + retryAfter
  /\ UNCHANGED <<weight, clock, slept, asked, spentSince>>

\* The request fails without an answer.
NoAnswer ==
  /\ worker = "fetching"
  /\ worker' = "ready"
  /\ UNCHANGED <<weight, clock, scaled, last, wakeAt, slept, asked, spentSince>>

BucketNext ==
  \/ Tick \/ Wake \/ Take \/ TakeLater \/ NoAnswer
  \/ \E used \in 0 .. BucketCapacity + 1 :
       \/ Answered(used)
       \/ \E retryAfter \in 0 .. MaxRetryAfter : RefusedFor(used, retryAfter)

BucketSpec == BucketInit /\ [][BucketNext]_bucketVars

-----------------------------------------------------------------------------

\* The weight taken in any span of time, whenever it began and now that it ends, is at
\* most one full bucket and what accrues in the span.  That is twice the capacity in a window, not "capacity tokens per window":
\* a bucket spent at once refills while its requests still count (ratelimit.rs:22-60).
\* A weight above the capacity is not taken but sent anyway (md.rs:893-899).
BudgetIsKept ==
  \A from \in 0 .. clock : spentSince[from] * Window <= Full + (clock - from) * BucketCapacity

\* The wait that try_take asks for is enough: the worker sleeps at most once before a
\* request, although wait_for_budget is a loop (md.rs:892-901).
OneSleepIsEnough ==
  worker = "ready" /\ slept => Refilled(clock) >= Needed

=============================================================================
