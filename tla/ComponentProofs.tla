-------------------------- MODULE ComponentProofs --------------------------
(***************************************************************************)
(* Proofs about the small components of the session and of the tool, for   *)
(* every value of their constants: the request budget (TokenBucket), the   *)
(* reconnect delays (Backoff), the threads of bowst-md (MdTool), the       *)
(* decoders of depth messages (DepthDecoder), the requests for snapshots   *)
(* (Http) and the WebSocket connection (WsClient).                         *)
(***************************************************************************)
EXTENDS TokenBucket, Backoff, MdTool, DepthDecoder, Http, WsClient, NatLemmas, FiniteSetTheorems,
        TLAPS

-----------------------------------------------------------------------------
(***************************************************************************)
(* TokenBucket: the weight taken stays within the budget, and a worker     *)
(* that has slept for its request never sleeps for it again.               *)
(***************************************************************************)

(***************************************************************************)
(* The inductive invariant.                                                *)
(***************************************************************************)
BucketType ==
  /\ weight \in Weights
  /\ clock \in 0 .. MaxTime
  /\ scaled \in 0 .. Full
  /\ last \in Nat
  /\ worker \in {"ready", "sleeping", "fetching"}
  /\ wakeAt \in Nat
  /\ slept \in BOOLEAN
  /\ asked \in Nat
  /\ spentSince \in [0 .. MaxTime -> Nat]

(* The bucket was last refilled before the request in flight was sent, and *)
(* that before now; nothing is taken ahead of time.                        *)
TimesAreOrdered ==
  /\ last <= clock
  /\ worker = "fetching" => last <= asked /\ asked <= clock
  /\ \A t \in 0 .. MaxTime : t > clock => spentSince[t] = 0

(* What was taken since any time, together with what may be taken now.     *)
BalanceIsCovered ==
  \A from \in 0 .. clock :
    spentSince[from] * Window + Refilled(clock) <= Full + (clock - from) * BucketCapacity

(* A worker that sleeps for a request wakes when its tokens have accrued.  *)
SleepIsLongEnough ==
  slept => /\ weight <= BucketCapacity
           /\ worker \in {"ready", "sleeping"}
           /\ worker = "sleeping" => scaled + (wakeAt - last) * BucketCapacity >= Needed
           /\ worker = "ready" => scaled + (clock - last) * BucketCapacity >= Needed

BucketInv ==
  /\ BucketType
  /\ TimesAreOrdered
  /\ BalanceIsCovered
  /\ SleepIsLongEnough

-----------------------------------------------------------------------------
(***************************************************************************)
(* Arithmetic.                                                             *)
(***************************************************************************)

(* The constants, as the arithmetic below needs them. *)
LEMMA BucketConstants ==
  /\ BucketCapacity \in Nat /\ Window \in Nat /\ Window > 0 /\ MaxRetryAfter \in Nat
  /\ MaxTime \in Nat /\ Full \in Nat
  /\ \A w \in Weights : w \in Nat
<1>1. /\ BucketCapacity \in Nat /\ Window \in Nat /\ Window > 0 /\ MaxRetryAfter \in Nat
      /\ MaxTime \in Nat /\ \A w \in Weights : w \in Nat
  BY BucketAssumption
<1>2. \A m, n \in Nat : m * n \in Nat
  OBVIOUS
<1> QED BY <1>1, <1>2 DEF Full

(* A difference times the capacity. *)
LEMMA Accrues ==
  ASSUME NEW a \in Int, NEW b \in Int, NEW c \in Int, NEW d \in Nat
  PROVE  /\ (a - b) * d \in Int
         /\ (a - c) * d = (a - b) * d + (b - c) * d
         /\ a >= b => (a - b) * d >= 0
         /\ a >= b => (a - c) * d >= (b - c) * d
<1>1. \A x, y \in Int : x * y \in Int
  OBVIOUS
<1>2. \A x, y \in Int : (x + y) * d = x * d + y * d
  OBVIOUS
<1>3. a - c = (a - b) + (b - c)
  OBVIOUS
<1>4. (a - c) * d = (a - b) * d + (b - c) * d
  BY <1>2, <1>3
<1>5. \A x, y \in Nat : x * y >= 0
  OBVIOUS
<1>6. a >= b => (a - b) * d >= 0
  BY <1>5
<1> QED BY <1>1, <1>4, <1>6

(* More weight, scaled. *)
LEMMA ScaledWeight ==
  ASSUME NEW w \in Nat, NEW n \in Nat
  PROVE  /\ (n + w) * Window = n * Window + w * Window
         /\ n * Window \in Nat
         /\ w <= BucketCapacity => w * Window <= Full
<1>1. \A x, y, z \in Nat : (x + y) * z = x * z + y * z /\ x * z \in Nat
  OBVIOUS
<1>2. ASSUME w <= BucketCapacity PROVE w * Window <= BucketCapacity * Window
  <2>1. PICK e \in Nat : BucketCapacity = w + e
    <3>1. BucketCapacity - w \in Nat /\ BucketCapacity = w + (BucketCapacity - w)
      BY <1>2, BucketConstants
    <3> QED BY <3>1
  <2>2. BucketCapacity * Window = w * Window + e * Window /\ e * Window \in Nat
        /\ w * Window \in Nat
    BY <1>1, <2>1, BucketConstants
  <2> QED BY <2>2
<1> QED BY <1>1, <1>2, BucketConstants DEF Full

(* Rounding up reaches what is missing. *)
LEMMA RoundedUp ==
  ASSUME NEW m \in Nat, NEW d \in Nat \ {0}
  PROVE  /\ (m + d - 1) \div d \in Nat
         /\ ((m + d - 1) \div d) * d >= m
<1> DEFINE n == m + d - 1
           q == n \div d
<1>1. n \in Int /\ n >= 0
  OBVIOUS
<1>2. n % d \in 0 .. d - 1 /\ n = d * q + (n % d) /\ q \in Int
  BY <1>1, Division
<1>3. q * d >= m
  <2>1. q * d = d * q
    BY <1>2
  <2>2. d * q \in Int /\ n % d \in Int /\ n % d <= d - 1
    BY <1>2
  <2>3. d * q = n - (n % d)
    BY <1>1, <1>2, <2>2
  <2> HIDE DEF q
  <2> QED BY <2>1, <2>2, <2>3
<1>4. q >= 0
  <2>1. ASSUME q < 0 PROVE FALSE
    <3>1. d * q <= -d
      BY <1>2, <2>1
    <3>2. d * q \in Int /\ n % d \in Int
      BY <1>2
    <3> QED BY <1>1, <1>2, <3>1, <3>2
  <2> QED BY <1>2, <2>1
<1> QED BY <1>2, <1>3, <1>4

(* The balance is between nothing and a full bucket. *)
LEMMA RefilledFacts ==
  ASSUME BucketType, NEW t \in Int, last <= t
  PROVE  /\ (t - last) * BucketCapacity \in Nat
         /\ Refilled(t) \in 0 .. Full
         /\ Refilled(t) <= scaled + (t - last) * BucketCapacity
         /\ Refilled(t) = Full \/ Refilled(t) = scaled + (t - last) * BucketCapacity
<1>1. PICK e : e = (t - last) * BucketCapacity
  OBVIOUS
<1>2. last \in Int /\ BucketCapacity \in Nat
  BY BucketConstants DEF BucketType
<1>3. e \in Int /\ e >= 0
  BY <1>1, <1>2, Accrues
<1>4. scaled \in Int /\ scaled >= 0 /\ Full \in Nat
  BY BucketConstants DEF BucketType
<1>5. Refilled(t) = IF scaled + e < Full THEN scaled + e ELSE Full
  BY <1>1 DEF Refilled, Least
<1> QED BY <1>1, <1>3, <1>4, <1>5

-----------------------------------------------------------------------------
(***************************************************************************)
(* The invariant is inductive.                                             *)
(***************************************************************************)

(* A new bucket is full, and nothing was taken from it. *)
LEMMA InitBucketInv == BucketInit => BucketInv
<1> SUFFICES ASSUME BucketInit PROVE BucketInv
  OBVIOUS
<1>1. BucketType
  <2>1. /\ clock \in 0 .. MaxTime /\ scaled \in 0 .. Full /\ last \in Nat
        /\ wakeAt \in Nat /\ asked \in Nat
    BY BucketConstants DEF BucketInit
  <2>2. spentSince \in [0 .. MaxTime -> Nat]
    BY DEF BucketInit
  <2> QED BY <2>1, <2>2 DEF BucketInit, BucketType
<1>2. TimesAreOrdered /\ SleepIsLongEnough
  BY <1>1, BucketConstants DEF BucketInit, TimesAreOrdered, SleepIsLongEnough
<1>3. BalanceIsCovered
  <2> SUFFICES ASSUME NEW from \in 0 .. clock
               PROVE  spentSince[from] * Window + Refilled(clock)
                        <= Full + (clock - from) * BucketCapacity
    BY DEF BalanceIsCovered
  <2>1. from = 0 /\ clock = 0 /\ spentSince[from] = 0 /\ last = 0
    BY BucketConstants DEF BucketInit
  <2>2. Refilled(clock) \in 0 .. Full
    BY <1>1, <2>1, RefilledFacts
  <2>3. (clock - from) * BucketCapacity = 0 /\ spentSince[from] * Window = 0
    BY <2>1, BucketConstants
  <2> QED BY <2>2, <2>3, BucketConstants
<1> QED BY <1>1, <1>2, <1>3 DEF BucketInv

(* Time passes: at most what a tick adds accrues. *)
LEMMA TickBucketInv ==
  ASSUME BucketInv, Tick
  PROVE  BucketInv'
<1> USE DEF Tick
<1>1. BucketType'
  BY BucketConstants DEF BucketInv, BucketType
<1>2. last \in Int /\ clock \in Int /\ last <= clock /\ asked \in Int
  BY BucketConstants DEF BucketInv, BucketType, TimesAreOrdered
<1>3. TimesAreOrdered'
  BY <1>2 DEF BucketInv, TimesAreOrdered
<1>4. PICK t : t = clock + 1
  OBVIOUS
<1>5. t \in Int /\ last <= t /\ clock <= t /\ BucketCapacity \in Nat
  BY <1>2, <1>4, BucketConstants
<1>6. (t - last) * BucketCapacity = (t - clock) * BucketCapacity + (clock - last) * BucketCapacity
  BY <1>2, <1>5, Accrues
<1>7. (t - clock) * BucketCapacity = BucketCapacity
  BY <1>2, <1>4, BucketConstants
<1>8. BalanceIsCovered'
  <2> SUFFICES ASSUME NEW from \in 0 .. t
               PROVE  spentSince[from] * Window + Refilled(t)
                        <= Full + (t - from) * BucketCapacity
    <3>1. Refilled(clock)' = Refilled(t)
      BY <1>4 DEF Refilled
    <3> QED BY <1>4, <3>1 DEF BalanceIsCovered, Full
  <2>1. /\ Refilled(t) \in 0 .. Full
        /\ Refilled(t) <= scaled + (t - last) * BucketCapacity
    BY <1>5, RefilledFacts DEF BucketInv
  <2>2. CASE from = t
    <3>1. spentSince[from] = 0
      BY <1>1, <1>2, <1>4, <2>2 DEF BucketInv, TimesAreOrdered, BucketType
    <3>2. spentSince[from] * Window = 0 /\ (t - from) * BucketCapacity = 0
      BY <1>5, <2>2, <3>1, BucketConstants
    <3> QED BY <2>1, <3>2, BucketConstants
  <2>3. CASE from # t
    <3>1. from \in 0 .. clock /\ from \in Int
      BY <1>2, <1>4, <2>3
    <3>2. PICK s : s = spentSince[from] * Window
      OBVIOUS
    <3>3. PICK e : e = (clock - from) * BucketCapacity
      OBVIOUS
    <3>4. s \in Nat
      BY <1>2, <3>1, <3>2, ScaledWeight, BucketConstants DEF BucketInv, BucketType
    <3>5. e \in Int /\ (t - from) * BucketCapacity = BucketCapacity + e
      BY <1>2, <1>5, <1>7, <3>1, <3>3, Accrues
    <3>6. s + Refilled(clock) <= Full + e
      BY <3>1, <3>2, <3>3 DEF BucketInv, BalanceIsCovered
    <3>7. /\ Refilled(clock) \in 0 .. Full
          /\ (clock - last) * BucketCapacity \in Nat
          /\ \/ Refilled(clock) = Full
             \/ Refilled(clock) = scaled + (clock - last) * BucketCapacity
      BY <1>2, RefilledFacts DEF BucketInv
    <3>8. Refilled(t) <= Refilled(clock) + BucketCapacity
      <4>1. scaled \in Int /\ Full \in Int
        BY BucketConstants DEF BucketInv, BucketType
      <4> QED BY <1>5, <1>6, <1>7, <2>1, <3>7, <4>1
    <3>9. s + Refilled(t) <= Full + (BucketCapacity + e)
      BY <1>5, <2>1, <3>4, <3>5, <3>6, <3>7, <3>8, BucketConstants
    <3> QED BY <3>2, <3>5, <3>9
  <2> QED BY <2>2, <2>3
<1>9. SleepIsLongEnough'
  <2> SUFFICES ASSUME slept
               PROVE  /\ weight <= BucketCapacity
                      /\ worker \in {"ready", "sleeping"}
                      /\ worker = "sleeping" =>
                           scaled + (wakeAt - last) * BucketCapacity >= Needed
                      /\ worker = "ready" => scaled + (t - last) * BucketCapacity >= Needed
    BY <1>4 DEF SleepIsLongEnough, Needed
  <2>1. /\ (clock - last) * BucketCapacity \in Int /\ scaled \in Int
    BY <1>2, RefilledFacts, BucketConstants DEF BucketInv, BucketType
  <2>2. Needed \in Nat
    BY BucketConstants, ScaledWeight DEF BucketInv, BucketType, Needed
  <2> QED BY <1>5, <1>6, <1>7, <2>1, <2>2 DEF BucketInv, SleepIsLongEnough
<1> QED BY <1>1, <1>3, <1>8, <1>9 DEF BucketInv

(* A step that leaves the bucket alone keeps its balance. *)
LEMMA SameBalance ==
  ASSUME BucketInv, weight' = weight, clock' = clock, scaled' = scaled, last' = last,
         spentSince' = spentSince
  PROVE  BalanceIsCovered'
<1>1. Refilled(clock)' = Refilled(clock)
  BY DEF Refilled
<1> QED BY <1>1 DEF BucketInv, BalanceIsCovered, Full

(* The worker wakes, at its time or later. *)
LEMMA WakeBucketInv ==
  ASSUME BucketInv, Wake
  PROVE  BucketInv'
<1> USE DEF Wake
<1>1. BucketType'
  BY DEF BucketInv, BucketType
<1>2. TimesAreOrdered'
  BY DEF BucketInv, TimesAreOrdered
<1>3. BalanceIsCovered'
  BY SameBalance
<1>4. SleepIsLongEnough'
  <2> SUFFICES ASSUME slept
               PROVE  /\ weight <= BucketCapacity
                      /\ scaled + (clock - last) * BucketCapacity >= Needed
    BY DEF SleepIsLongEnough, Needed
  <2>1. /\ weight <= BucketCapacity
        /\ scaled + (wakeAt - last) * BucketCapacity >= Needed
    BY DEF BucketInv, SleepIsLongEnough
  <2>2. /\ clock \in Int /\ wakeAt \in Int /\ last \in Int /\ BucketCapacity \in Nat
        /\ scaled \in Int /\ clock >= wakeAt
    BY BucketConstants DEF BucketInv, BucketType
  <2>3. /\ (clock - last) * BucketCapacity >= (wakeAt - last) * BucketCapacity
        /\ (clock - last) * BucketCapacity \in Int
        /\ (wakeAt - last) * BucketCapacity \in Int
    BY <2>2, Accrues
  <2>4. Needed \in Nat
    BY BucketConstants, ScaledWeight DEF BucketInv, BucketType, Needed
  <2> QED BY <2>1, <2>2, <2>3, <2>4
<1> QED BY <1>1, <1>2, <1>3, <1>4 DEF BucketInv

(* A bucket that was refilled now has its balance. *)
LEMMA RefilledNow ==
  ASSUME BucketType, BucketType', clock' = clock, last' = clock
  PROVE  Refilled(clock)' = scaled'
<1>1. (clock - clock) * BucketCapacity = 0
  BY BucketConstants DEF BucketType
<1>2. Refilled(clock)' = Least(scaled' + (clock - clock) * BucketCapacity, Full)
  BY DEF Refilled, Full
<1>3. scaled' \in 0 .. Full /\ Full \in Nat
  BY BucketConstants DEF BucketType, Full
<1> QED BY <1>1, <1>2, <1>3 DEF Least

(* Taking the weight moves it from the balance to what was taken. *)
LEMMA TakeBucketInv ==
  ASSUME BucketInv, Take
  PROVE  BucketInv'
<1> USE DEF Take
<1>1. /\ clock \in 0 .. MaxTime /\ clock \in Nat /\ last <= clock /\ last \in Int
      /\ weight \in Nat /\ spentSince \in [0 .. MaxTime -> Nat] /\ MaxTime \in Nat
  BY BucketConstants DEF BucketInv, BucketType, TimesAreOrdered
<1>2. SleepIsLongEnough'
  BY DEF SleepIsLongEnough
<1>3. CASE weight > BucketCapacity
  <2>1. BucketType'
    BY <1>1, <1>3 DEF BucketInv, BucketType
  <2>2. TimesAreOrdered'
    BY <1>1, <1>3 DEF BucketInv, TimesAreOrdered
  <2>3. BalanceIsCovered'
    BY <1>3, SameBalance
  <2> QED BY <1>2, <2>1, <2>2, <2>3 DEF BucketInv
<1>4. CASE ~(weight > BucketCapacity)
  <2>1. /\ Refilled(clock) \in 0 .. Full /\ Full \in Nat
    BY <1>1, RefilledFacts, BucketConstants DEF BucketInv
  <2>2. Needed \in Nat /\ Needed = weight * Window
    BY <1>1, ScaledWeight DEF Needed
  <2>3. /\ Refilled(clock) >= Needed /\ scaled' = Refilled(clock) - Needed /\ last' = clock
        /\ spentSince' = [t \in 0 .. MaxTime |->
                            spentSince[t] + (IF t <= clock THEN weight ELSE 0)]
    BY <1>4
  <2>4. scaled' \in 0 .. Full
    BY <2>1, <2>2, <2>3
  <2>5. \A t \in 0 .. MaxTime :
          spentSince'[t] = IF t <= clock THEN spentSince[t] + weight ELSE spentSince[t]
    BY <1>1, <2>3
  <2>6. spentSince' \in [0 .. MaxTime -> Nat]
    BY <1>1, <2>3
  <2>7. BucketType'
    BY <1>1, <2>3, <2>4, <2>6 DEF BucketInv, BucketType, Full
  <2>8. TimesAreOrdered'
    BY <1>1, <2>3, <2>5 DEF BucketInv, TimesAreOrdered
  <2>9. Refilled(clock)' = Refilled(clock) - Needed
    <3>1. BucketType /\ clock' = clock
      BY DEF BucketInv
    <3> QED BY <2>3, <2>7, <3>1, RefilledNow
  <2>10. BalanceIsCovered'
    <3> SUFFICES ASSUME NEW from \in 0 .. clock
                 PROVE  spentSince'[from] * Window + (Refilled(clock) - Needed)
                          <= Full + (clock - from) * BucketCapacity
      BY <2>9 DEF BalanceIsCovered, Full
    <3>1. from \in 0 .. MaxTime /\ from <= clock /\ from \in Int /\ spentSince[from] \in Nat
      BY <1>1
    <3>2. /\ spentSince'[from] * Window = spentSince[from] * Window + Needed
          /\ spentSince[from] * Window \in Nat
      <4>1. spentSince'[from] = spentSince[from] + weight
        BY <2>5, <3>1
      <4> QED BY <1>1, <2>2, <3>1, <4>1, ScaledWeight
    <3>3. spentSince[from] * Window + Refilled(clock) <= Full + (clock - from) * BucketCapacity
      BY DEF BucketInv, BalanceIsCovered
    <3>4. (clock - from) * BucketCapacity \in Int
      BY <1>1, <3>1, Accrues, BucketConstants
    <3> QED BY <2>1, <2>2, <3>2, <3>3, <3>4
  <2> QED BY <1>2, <2>7, <2>8, <2>10 DEF BucketInv
<1> QED BY <1>3, <1>4

(* Asking too early refills the bucket, and the worker sleeps until what   *)
(* is missing has accrued.                                                 *)
LEMMA TakeLaterBucketInv ==
  ASSUME BucketInv, TakeLater
  PROVE  BucketInv'
<1> USE DEF TakeLater
<1>1. /\ clock \in 0 .. MaxTime /\ clock \in Nat /\ last <= clock /\ last \in Int
      /\ weight \in Nat /\ BucketCapacity \in Nat
  BY BucketConstants DEF BucketInv, BucketType, TimesAreOrdered
<1>2. Refilled(clock) \in 0 .. Full /\ Refilled(clock) \in Nat /\ Full \in Nat
  BY <1>1, RefilledFacts, BucketConstants DEF BucketInv
<1>3. Needed \in Nat /\ Refilled(clock) < Needed /\ weight <= BucketCapacity
  BY <1>1, ScaledWeight DEF Needed
<1>4. BucketCapacity \in Nat \ {0}
  <2>1. weight # 0
    <3>1. 0 * Window = 0
      BY BucketConstants
    <3> QED BY <1>2, <1>3, <3>1 DEF Needed
  <2> QED BY <1>1, <1>3, <2>1
<1>5. PICK m : m = Needed - Refilled(clock)
  OBVIOUS
<1>6. m \in Nat
  BY <1>2, <1>3, <1>5
<1>7. Wait = (m + BucketCapacity - 1) \div BucketCapacity
  BY <1>5 DEF Wait
<1>8. Wait \in Nat /\ Wait * BucketCapacity >= m
  BY <1>4, <1>6, <1>7, RoundedUp
<1>9. BucketType'
  BY <1>1, <1>2, <1>8 DEF BucketInv, BucketType, Full
<1>10. TimesAreOrdered'
  BY <1>1 DEF BucketInv, TimesAreOrdered
<1>11. BalanceIsCovered'
  <2>1. Refilled(clock)' = Refilled(clock)
    BY <1>9, RefilledNow DEF BucketInv
  <2> QED BY <2>1 DEF BucketInv, BalanceIsCovered, Full
<1>12. SleepIsLongEnough'
  <2>1. wakeAt' - last' = Wait
    BY <1>1, <1>8
  <2>2. Wait * BucketCapacity \in Int
    BY <1>1, <1>8
  <2>3. scaled' + Wait * BucketCapacity >= Needed
    BY <1>2, <1>3, <1>5, <1>8, <2>2
  <2>4. slept' /\ worker' = "sleeping" /\ weight' <= BucketCapacity
    BY <1>3
  <2>5. scaled' + (wakeAt' - last') * BucketCapacity >= Needed'
    BY <2>1, <2>3 DEF Needed
  <2> QED BY <2>4, <2>5 DEF SleepIsLongEnough
<1> QED BY <1>9, <1>10, <1>11, <1>12 DEF BucketInv

(* The venue's count only ever lowers the balance, although it is applied  *)
(* at the time from before the request.                                    *)
LEMMA AnsweredBucketInv ==
  ASSUME BucketInv, worker = "fetching", NEW used \in Nat, ObserveUsed(used),
         worker' \in {"ready", "sleeping"}, wakeAt' \in Nat,
         UNCHANGED <<weight, clock, slept, asked, spentSince>>
  PROVE  BucketInv'
<1> USE DEF ObserveUsed
<1>1. /\ clock \in Int /\ last \in Int /\ asked \in Nat /\ last <= asked /\ asked <= clock
      /\ BucketCapacity \in Nat /\ ~slept
  BY BucketConstants DEF BucketInv, BucketType, TimesAreOrdered, SleepIsLongEnough
<1>2. /\ Refilled(asked) \in 0 .. Full /\ Full \in Nat
      /\ Refilled(asked) <= scaled + (asked - last) * BucketCapacity
      /\ (asked - last) * BucketCapacity \in Nat
  BY <1>1, RefilledFacts, BucketConstants DEF BucketInv
<1>3. scaled' \in 0 .. Full /\ scaled' <= Refilled(asked)
  <2>1. PICK rest : rest = (BucketCapacity - Least(used, BucketCapacity)) * Window
    OBVIOUS
  <2>2. BucketCapacity - Least(used, BucketCapacity) \in Nat
    BY <1>1 DEF Least
  <2>3. rest \in Nat
    BY <2>1, <2>2, ScaledWeight
  <2>4. scaled' = Least(Refilled(asked), rest)
    BY <2>1
  <2> QED BY <1>2, <2>3, <2>4 DEF Least
<1>4. BucketType'
  BY <1>1, <1>3 DEF BucketInv, BucketType, Full
<1>5. TimesAreOrdered'
  BY <1>1 DEF BucketInv, TimesAreOrdered
<1>6. SleepIsLongEnough'
  BY <1>1 DEF SleepIsLongEnough
<1>7. Refilled(clock)' <= Refilled(clock) /\ Refilled(clock)' \in 0 .. Full
  <2>1. (clock - last) * BucketCapacity
          = (clock - asked) * BucketCapacity + (asked - last) * BucketCapacity
    BY <1>1, Accrues
  <2>2. PICK e : e = (clock - asked) * BucketCapacity
    OBVIOUS
  <2>3. e \in Int /\ e >= 0
    BY <1>1, <2>2, Accrues
  <2>4. Refilled(clock)' = Least(scaled' + e, Full)
    BY <2>2 DEF Refilled, Full
  <2>5. /\ Refilled(clock) \in 0 .. Full
        /\ \/ Refilled(clock) = Full
           \/ Refilled(clock) = scaled + (clock - last) * BucketCapacity
    BY <1>1, RefilledFacts DEF BucketInv
  <2>6. scaled \in Int
    BY BucketConstants DEF BucketInv, BucketType
  <2> QED BY <1>2, <1>3, <2>1, <2>2, <2>3, <2>4, <2>5, <2>6 DEF Least
<1>8. BalanceIsCovered'
  <2> SUFFICES ASSUME NEW from \in 0 .. clock
               PROVE  spentSince[from] * Window + Refilled(clock)'
                        <= Full + (clock - from) * BucketCapacity
    BY DEF BalanceIsCovered, Full
  <2>1. spentSince[from] * Window + Refilled(clock) <= Full + (clock - from) * BucketCapacity
    BY DEF BucketInv, BalanceIsCovered
  <2>2. spentSince[from] * Window \in Nat
    BY ScaledWeight, BucketConstants DEF BucketInv, BucketType
  <2>3. (clock - from) * BucketCapacity \in Int
    BY <1>1, Accrues
  <2>4. Refilled(clock) \in Int
    BY <1>1, RefilledFacts, BucketConstants DEF BucketInv, TimesAreOrdered
  <2> QED BY <1>2, <1>7, <2>1, <2>2, <2>3, <2>4
<1> QED BY <1>4, <1>5, <1>6, <1>8 DEF BucketInv

(* A request that fails without an answer leaves the bucket alone. *)
LEMMA NoAnswerBucketInv ==
  ASSUME BucketInv, NoAnswer
  PROVE  BucketInv'
<1> USE DEF NoAnswer
<1>1. BucketType' /\ TimesAreOrdered'
  BY DEF BucketInv, BucketType, TimesAreOrdered
<1>2. BalanceIsCovered'
  BY SameBalance
<1>3. SleepIsLongEnough'
  BY DEF BucketInv, SleepIsLongEnough
<1> QED BY <1>1, <1>2, <1>3 DEF BucketInv

(* Every step preserves the invariant. *)
LEMMA NextBucketInv == BucketInv /\ [BucketNext]_bucketVars => BucketInv'
<1> SUFFICES ASSUME BucketInv, [BucketNext]_bucketVars PROVE BucketInv'
  OBVIOUS
<1>1. CASE Tick
  BY <1>1, TickBucketInv
<1>2. CASE Wake
  BY <1>2, WakeBucketInv
<1>3. CASE Take
  BY <1>3, TakeBucketInv
<1>4. CASE TakeLater
  BY <1>4, TakeLaterBucketInv
<1>5. CASE NoAnswer
  BY <1>5, NoAnswerBucketInv
<1>6. ASSUME NEW used \in 0 .. BucketCapacity + 1, Answered(used) PROVE BucketInv'
  <2>1. used \in Nat /\ wakeAt' \in Nat
    BY <1>6, BucketConstants DEF Answered, BucketInv, BucketType
  <2> QED BY <1>6, <2>1, AnsweredBucketInv DEF Answered
<1>7. ASSUME NEW used \in 0 .. BucketCapacity + 1, NEW retryAfter \in 0 .. MaxRetryAfter,
             RefusedFor(used, retryAfter)
      PROVE  BucketInv'
  <2>1. used \in Nat /\ wakeAt' \in Nat
    BY <1>7, BucketConstants DEF RefusedFor, BucketInv, BucketType
  <2> QED BY <1>7, <2>1, AnsweredBucketInv DEF RefusedFor
<1>8. CASE UNCHANGED bucketVars
  <2> USE <1>8 DEF bucketVars
  <2>1. BucketType' /\ TimesAreOrdered'
    BY DEF BucketInv, BucketType, TimesAreOrdered, Full
  <2>2. BalanceIsCovered'
    BY SameBalance
  <2>3. SleepIsLongEnough'
    BY DEF BucketInv, SleepIsLongEnough, Needed
  <2> QED BY <2>1, <2>2, <2>3 DEF BucketInv
<1> QED BY <1>1, <1>2, <1>3, <1>4, <1>5, <1>6, <1>7, <1>8 DEF BucketNext

-----------------------------------------------------------------------------
(***************************************************************************)
(* The theorems.                                                           *)
(***************************************************************************)

(* The bucket and the snapshot thread that uses it keep the invariant. *)
THEOREM BucketInvariant == BucketSpec => []BucketInv
BY InitBucketInv, NextBucketInv, PTL DEF BucketSpec

(* TokenBucket::refill and try_take: the weight taken in any span of time  *)
(* is at most a full bucket and what accrues in the span, whatever the     *)
(* venue reports and however long it takes to answer.                      *)
THEOREM BucketBudgetIsKept == BucketSpec => []BudgetIsKept
<1>1. BucketInv => BudgetIsKept
  <2> SUFFICES ASSUME BucketInv, NEW from \in 0 .. clock
               PROVE  spentSince[from] * Window <= Full + (clock - from) * BucketCapacity
    BY DEF BudgetIsKept
  <2>1. clock \in Int /\ last <= clock /\ from \in 0 .. MaxTime /\ BucketCapacity \in Nat
    BY BucketConstants DEF BucketInv, BucketType, TimesAreOrdered
  <2>2. Refilled(clock) \in 0 .. Full /\ Full \in Nat
    BY <2>1, RefilledFacts, BucketConstants DEF BucketInv
  <2>3. spentSince[from] * Window \in Nat
    BY <2>1, ScaledWeight, BucketConstants DEF BucketInv, BucketType
  <2>4. (clock - from) * BucketCapacity \in Int
    BY <2>1, Accrues
  <2>5. spentSince[from] * Window + Refilled(clock) <= Full + (clock - from) * BucketCapacity
    BY DEF BucketInv, BalanceIsCovered
  <2> QED BY <2>2, <2>3, <2>4, <2>5
<1> QED BY <1>1, BucketInvariant, PTL

(* TokenBucket::try_take: the wait it asks for is long enough, so that the *)
(* loop of wait_for_budget goes round at most twice for a request.         *)
THEOREM BucketOneSleepIsEnough == BucketSpec => []OneSleepIsEnough
<1>1. BucketInv => OneSleepIsEnough
  <2> SUFFICES ASSUME BucketInv, worker = "ready", slept PROVE Refilled(clock) >= Needed
    BY DEF OneSleepIsEnough
  <2>1. clock \in Int /\ last <= clock /\ weight \in Nat
    BY BucketConstants DEF BucketInv, BucketType, TimesAreOrdered
  <2>2. /\ weight <= BucketCapacity
        /\ scaled + (clock - last) * BucketCapacity >= Needed
    BY DEF BucketInv, SleepIsLongEnough
  <2>3. Needed \in Nat /\ Needed <= Full
    BY <2>1, <2>2, ScaledWeight DEF Needed
  <2>4. \/ Refilled(clock) = Full
        \/ Refilled(clock) = scaled + (clock - last) * BucketCapacity
    BY <2>1, RefilledFacts DEF BucketInv
  <2> QED BY <2>2, <2>3, <2>4, BucketConstants
<1> QED BY <1>1, BucketInvariant, PTL

-----------------------------------------------------------------------------
(***************************************************************************)
(* Backoff: the delays slow down and stay within their limits, for any     *)
(* number of attempts and past the width of the shift.                     *)
(***************************************************************************)

(***************************************************************************)
(* The inductive invariant.  The delay that was taken last is between half *)
(* of the last attempt's step and all of it.                               *)
(***************************************************************************)
Half(n) == Step(n) \div 2

DelayIsOfTheLastAttempt ==
  IF attempt = 0 THEN delay = 0 /\ longest = 0
  ELSE longest = 2 * Half(attempt - 1) /\ delay \in Half(attempt - 1) .. longest

BackoffInv == attempt \in 0 .. 2 * ShiftBits /\ DelayIsOfTheLastAttempt

(* 1 << n is what repeated doubling gives. *)
LEMMA ShiftedDoubles ==
  /\ Shifted \in [Nat -> Nat]
  /\ Shifted[0] = 1
  /\ \A n \in Nat : Shifted[n + 1] = 2 * Shifted[n]
<1> DEFINE P(f) == f = [n \in Nat |-> IF n = 0 THEN 1 ELSE 2 * f[n - 1]]
<1>1. PICK G : G = [i \in Nat |-> [x \in Nat |-> 2 * x]]
  OBVIOUS
<1>2. G \in [Nat -> [Nat -> Nat]]
  BY <1>1
<1>3. 1 \in Nat
  OBVIOUS
<1>4. PICK f \in [Nat -> Nat] : Iterates(f, 1, G)
  BY <1>2, <1>3, Recursion
<1>5. f[0] = 1 /\ \A n \in Nat : f[n + 1] = 2 * f[n]
  BY <1>1, <1>4 DEF Iterates
<1>6. ASSUME NEW n \in Nat
      PROVE  f[n] = IF n = 0 THEN 1 ELSE 2 * f[n - 1]
  <2>1. CASE n = 0
    BY <1>5, <2>1
  <2>2. CASE n # 0
    <3>1. n - 1 \in Nat /\ (n - 1) + 1 = n
      BY <2>2
    <3> QED BY <1>5, <2>2, <3>1
  <2> QED BY <2>1, <2>2
<1>7. P(f)
  BY <1>6
<1>8. Shifted = CHOOSE g : P(g)
  BY DEF Shifted
<1>9. P(Shifted)
  BY <1>7, <1>8
<1>10. ASSUME NEW n \in Nat
       PROVE  Shifted[n] = IF n = 0 THEN 1 ELSE 2 * Shifted[n - 1]
  BY <1>9
<1> DEFINE S == {n \in Nat : Shifted[n] \in Nat}
<1> HIDE DEF P
<1>11. 0 \in S
  BY <1>10
<1>12. ASSUME NEW n \in Nat
       PROVE  Shifted[n + 1] = 2 * Shifted[n]
  <2>1. n + 1 \in Nat /\ n + 1 # 0 /\ (n + 1) - 1 = n
    OBVIOUS
  <2> QED BY <1>10, <2>1
<1>13. ASSUME NEW n \in Nat, n \in S
       PROVE  n + 1 \in S
  BY <1>12, <1>13
<1> HIDE DEF S
<1>14. \A n \in Nat : n \in S
  BY <1>11, <1>13, SetInduction
<1>15. \A n \in Nat : Shifted[n] \in Nat
  BY <1>14 DEF S
<1>16. Shifted = [n \in Nat |-> Shifted[n]]
  BY <1>9 DEF P
<1>17. Shifted \in [Nat -> Nat]
  BY <1>15, <1>16
<1> QED BY <1>10, <1>12, <1>17

(* It is never zero. *)
LEMMA ShiftedPositive == \A n \in Nat : Shifted[n] \in Nat \ {0}
<1> DEFINE S == {n \in Nat : Shifted[n] \in Nat \ {0}}
<1>1. 0 \in S
  BY ShiftedDoubles
<1>2. ASSUME NEW n \in Nat, n \in S
      PROVE  n + 1 \in S
  BY <1>2, ShiftedDoubles
<1> HIDE DEF S
<1>3. \A n \in Nat : n \in S
  BY <1>1, <1>2, SetInduction
<1> QED BY <1>3 DEF S

(* Past the width of the shift the factor stays at its largest value. *)
LEMMA FactorGrows ==
  ASSUME NEW n \in Nat
  PROVE  /\ Factor(n) \in Nat
         /\ Factor(n) <= Factor(n + 1)
         /\ ShiftBits # 0 => Factor(n) >= 1
<1>1. ShiftBits \in Nat
  BY BackoffAssumption
<1>2. /\ Shifted[n] \in Nat \ {0} /\ Shifted[n + 1] = 2 * Shifted[n]
      /\ Shifted[ShiftBits] \in Nat \ {0}
  BY <1>1, ShiftedDoubles, ShiftedPositive
<1>3. CASE n + 1 < ShiftBits
  BY <1>1, <1>2, <1>3 DEF Factor
<1>4. CASE n + 1 = ShiftBits
  BY <1>1, <1>2, <1>4 DEF Factor
<1>5. CASE n >= ShiftBits
  <2>1. ASSUME ShiftBits # 0 PROVE Shifted[ShiftBits] >= 2
    <3>1. ShiftBits - 1 \in Nat /\ ShiftBits = (ShiftBits - 1) + 1
      BY <1>1, <2>1
    <3>2. Shifted[ShiftBits - 1] \in Nat \ {0} /\ Shifted[ShiftBits] = 2 * Shifted[ShiftBits - 1]
      BY <3>1, ShiftedDoubles, ShiftedPositive
    <3> QED BY <3>2
  <2>2. Factor(n) = Shifted[ShiftBits] - 1 /\ Factor(n + 1) = Shifted[ShiftBits] - 1
    BY <1>1, <1>5 DEF Factor
  <2> QED BY <1>2, <2>1, <2>2
<1> QED BY <1>1, <1>3, <1>4, <1>5

(* A product grows with its factor. *)
LEMMA ProductGrows ==
  ASSUME NEW d \in Nat, NEW a \in Nat, NEW b \in Nat, a <= b
  PROVE  d * a \in Nat /\ d * a <= d * b
<1>1. PICK c \in Nat : b = a + c
  <2>1. b - a \in Nat /\ b = a + (b - a)
    OBVIOUS
  <2> QED BY <2>1
<1>2. \A x, y, z \in Nat : x * y \in Nat /\ x * (y + z) = x * y + x * z
  OBVIOUS
<1>3. d * a \in Nat /\ d * c \in Nat /\ d * b = d * a + d * c
  BY <1>1, <1>2
<1> QED BY <1>3

(* A step never shrinks, and from the first one on it lies between the     *)
(* initial delay and the limit.                                            *)
LEMMA StepGrows ==
  ASSUME NEW n \in Nat
  PROVE  /\ Step(n) \in Nat
         /\ Step(n) <= Step(n + 1)
         /\ Step(n) <= Most
         /\ ShiftBits # 0 => InitialDelay <= Step(n)
<1>1. InitialDelay \in Nat /\ Most \in Nat /\ InitialDelay <= Most
  BY BackoffAssumption DEF Most
<1>2. n + 1 \in Nat
  OBVIOUS
<1>3. /\ Factor(n) \in Nat /\ Factor(n + 1) \in Nat /\ Factor(n) <= Factor(n + 1)
      /\ ShiftBits # 0 => Factor(n) >= 1
  BY <1>2, FactorGrows
<1>4. PICK a : a = InitialDelay * Factor(n)
  OBVIOUS
<1>5. PICK b : b = InitialDelay * Factor(n + 1)
  OBVIOUS
<1>6. a \in Nat /\ a <= b
  BY <1>1, <1>3, <1>4, <1>5, ProductGrows
<1>7. b \in Nat
  BY <1>1, <1>3, <1>5, ProductGrows
<1>8. ASSUME ShiftBits # 0 PROVE InitialDelay <= a
  <2>1. InitialDelay * 1 <= InitialDelay * Factor(n)
    BY <1>1, <1>3, <1>8, ProductGrows
  <2> QED BY <1>1, <1>4, <2>1
<1>9. Step(n) = IF a < Most THEN a ELSE Most
  BY <1>4 DEF Step
<1>10. Step(n + 1) = IF b < Most THEN b ELSE Most
  BY <1>5 DEF Step
<1> QED BY <1>1, <1>6, <1>7, <1>8, <1>9, <1>10

(* Halves of steps, for the delays. *)
LEMMA HalfGrows ==
  ASSUME NEW n \in Nat
  PROVE  /\ Half(n) \in Nat
         /\ Half(n) <= Half(n + 1)
         /\ 2 * Half(n) <= Most
         /\ ShiftBits # 0 => InitialDelay \div 2 <= Half(n)
<1>1. n + 1 \in Nat
  OBVIOUS
<1>2. /\ Step(n) \in Nat /\ Step(n + 1) \in Nat /\ Step(n) <= Step(n + 1) /\ Step(n) <= Most
      /\ ShiftBits # 0 => InitialDelay <= Step(n)
  BY <1>1, StepGrows
<1>3. InitialDelay \in Nat /\ Most \in Nat
  BY BackoffAssumption DEF Most
<1>4. \A x \in Nat : x \div 2 \in Nat /\ 2 * (x \div 2) <= x
  OBVIOUS
<1>5. \A x, y \in Nat : x <= y => x \div 2 <= y \div 2
  OBVIOUS
<1>6. Half(n) \in Nat /\ 2 * Half(n) <= Step(n)
  BY <1>2, <1>4 DEF Half
<1>7. Half(n) <= Half(n + 1) /\ (ShiftBits # 0 => InitialDelay \div 2 <= Half(n))
  BY <1>2, <1>3, <1>5 DEF Half
<1> QED BY <1>2, <1>3, <1>6, <1>7

(* A fraction of a half is at most the half, the whole fraction is all of  *)
(* it, and none is nothing.                                                *)
LEMMA FractionOf ==
  ASSUME NEW h \in Nat, NEW r \in Nat, NEW d \in Nat \ {0}, r <= d
  PROVE  /\ (h * r) \div d \in 0 .. h
         /\ (h * d) \div d = h
         /\ (h * 0) \div d = 0
<1>1. PICK p : p = h * r
  OBVIOUS
<1>2. p \in Nat /\ p <= h * d /\ h * d \in Nat
  BY <1>1, ProductGrows
<1>3. ASSUME NEW q \in Nat, q <= h * d
      PROVE  q \div d \in 0 .. h
  <2>1. PICK k : k = q \div d
    OBVIOUS
  <2>2. PICK m : m = q % d
    OBVIOUS
  <2>3. k \in Int /\ m \in 0 .. d - 1 /\ q = d * k + m
    BY <2>1, <2>2, Division
  <2>4. ASSUME k < 0 PROVE FALSE
    <3>1. d * k <= -d
      BY <2>3, <2>4
    <3>2. d * k \in Int /\ m \in Int /\ m <= d - 1
      BY <2>3
    <3> QED BY <2>3, <3>1, <3>2
  <2>5. ASSUME k > h PROVE FALSE
    <3>1. PICK e \in Nat : k = h + 1 + e
      <4>1. k - h - 1 \in Nat /\ k = h + 1 + (k - h - 1)
        BY <2>3, <2>5
      <4> QED BY <4>1
    <3>2. d * k = h * d + d + d * e /\ d * e \in Nat
      BY <3>1
    <3> QED BY <1>2, <1>3, <2>3, <3>2
  <2> QED BY <2>1, <2>3, <2>4, <2>5
<1>4. p \div d \in 0 .. h
  BY <1>2, <1>3
<1>5. (h * d) \div d = h
  <2>0. PICK q : q = h * d
    OBVIOUS
  <2>1. PICK k : k = q \div d
    OBVIOUS
  <2>2. PICK m : m = q % d
    OBVIOUS
  <2>3. k \in Int /\ m \in 0 .. d - 1 /\ h * d = d * k + m
    <3>1. q \in Int
      BY <1>2, <2>0
    <3>2. k \in Int /\ m \in 0 .. d - 1 /\ q = d * k + m
      BY <3>1, <2>1, <2>2, Division
    <3> QED BY <2>0, <3>2
  <2>4. d * (h - k) = m
    <3>1. \A x, y, z \in Int : x * (y - z) = y * x - x * z
      OBVIOUS
    <3>2. d * (h - k) = h * d - d * k /\ d * k \in Int
      BY <2>3, <3>1
    <3> QED BY <1>2, <2>3, <3>2
  <2>5. h - k \in Int /\ d * (h - k) < d /\ -d < d * (h - k)
    BY <2>3, <2>4
  <2>6. h - k = 0
    <3>1. PICK e : e = h - k
      OBVIOUS
    <3>2. e = 0
      BY <2>5, <3>1, SmallMultiple
    <3> QED BY <3>1, <3>2
  <2> QED BY <2>0, <2>1, <2>3, <2>6
<1>6. (h * 0) \div d = 0
  <2>1. PICK k : k = 0 \div d
    OBVIOUS
  <2>2. PICK m : m = 0 % d
    OBVIOUS
  <2>3. k \in Int /\ m \in 0 .. d - 1 /\ 0 = d * k + m
    BY <2>1, <2>2, Division
  <2>4. d * k < d /\ -d < d * k
    <3>1. d * k = -m
      BY <2>3
    <3> QED BY <2>3, <3>1
  <2>5. k = 0
    BY <2>3, <2>4, SmallMultiple
  <2> QED BY <2>1, <2>5
<1> QED BY <1>1, <1>4, <1>5, <1>6

(* next_delay: between half of the step and all of it. *)
LEMMA DelayRange ==
  ASSUME attempt \in Nat, NEW random \in 0 .. RandomSteps
  PROVE  /\ NextDelay(random) \in Half(attempt) .. 2 * Half(attempt)
         /\ NextDelay(RandomSteps) = 2 * Half(attempt)
         /\ NextDelay(0) = Half(attempt)
<1>1. PICK h : h = Half(attempt)
  OBVIOUS
<1>2. h \in Nat
  BY <1>1, HalfGrows
<1>3. RandomSteps \in Nat \ {0}
  BY BackoffAssumption
<1>4. \A r : NextDelay(r) = h + (h * r) \div RandomSteps
  BY <1>1 DEF NextDelay, Half
<1>5. /\ (h * random) \div RandomSteps \in 0 .. h
      /\ (h * RandomSteps) \div RandomSteps = h
      /\ (h * 0) \div RandomSteps = 0
  BY <1>2, <1>3, FractionOf
<1>6. NextDelay(random) \in h .. 2 * h
  BY <1>2, <1>4, <1>5
<1>7. NextDelay(RandomSteps) = h + h /\ NextDelay(0) = h + 0
  BY <1>4, <1>5
<1> QED BY <1>1, <1>2, <1>6, <1>7

(* Every step keeps the invariant. *)
LEMMA BackoffStep ==
  ASSUME BackoffInv, [BackoffNext]_backoffVars
  PROVE  BackoffInv'
<1>1. ShiftBits \in Nat
  BY BackoffAssumption
<1>2. CASE HealthyConnection
  BY <1>1, <1>2 DEF HealthyConnection, BackoffInv, DelayIsOfTheLastAttempt
<1>3. ASSUME NEW random \in 0 .. RandomSteps, WaitBeforeReconnect(random)
      PROVE  BackoffInv'
  <2>1. attempt \in Nat /\ attempt < 2 * ShiftBits /\ attempt' = attempt + 1
        /\ delay' = NextDelay(random) /\ longest' = NextDelay(RandomSteps)
    BY <1>1, <1>3 DEF WaitBeforeReconnect, BackoffInv
  <2>2. /\ NextDelay(random) \in Half(attempt) .. 2 * Half(attempt)
        /\ NextDelay(RandomSteps) = 2 * Half(attempt)
    BY <2>1, DelayRange
  <2>3. attempt' # 0 /\ attempt' - 1 = attempt /\ attempt' \in 0 .. 2 * ShiftBits
    BY <1>1, <2>1
  <2>4. longest' = 2 * Half(attempt' - 1) /\ delay' \in Half(attempt' - 1) .. longest'
    BY <2>1, <2>2, <2>3
  <2> QED BY <2>3, <2>4 DEF BackoffInv, DelayIsOfTheLastAttempt, Half, Step, Factor
<1>4. CASE UNCHANGED backoffVars
  BY <1>4 DEF backoffVars, BackoffInv, DelayIsOfTheLastAttempt, Half, Step, Factor
<1> QED BY <1>2, <1>3, <1>4 DEF BackoffNext

(***************************************************************************)
(* The delay that was taken last belongs to the last attempt, whatever     *)
(* random fraction was drawn and however often a healthy connection has    *)
(* reset the attempts (backoff.rs: next_delay, reset).                     *)
(***************************************************************************)
THEOREM BackoffInvariant == BackoffSpec => []BackoffInv
<1>1. BackoffInit => BackoffInv
  <2>1. ShiftBits \in Nat
    BY BackoffAssumption
  <2> QED BY <2>1 DEF BackoffInit, BackoffInv, DelayIsOfTheLastAttempt
<1> QED BY <1>1, BackoffStep, PTL DEF BackoffSpec

(***************************************************************************)
(* DelaysSlowDown: the next delay may be as long as the last could have    *)
(* been and is at least half of that, within the limits of the backoff,    *)
(* for every number of attempts, also past the width of the shift          *)
(* (backoff.rs: next_delay).                                               *)
(***************************************************************************)
THEOREM BackoffDelaysSlowDown == BackoffSpec => []DelaysSlowDown
<1>1. BackoffInv => DelaysSlowDown
  <2> SUFFICES ASSUME BackoffInv PROVE DelaysSlowDown
    OBVIOUS
  <2>1. ShiftBits \in Nat /\ RandomSteps \in Nat \ {0} /\ Most \in Nat /\ InitialDelay \in Nat
    BY BackoffAssumption DEF Most
  <2>2. attempt \in 0 .. 2 * ShiftBits /\ attempt \in Nat
    BY <2>1 DEF BackoffInv
  <2>3. 0 \in 0 .. RandomSteps
    BY <2>1
  <2>4. NextDelay(RandomSteps) = 2 * Half(attempt) /\ NextDelay(0) = Half(attempt)
    BY <2>2, <2>3, DelayRange
  <2>5. Half(attempt) \in Nat
    BY <2>2, HalfGrows
  <2>6. CASE attempt = 0
    <3>1. longest = 0
      BY <2>6 DEF BackoffInv, DelayIsOfTheLastAttempt
    <3> QED BY <2>4, <2>5, <2>6, <3>1 DEF DelaysSlowDown
  <2>7. CASE attempt # 0
    <3>1. PICK m : m = attempt - 1
      OBVIOUS
    <3>2. m \in Nat /\ attempt = m + 1 /\ ShiftBits # 0
      BY <2>1, <2>2, <2>7, <3>1
    <3>3. longest = 2 * Half(m) /\ delay \in Half(m) .. longest
      BY <2>7, <3>1 DEF BackoffInv, DelayIsOfTheLastAttempt
    <3>4. /\ Half(m) \in Nat /\ Half(m) <= Half(attempt) /\ 2 * Half(m) <= Most
          /\ InitialDelay \div 2 <= Half(m)
      BY <3>2, HalfGrows
    <3>5. InitialDelay \div 2 \in Int
      BY <2>1
    <3>6. /\ NextDelay(RandomSteps) >= longest /\ 2 * NextDelay(0) >= longest
          /\ InitialDelay \div 2 <= delay /\ delay <= longest /\ longest <= Most
      BY <2>1, <2>4, <2>5, <3>3, <3>4, <3>5
    <3> QED BY <3>6 DEF DelaysSlowDown
  <2> QED BY <2>6, <2>7
<1> QED BY <1>1, BackoffInvariant, PTL

-----------------------------------------------------------------------------
(***************************************************************************)
(* MdTool: the tool reports success only when every instrument was live,   *)
(* and joins its threads before it ends.                                   *)
(***************************************************************************)

(***************************************************************************)
(* The inductive invariant.                                                *)
(***************************************************************************)

(* What the board shows live was reported live, and what watch has seen    *)
(* live was on the board.                                                  *)
BoardIsReported ==
  /\ DOMAIN boardLive \subseteq Configured
  /\ Sample \subseteq reportedLive
  /\ everLive \subseteq reportedLive
  /\ reportedLive \subseteq Configured

(* The session runs only while main watches it or waits for it. *)
SessionIsJoined ==
  /\ main \in {"setup", "session"} => md = "unborn"
  /\ md = "running" => main \in {"watch", "join"}

(* The metrics thread is started once, and main ends after it. *)
MetricsAreJoined ==
  /\ main = "setup" => metrics = "none"
  /\ main = "exited" => metrics \in {"none", "done"}

(* A success is found once nothing can change what it was found from. *)
SuccessIsFinal ==
  exitCode = "success" =>
    /\ main \in {"drop", "join metrics", "exited"}
    /\ reportedLive = Configured /\ mismatched = FALSE

ToolInv ==
  /\ BoardIsReported
  /\ SessionIsJoined
  /\ MetricsAreJoined
  /\ SuccessIsFinal

-----------------------------------------------------------------------------

(* Before the tool has done anything. *)
LEMMA InitToolInv == ToolInit => ToolInv
<1> SUFFICES ASSUME ToolInit PROVE ToolInv
  OBVIOUS
<1>1. DOMAIN boardLive = {}
  BY DEF ToolInit
<1>2. BoardIsReported
  BY <1>1 DEF ToolInit, BoardIsReported, Sample
<1>3. SessionIsJoined /\ MetricsAreJoined /\ SuccessIsFinal
  BY DEF ToolInit, SessionIsJoined, MetricsAreJoined, SuccessIsFinal
<1> QED BY <1>2, <1>3 DEF ToolInv

(* As many instruments as are configured were seen live, so all were. *)
LEMMA AllWereLive ==
  ASSUME BoardIsReported, Cardinality(everLive) = Cardinality(Configured)
  PROVE  reportedLive = Configured
<1>1. everLive \subseteq Configured
  BY DEF BoardIsReported
<1>2. everLive = Configured
  BY <1>1, ToolAssumption, FS_Subset
<1> QED BY <1>2 DEF BoardIsReported

(* A step of main. *)
LEMMA MainToolInv ==
  ASSUME ToolInv, Main
  PROVE  ToolInv'
<1>1. boardLive' = boardLive /\ reportedLive' = reportedLive /\ mismatched' = mismatched
  BY DEF Main, StartMetrics, SetupFails, SpawnSession, Watch, Ending, WatchEnds, JoinSession,
         FinishJournal, Judge, DropMetrics, JoinMetrics, mdVars
<1>2. everLive' \subseteq everLive \cup Sample
  BY DEF Main, StartMetrics, SetupFails, SpawnSession, Watch, Ending, WatchEnds, JoinSession,
         FinishJournal, Judge, DropMetrics, JoinMetrics
<1>3. BoardIsReported'
  <2>1. Sample' = Sample
    BY <1>1 DEF Sample
  <2> QED BY <1>1, <1>2, <2>1 DEF ToolInv, BoardIsReported
<1>4. SessionIsJoined'
  BY DEF ToolInv, SessionIsJoined, Main, StartMetrics, SetupFails, SpawnSession, Watch, Ending,
         WatchEnds, JoinSession, FinishJournal, Judge, DropMetrics, JoinMetrics, mdVars
<1>5. MetricsAreJoined'
  BY DEF ToolInv, MetricsAreJoined, Main, StartMetrics, SetupFails, SpawnSession, Watch, Ending,
         WatchEnds, JoinSession, FinishJournal, Judge, DropMetrics, JoinMetrics, metricsVars
<1>6. SuccessIsFinal'
  <2>1. CASE Judge
    <3> SUFFICES ASSUME exitCode' = "success"
                 PROVE  reportedLive = Configured /\ mismatched = FALSE
      BY <1>1, <2>1 DEF SuccessIsFinal, Judge
    <3>1. ~mismatched /\ Cardinality(everLive) = Cardinality(Configured)
      BY <2>1 DEF Judge
    <3> QED BY <3>1, AllWereLive DEF ToolInv
  <2>2. CASE ~Judge
    <3>1. exitCode' = "success" => exitCode = "success"
      BY <2>2 DEF Main, StartMetrics, SetupFails, SpawnSession, Watch, Ending, WatchEnds,
                  JoinSession, FinishJournal, DropMetrics, JoinMetrics
    <3>2. main \in {"drop", "join metrics", "exited"} =>
            main' \in {"drop", "join metrics", "exited"}
      BY <2>2 DEF Main, StartMetrics, SetupFails, SpawnSession, Watch, Ending, WatchEnds,
                  JoinSession, FinishJournal, DropMetrics, JoinMetrics
    <3> QED BY <1>1, <3>1, <3>2 DEF ToolInv, SuccessIsFinal
  <2> QED BY <2>1, <2>2
<1> QED BY <1>3, <1>4, <1>5, <1>6 DEF ToolInv

(* A step of the market-data thread, which runs only before a success is   *)
(* found.                                                                  *)
LEMMA SessionToolInv ==
  ASSUME ToolInv,
         \/ \E i \in Configured : InstrumentLive(i) \/ InstrumentDown(i)
         \/ Disconnected \/ SessionEnds
  PROVE  ToolInv'
<1> USE DEF InstrumentLive, InstrumentDown, Disconnected, SessionEnds
<1>1. /\ md = "running" /\ main' = main /\ exitCode' = exitCode /\ everLive' = everLive
      /\ metrics' = metrics
  BY DEF metricsVars
<1>2. main \in {"watch", "join"} /\ exitCode # "success"
  BY <1>1 DEF ToolInv, SessionIsJoined, SuccessIsFinal
<1>3. SessionIsJoined' /\ MetricsAreJoined' /\ SuccessIsFinal'
  BY <1>1, <1>2 DEF SessionIsJoined, MetricsAreJoined, SuccessIsFinal
<1>4. BoardIsReported'
  <2>1. ASSUME NEW i \in Configured, NEW isLive, boardLive' = Put(i, isLive),
               reportedLive' = reportedLive \/ reportedLive' = reportedLive \cup {i},
               isLive = TRUE => i \in reportedLive', isLive \in BOOLEAN
        PROVE  BoardIsReported'
    <3>1. DOMAIN boardLive' = DOMAIN boardLive \cup {i}
      BY <2>1 DEF Put
    <3>2. \A j \in DOMAIN boardLive' : boardLive'[j] = IF j = i THEN isLive ELSE boardLive[j]
      BY <2>1 DEF Put
    <3>3. Sample' \subseteq reportedLive'
      <4> SUFFICES ASSUME NEW j \in DOMAIN boardLive', boardLive'[j] PROVE j \in reportedLive'
        BY DEF Sample
      <4>1. CASE j = i
        BY <2>1, <3>2, <4>1
      <4>2. CASE j # i
        BY <2>1, <3>1, <3>2, <4>2 DEF ToolInv, BoardIsReported, Sample
      <4> QED BY <4>1, <4>2
    <3> QED BY <1>1, <2>1, <3>1, <3>3 DEF ToolInv, BoardIsReported
  <2>2. ASSUME NEW i \in Configured, InstrumentLive(i) PROVE BoardIsReported'
    BY <2>1, <2>2
  <2>3. ASSUME NEW i \in Configured, InstrumentDown(i) PROVE BoardIsReported'
    BY <2>1, <2>3
  <2>4. CASE Disconnected
    <3>1. /\ DOMAIN boardLive' = DOMAIN boardLive /\ reportedLive' = reportedLive
          /\ \A j \in DOMAIN boardLive' : ~boardLive'[j]
      BY <2>4
    <3>2. Sample' = {}
      BY <3>1 DEF Sample
    <3> QED BY <1>1, <3>1, <3>2 DEF ToolInv, BoardIsReported
  <2>5. CASE SessionEnds
    <3>1. boardLive' = boardLive /\ reportedLive' = reportedLive /\ Sample' = Sample
      BY <2>5 DEF Sample
    <3> QED BY <1>1, <3>1 DEF ToolInv, BoardIsReported
  <2> QED BY <2>2, <2>3, <2>4, <2>5
<1> QED BY <1>3, <1>4 DEF ToolInv

(* A step of the metrics thread, which is neither unborn nor over. *)
LEMMA MetricsToolInv ==
  ASSUME ToolInv, Metrics
  PROVE  ToolInv'
<1>1. /\ main' = main /\ exitCode' = exitCode /\ everLive' = everLive /\ md' = md
      /\ boardLive' = boardLive /\ reportedLive' = reportedLive /\ mismatched' = mismatched
  BY DEF Metrics, Serve, ReadHead, Respond, Drain, ExchangeFails, Others, mdVars
<1>2. metrics \notin {"none", "done"}
  BY DEF Metrics, Serve, ReadHead, Respond, Drain, ExchangeFails
<1>3. BoardIsReported'
  <2>1. Sample' = Sample
    BY <1>1 DEF Sample
  <2> QED BY <1>1, <2>1 DEF ToolInv, BoardIsReported
<1>4. SessionIsJoined' /\ MetricsAreJoined' /\ SuccessIsFinal'
  BY <1>1, <1>2 DEF ToolInv, SessionIsJoined, MetricsAreJoined, SuccessIsFinal
<1> QED BY <1>3, <1>4 DEF ToolInv

(* Every step preserves the invariant. *)
LEMMA NextToolInv == ToolInv /\ [ToolNext]_toolVars => ToolInv'
<1> SUFFICES ASSUME ToolInv, [ToolNext]_toolVars PROVE ToolInv'
  OBVIOUS
<1>1. CASE Main
  BY <1>1, MainToolInv
<1>2. CASE \/ \E i \in Configured : InstrumentLive(i) \/ InstrumentDown(i)
           \/ Disconnected \/ SessionEnds
  BY <1>2, SessionToolInv
<1>3. CASE Metrics
  BY <1>3, MetricsToolInv
<1>4. CASE UNCHANGED toolVars
  <2>1. Sample' = Sample
    BY <1>4 DEF toolVars, mdVars, Sample
  <2> QED BY <1>4, <2>1 DEF toolVars, mdVars, metricsVars, ToolInv, BoardIsReported,
                            SessionIsJoined, MetricsAreJoined, SuccessIsFinal
<1> QED BY <1>1, <1>2, <1>3, <1>4 DEF ToolNext

(* The threads of the tool keep the invariant. *)
THEOREM ToolInvariant == ToolSpec => []ToolInv
BY InitToolInv, NextToolInv, PTL DEF ToolSpec

(* main: the exit code is a success only if every configured instrument    *)
(* was reported live and no verification failed, and main ends after both  *)
(* of its threads.                                                         *)
THEOREM ToolSuccessIsEarned == ToolSpec => []SuccessIsEarned
<1>1. ToolInv => SuccessIsEarned
  BY DEF ToolInv, SessionIsJoined, MetricsAreJoined, SuccessIsFinal, SuccessIsEarned
<1> QED BY <1>1, ToolInvariant, PTL

-----------------------------------------------------------------------------
(***************************************************************************)
(* DepthDecoder: a message means the same whatever the order of its        *)
(* fields.                                                                 *)
(***************************************************************************)

(***************************************************************************)
(* The inductive invariant.  Until the message ends, the decoder's fields  *)
(* are what the message has said so far, side by side with what it put     *)
(* off.                                                                    *)
(***************************************************************************)
Keys == UpdateKeys \cup SnapshotKeys

RawLevels == [price : Int, qty : Int, pair : BOOLEAN]

Updates == [side : SideKeys, level : [price : Int, qty : Int]]

UpdateFields ==
  [eventSeen : BOOLEAN, eventTime : Seq(BOOLEAN), instrument : Seq(Known), first : Seq(UpdateIds),
   last : Seq(UpdateIds), deferred : [SideKeys -> Seq(LevelArrays)],
   sidesRead : [SideKeys -> BOOLEAN], updates : Seq(Updates), failed : BOOLEAN]

SnapshotFields ==
  [instrument : Known, lastUpdateId : Seq(UpdateIds), sides : [SideKeys -> Seq(Updates)],
   seen : [SideKeys -> BOOLEAN], failed : BOOLEAN]

(* What a message has said, no key more than twice. *)
IsMessage(g) ==
  /\ g = [key \in Keys |-> g[key]]
  /\ \A key \in Keys : g[key] \in Seq(ValuesOf[key]) /\ Len(g[key]) <= 2

(* An Option that holds the last value of a key. *)
Holds(option, values) == option = IF values = <<>> THEN <<>> ELSE <<Last(values)>>

(* The levels of an array, as read for a side. *)
Units(array, s, side) == Appended(array, s, side, <<>>)

(* The sides in R have been read into u, one behind the other. *)
Gathered(u, s, g, R) ==
  /\ Len(u) <= LevelLimit
  /\ \A side \in R : Len(g[side]) = 1 /\ \A k \in DOMAIN g[side][1] : Readable(g[side][1][k], s)
  /\ \/ R = {} /\ u = <<>>
     \/ \E x \in SideKeys : R = {x} /\ u = Units(g[x][1], s, x)
     \/ \E x, y \in SideKeys :
          x # y /\ R = {x, y} /\ u = Appended(g[y][1], s, y, Units(g[x][1], s, x))

(* A side has not come, is put off or is read. *)
SideStands(fs, g, side) ==
  \/ g[side] = <<>> /\ fs.deferred[side] = <<>> /\ ~ fs.sidesRead[side]
  \/ Len(g[side]) = 1 /\ fs.deferred[side] = g[side] /\ ~ fs.sidesRead[side]
  \/ Len(g[side]) = 1 /\ fs.deferred[side] = <<>> /\ fs.sidesRead[side] /\ fs.instrument # <<>>

SidesRead(fs) == {side \in SideKeys : fs.sidesRead[side]}

SidesStand(fs, g) ==
  /\ \A side \in SideKeys : SideStands(fs, g, side)
  /\ Gathered(fs.updates, fs.instrument[1], g, SidesRead(fs))

(* DepthUpdateDecoder, before the end of the message. *)
UpdateWalk(fs, g) ==
  /\ fs \in UpdateFields /\ ~ fs.failed
  /\ fs.instrument = g["s"] /\ Unknown \notin ToSet(g["s"])
  /\ fs.eventSeen <=> g["e"] # <<>>
  /\ FALSE \notin ToSet(g["e"])
  /\ Holds(fs.eventTime, g["E"]) /\ Holds(fs.first, g["U"]) /\ Holds(fs.last, g["u"])
  /\ SidesStand(fs, g)

(* DepthSnapshotDecoder, before the end of the message. *)
SnapshotWalk(fs, g) ==
  /\ fs \in SnapshotFields /\ ~ fs.failed
  /\ \A key \in Keys \ SnapshotKeys : g[key] = <<>>
  /\ fs.lastUpdateId = <<>> <=> g["lastUpdateId"] = <<>>
  /\ \A side \in SideKeys :
       LET all == FlattenSeq(g[side]) IN
       /\ fs.seen[side] <=> g[side] # <<>>
       /\ fs.sides[side] = Units(all, fs.instrument, side)
       /\ Len(all) \in 0 .. LevelLimit
       /\ \A k \in DOMAIN all : Readable(all[k], fs.instrument)

DecoderInv ==
  /\ IsMessage(given)
  /\ decoded = "" /\ Len(given["s"]) <= 1 =>
       UpdateWalk(fields, given) \/ SnapshotWalk(fields, given)
  /\ DecodedInAnyOrder

-----------------------------------------------------------------------------
(***************************************************************************)
(* Sequences.                                                              *)
(***************************************************************************)

(* The constants, as the proofs need them. *)
LEMMA DecoderConstants ==
  /\ Unknown \notin Known /\ LevelLimit \in Nat /\ UpdateIds \subseteq Nat
  /\ LevelArrays \subseteq Seq(RawLevels)
  /\ \A s \in Known : TickOf[s] \in Nat \ {0} /\ LotOf[s] \in Nat \ {0}
BY DecoderAssumption DEF RawLevels

(* What FlattenSeq gives of at most two sequences. *)
LEMMA FlattenNone == FlattenSeq(<<>>) = <<>>
BY DEF FlattenSeq

(* Of one sequence. *)
LEMMA FlattenOne ==
  ASSUME NEW s, Len(s) = 1
  PROVE  FlattenSeq(s) = s[1]
<1> DEFINE P(f) == f = [i \in 1 .. Len(s) |-> IF i = 1 THEN s[i] ELSE f[i - 1] \o s[i]]
           flatten == CHOOSE f : P(f)
<1>1. FlattenSeq(s) = flatten[1]
  BY DEF FlattenSeq
<1>2. PICK h : h = [i \in 1 .. 1 |-> s[1]]
  OBVIOUS
<1>3. \A i \in 1 .. 1 : i = 1
  OBVIOUS
<1>4. P(h)
  BY <1>2, <1>3
<1>5. P(flatten)
  <2> HIDE DEF P
  <2> QED BY <1>4
<1> HIDE DEF flatten
<1>6. 1 \in 1 .. Len(s)
  OBVIOUS
<1> QED BY <1>1, <1>5, <1>6

(* Of two. *)
LEMMA FlattenTwo ==
  ASSUME NEW s, Len(s) = 2
  PROVE  FlattenSeq(s) = s[1] \o s[2]
<1> DEFINE P(f) == f = [i \in 1 .. Len(s) |-> IF i = 1 THEN s[i] ELSE f[i - 1] \o s[i]]
           flatten == CHOOSE f : P(f)
<1>1. FlattenSeq(s) = flatten[2]
  BY DEF FlattenSeq
<1>2. PICK h : h = [i \in 1 .. 2 |-> IF i = 1 THEN s[1] ELSE s[1] \o s[2]]
  OBVIOUS
<1>3. \A i \in 1 .. 2 : i = 1 \/ (i = 2 /\ i - 1 = 1)
  OBVIOUS
<1>4. h[1] = s[1] /\ h[2] = s[1] \o s[2]
  BY <1>2
<1>5. ASSUME NEW i \in 1 .. 2
      PROVE  h[i] = IF i = 1 THEN s[i] ELSE h[i - 1] \o s[i]
  <2>1. CASE i = 1
    BY <1>4, <2>1
  <2>2. CASE i = 2 /\ i - 1 = 1
    <3>1. h[i - 1] = s[1] /\ i # 1 /\ h[i] = s[1] \o s[i]
      BY <1>4, <2>2
    <3> QED BY <3>1
  <2> QED BY <1>3, <2>1, <2>2
<1>6. P(h)
  <2>1. h = [i \in 1 .. 2 |-> h[i]]
    BY <1>2
  <2> QED BY <1>5, <2>1
<1>7. P(flatten)
  <2> HIDE DEF P
  <2> QED BY <1>6
<1> HIDE DEF flatten
<1>8. 1 \in 1 .. Len(s) /\ 2 \in 1 .. Len(s) /\ 2 - 1 = 1 /\ 2 # 1
  OBVIOUS
<1>9. flatten[1] = s[1]
  BY <1>7, <1>8
<1>10. flatten[2] = flatten[2 - 1] \o s[2]
  BY <1>7, <1>8
<1> QED BY <1>1, <1>8, <1>9, <1>10

(* W are sequences. *)
FromEmpty(W) == <<>> \in W /\ \A a \in W : <<>> \o a = a

(* One more at the end. *)
LEMMA FlattenedMore ==
  ASSUME NEW W, FromEmpty(W), NEW s \in Seq(W), Len(s) <= 1, NEW a \in W
  PROVE  FlattenSeq(Append(s, a)) = FlattenSeq(s) \o a /\ FlattenSeq(s) \in W
<1>1. PICK t : t = Append(s, a)
  OBVIOUS
<1>2. PICK n : n = Len(s)
  OBVIOUS
<1>3. n \in Nat /\ Len(t) = n + 1 /\ t[n + 1] = a
  BY <1>1, <1>2
<1>4. CASE n = 0
  <2>1. Len(t) = 1 /\ t[1] = a
    BY <1>3, <1>4
  <2>2. s = <<>>
    <3>1. Len(s) = 0
      BY <1>2, <1>4
    <3> QED BY <3>1
  <2>3. FlattenSeq(t) = a /\ FlattenSeq(s) = <<>>
    BY <2>1, <2>2, FlattenOne, FlattenNone
  <2> QED BY <1>1, <2>3 DEF FromEmpty
<1>5. CASE n = 1
  <2>1. Len(t) = 2 /\ t[2] = a
    BY <1>3, <1>5
  <2>2. t[1] = s[1] /\ s[1] \in W
    <3>1. Len(s) = 1
      BY <1>2, <1>5
    <3>2. 1 \in 1 .. Len(s) /\ Len(s) \in Nat
      BY <3>1
    <3>3. s[1] \in W
      BY <3>2
    <3>4. Append(s, a)[1] = s[1]
      BY <3>2
    <3> QED BY <1>1, <3>3, <3>4
  <2>3. FlattenSeq(t) = t[1] \o t[2] /\ FlattenSeq(s) = s[1]
    BY <1>2, <1>5, <2>1, FlattenOne, FlattenTwo
  <2> QED BY <1>1, <2>1, <2>2, <2>3
<1>6. n = 0 \/ n = 1
  BY <1>2, <1>3
<1> QED BY <1>4, <1>5, <1>6

(* Level arrays are sequences. *)
LEMMA ArraysFromEmpty == FromEmpty(Seq(RawLevels)) /\ LevelArrays \subseteq Seq(RawLevels)
BY DecoderConstants DEF FromEmpty

(* levels.rs: what an array adds. *)
LEMMA AppendedFacts ==
  ASSUME NEW array \in Seq(RawLevels), NEW s \in Known, NEW side \in SideKeys,
         NEW out \in Seq(Updates)
  PROVE  /\ Appended(array, s, side, out) \in Seq(Updates)
         /\ Len(Appended(array, s, side, out)) = Len(out) + Len(array)
<1>1. PICK add : add = [k \in DOMAIN array |-> [side |-> side, level |-> InUnits(array[k], s)]]
  OBVIOUS
<1>2. DOMAIN array = 1 .. Len(array) /\ Len(array) \in Nat
  OBVIOUS
<1>3. ASSUME NEW k \in DOMAIN array
      PROVE  [side |-> side, level |-> InUnits(array[k], s)] \in Updates
  <2>1. PICK lv : lv = array[k]
    OBVIOUS
  <2>2. lv \in RawLevels
    BY <1>2, <2>1
  <2>3. lv.price \in Int /\ lv.qty \in Int
    BY <2>2 DEF RawLevels
  <2>4. PICK t : t = TickOf[s]
    OBVIOUS
  <2>5. PICK l : l = LotOf[s]
    OBVIOUS
  <2>6. t \in Nat \ {0} /\ l \in Nat \ {0}
    BY <2>4, <2>5, DecoderConstants
  <2>7. lv.price \div t \in Int /\ lv.qty \div l \in Int
    BY <2>3, <2>6
  <2>8. InUnits(lv, s) = [price |-> lv.price \div t, qty |-> lv.qty \div l]
    BY <2>4, <2>5 DEF InUnits
  <2>9. InUnits(lv, s) \in [price : Int, qty : Int]
    BY <2>7, <2>8
  <2> QED BY <2>1, <2>9 DEF Updates
<1>4. add \in Seq(Updates) /\ Len(add) = Len(array)
  <2> DEFINE U(k) == [side |-> side, level |-> InUnits(array[k], s)]
  <2>1. \A k \in 1 .. Len(array) : U(k) \in Updates
    BY <1>2, <1>3
  <2>2. add = [k \in 1 .. Len(array) |-> U(k)]
    BY <1>1, <1>2
  <2> HIDE DEF U
  <2> QED BY <1>2, <2>1, <2>2
<1>5. Appended(array, s, side, out) = out \o add
  BY <1>1 DEF Appended
<1>6. out \o add \in Seq(Updates) /\ Len(out \o add) = Len(out) + Len(add)
  BY <1>4
<1> QED BY <1>4, <1>5, <1>6

(* Two arrays one after the other are one. *)
LEMMA AppendedTwice ==
  ASSUME NEW a \in Seq(RawLevels), NEW b \in Seq(RawLevels), NEW s, NEW side
  PROVE  Appended(b, s, side, Units(a, s, side)) = Units(a \o b, s, side)
<1> DEFINE U(x) == [side |-> side, level |-> InUnits(x, s)]
<1>1. PICK c : c = a \o b
  OBVIOUS
<1>2. PICK p : p = [k \in DOMAIN a |-> U(a[k])]
  OBVIOUS
<1>3. PICK q : q = [k \in DOMAIN b |-> U(b[k])]
  OBVIOUS
<1>4. PICK r : r = [k \in DOMAIN c |-> U(c[k])]
  OBVIOUS
<1>5. /\ Units(a, s, side) = <<>> \o p /\ Units(c, s, side) = <<>> \o r
      /\ Appended(b, s, side, Units(a, s, side)) = (<<>> \o p) \o q
  BY <1>1, <1>2, <1>3, <1>4 DEF Units, Appended
<1> DEFINE X == {U(x) : x \in RawLevels}
<1>6. /\ Len(a) \in Nat /\ Len(b) \in Nat /\ DOMAIN a = 1 .. Len(a) /\ DOMAIN b = 1 .. Len(b)
      /\ \A k \in 1 .. Len(a) : a[k] \in RawLevels
      /\ \A k \in 1 .. Len(b) : b[k] \in RawLevels
  OBVIOUS
<1>7. c \in Seq(RawLevels) /\ Len(c) = Len(a) + Len(b)
  BY <1>1
<1>8. \A k \in 1 .. Len(c) : c[k] = IF k <= Len(a) THEN a[k] ELSE b[k - Len(a)]
  BY <1>1
<1>9. DOMAIN c = 1 .. Len(c) /\ \A k \in 1 .. Len(c) : c[k] \in RawLevels
  BY <1>7
<1>10. \A x \in RawLevels : U(x) \in X
  OBVIOUS
<1>11. /\ p \in Seq(X) /\ Len(p) = Len(a) /\ q \in Seq(X) /\ Len(q) = Len(b)
  <2> HIDE DEF U, X
  <2> QED BY <1>2, <1>3, <1>6, <1>10
<1>12. r \in Seq(X) /\ Len(r) = Len(c)
  <2> HIDE DEF U, X
  <2> QED BY <1>4, <1>7, <1>9, <1>10
<1> HIDE DEF X
<1>13. <<>> \o p = p /\ <<>> \o r = r
  BY <1>11, <1>12
<1>14. p \o q = r
  <2>1. p \o q \in Seq(X) /\ Len(p \o q) = Len(r)
    BY <1>7, <1>11, <1>12
  <2>2. ASSUME NEW k \in 1 .. Len(r)
        PROVE  (p \o q)[k] = r[k]
    <3>1. (p \o q)[k] = IF k <= Len(p) THEN p[k] ELSE q[k - Len(p)]
      BY <1>7, <1>11, <1>12
    <3>2. r[k] = U(c[k])
      <4> HIDE DEF U
      <4> QED BY <1>4, <1>9, <1>12
    <3>3. CASE k <= Len(a)
      <4>1. k \in DOMAIN a /\ c[k] = a[k]
        BY <1>6, <1>8, <1>12, <3>3
      <4>2. p[k] = U(a[k])
        BY <1>2, <4>1
      <4> HIDE DEF U
      <4> QED BY <1>11, <3>1, <3>2, <3>3, <4>1, <4>2
    <3>4. CASE ~ (k <= Len(a))
      <4>1. k - Len(a) \in DOMAIN b /\ c[k] = b[k - Len(a)]
        BY <1>6, <1>7, <1>8, <1>12, <3>4
      <4>2. q[k - Len(a)] = U(b[k - Len(a)])
        BY <1>3, <4>1
      <4> HIDE DEF U
      <4> QED BY <1>11, <3>1, <3>2, <3>4, <4>1, <4>2
    <3> QED BY <3>3, <3>4
  <2>3. DOMAIN (p \o q) = 1 .. Len(r) /\ DOMAIN r = 1 .. Len(r)
    BY <1>12, <2>1
  <2>4. PICK o : o = p \o q
    OBVIOUS
  <2>5. o = [k \in 1 .. Len(r) |-> o[k]] /\ r = [k \in 1 .. Len(r) |-> r[k]]
    <3>1. o \in Seq(X) /\ Len(o) = Len(r)
      BY <2>1, <2>4
    <3>2. o = [k \in 1 .. Len(o) |-> o[k]]
      BY <3>1
    <3>3. r = [k \in 1 .. Len(r) |-> r[k]]
      BY <1>12
    <3> QED BY <3>1, <3>2, <3>3
  <2>6. \A k \in 1 .. Len(r) : o[k] = r[k]
    BY <2>2, <2>4
  <2> QED BY <2>4, <2>5, <2>6
<1> QED BY <1>1, <1>5, <1>13, <1>14

-----------------------------------------------------------------------------
(***************************************************************************)
(* What a message has said.                                                *)
(***************************************************************************)

(* The keys and their values. *)
LEMMA KeyFacts ==
  /\ Keys = {"e", "E", "s", "U", "u", "b", "a", "lastUpdateId"}
  /\ ValuesOf["e"] = BOOLEAN /\ ValuesOf["E"] = BOOLEAN /\ ValuesOf["s"] = Known \cup {Unknown}
  /\ ValuesOf["U"] = UpdateIds /\ ValuesOf["u"] = UpdateIds
  /\ ValuesOf["b"] = LevelArrays /\ ValuesOf["a"] = LevelArrays
  /\ ValuesOf["lastUpdateId"] = UpdateIds
BY DEF Keys, UpdateKeys, SnapshotKeys, ValuesOf

(* What a message has said under each key. *)
LEMMA MessageFacts ==
  ASSUME NEW g, IsMessage(g)
  PROVE  /\ g["e"] \in Seq(BOOLEAN) /\ g["E"] \in Seq(BOOLEAN)
         /\ g["s"] \in Seq(Known \cup {Unknown})
         /\ g["U"] \in Seq(UpdateIds) /\ g["u"] \in Seq(UpdateIds)
         /\ g["lastUpdateId"] \in Seq(UpdateIds)
         /\ \A side \in SideKeys : /\ g[side] \in Seq(LevelArrays)
                                   /\ g[side] \in Seq(Seq(RawLevels)) /\ Len(g[side]) <= 2
<1>1. \A key \in {"e", "E", "s", "U", "u", "b", "a", "lastUpdateId"} :
        g[key] \in Seq(ValuesOf[key]) /\ Len(g[key]) <= 2
  BY KeyFacts DEF IsMessage
<1>2. \A side \in SideKeys : g[side] \in Seq(LevelArrays) /\ Len(g[side]) <= 2
  BY <1>1, KeyFacts DEF SideKeys
<1>3. \A v \in Seq(LevelArrays) : v \in Seq(Seq(RawLevels))
  <2>1. PICK W : W = Seq(RawLevels)
    OBVIOUS
  <2>2. LevelArrays \subseteq W
    BY <2>1, DecoderConstants
  <2>3. \A v \in Seq(LevelArrays) : v \in Seq(W)
    BY <2>2
  <2> QED BY <2>1, <2>3
<1>4. /\ g["e"] \in Seq(BOOLEAN) /\ g["E"] \in Seq(BOOLEAN)
      /\ g["s"] \in Seq(Known \cup {Unknown})
      /\ g["U"] \in Seq(UpdateIds) /\ g["u"] \in Seq(UpdateIds)
      /\ g["lastUpdateId"] \in Seq(UpdateIds)
  BY <1>1, KeyFacts
<1> QED BY <1>2, <1>3, <1>4

(* One field more. *)
Saying(g, key, value) == [g EXCEPT ![key] = Append(@, value)]

(* It says something more under one key, and the same under the others. *)
LEMMA MessageGrows ==
  ASSUME NEW g, IsMessage(g), NEW key \in Keys, NEW value \in ValuesOf[key], Len(g[key]) <= 1,
         NEW h, h = Saying(g, key, value)
  PROVE  /\ IsMessage(h)
         /\ h[key] = Append(g[key], value)
         /\ h[key] # <<>> /\ Last(h[key]) = value /\ Len(h[key]) = Len(g[key]) + 1
         /\ ToSet(h[key]) = ToSet(g[key]) \cup {value}
         /\ \A k \in Keys : k # key => h[k] = g[k]
<1>1. PICK v : v = g[key]
  OBVIOUS
<1>2. PICK V : V = ValuesOf[key]
  OBVIOUS
<1>3. PICK w : w = Append(v, value)
  OBVIOUS
<1>4. v \in Seq(V) /\ value \in V /\ Len(v) <= 1
  BY <1>1, <1>2 DEF IsMessage
<1>5. Len(v) \in Nat /\ w \in Seq(V) /\ Len(w) = Len(v) + 1 /\ w[Len(v) + 1] = value
  BY <1>3, <1>4
<1>6. Len(w) <= 2 /\ Len(w) # 0
  BY <1>4, <1>5
<1>7. w # <<>> /\ Last(w) = value
  <2>1. Len(<<>>) = 0
    OBVIOUS
  <2> QED BY <1>5, <1>6, <2>1 DEF Last
<1>8. ToSet(w) = ToSet(v) \cup {value}
  <2>1. DOMAIN v = 1 .. Len(v) /\ DOMAIN w = 1 .. Len(w)
    BY <1>4, <1>5
  <2>2. \A k \in DOMAIN v : k \in DOMAIN w /\ w[k] = v[k]
    BY <1>3, <1>4, <1>5
  <2>3. \A k \in DOMAIN w : k \in DOMAIN v \/ k = Len(v) + 1
    BY <1>5, <2>1
  <2>4. Len(v) + 1 \in DOMAIN w
    BY <1>5, <2>1
  <2> QED BY <1>5, <2>2, <2>3, <2>4 DEF ToSet
<1>9. g = [k \in Keys |-> g[k]]
  BY DEF IsMessage
<1>10. h[key] = w /\ \A k \in Keys : k # key => h[k] = g[k]
  BY <1>1, <1>3, <1>9 DEF Saying
<1>11. h = [k \in Keys |-> h[k]]
  BY <1>9 DEF Saying
<1>12. IsMessage(h)
  <2>1. ASSUME NEW k \in Keys PROVE h[k] \in Seq(ValuesOf[k]) /\ Len(h[k]) <= 2
    <3>1. CASE k = key
      BY <1>2, <1>5, <1>6, <1>10, <3>1
    <3>2. CASE k # key
      <4>1. g[k] \in Seq(ValuesOf[k]) /\ Len(g[k]) <= 2
        BY DEF IsMessage
      <4> QED BY <1>10, <3>2, <4>1
    <3> QED BY <3>1, <3>2
  <2> QED BY <1>11, <2>1 DEF IsMessage
<1> QED BY <1>1, <1>3, <1>5, <1>7, <1>8, <1>10, <1>12

-----------------------------------------------------------------------------
(***************************************************************************)
(* The sides of an update.                                                 *)
(***************************************************************************)

(* One side more is read. *)
LEMMA GatherMore ==
  ASSUME NEW u \in Seq(Updates), NEW s \in Known, NEW g, NEW R \in SUBSET SideKeys,
         Gathered(u, s, g, R), NEW side \in SideKeys, side \notin R, Len(g[side]) = 1,
         g[side][1] \in Seq(RawLevels), ReadsInto(g[side][1], s, u)
  PROVE  Gathered(Appended(g[side][1], s, side, u), s, g, R \cup {side})
<1>1. PICK array : array = g[side][1]
  OBVIOUS
<1>2. PICK w : w = Appended(array, s, side, u)
  OBVIOUS
<1>3. array \in Seq(RawLevels)
  BY <1>1
<1>4. Len(w) = Len(u) + Len(array)
  BY <1>2, <1>3, AppendedFacts
<1>5. Len(u) + Len(array) <= LevelLimit /\ \A k \in DOMAIN array : Readable(array[k], s)
  BY <1>1 DEF ReadsInto
<1>6. Len(w) <= LevelLimit
  BY <1>4, <1>5
<1>7. \A d \in R \cup {side} :
        Len(g[d]) = 1 /\ \A k \in DOMAIN g[d][1] : Readable(g[d][1][k], s)
  BY <1>1, <1>5 DEF Gathered
<1>8. \/ R \cup {side} = {} /\ w = <<>>
      \/ \E x \in SideKeys : R \cup {side} = {x} /\ w = Units(g[x][1], s, x)
      \/ \E x, y \in SideKeys :
           /\ x # y /\ R \cup {side} = {x, y}
           /\ w = Appended(g[y][1], s, y, Units(g[x][1], s, x))
  <2>1. CASE R = {} /\ u = <<>>
    <3>1. R \cup {side} = {side} /\ w = Units(g[side][1], s, side)
      BY <1>1, <1>2, <2>1 DEF Units
    <3> QED BY <3>1
  <2>2. CASE \E x \in SideKeys : R = {x} /\ u = Units(g[x][1], s, x)
    <3>1. PICK x \in SideKeys : R = {x} /\ u = Units(g[x][1], s, x)
      BY <2>2
    <3>2. x # side /\ R \cup {side} = {x, side}
      BY <3>1
    <3> QED BY <1>1, <1>2, <3>1, <3>2
  <2>3. CASE \E x, y \in SideKeys :
               x # y /\ R = {x, y} /\ u = Appended(g[y][1], s, y, Units(g[x][1], s, x))
    <3>1. side \in R
      BY <2>3 DEF SideKeys
    <3> QED BY <3>1
  <2> QED BY <2>1, <2>2, <2>3 DEF Gathered
<1> QED BY <1>1, <1>2, <1>6, <1>7, <1>8 DEF Gathered

(* What is read is no more than the other side's levels. *)
LEMMA GatheredLength ==
  ASSUME NEW u, NEW s, NEW g, NEW R \in SUBSET SideKeys, Gathered(u, s, g, R),
         NEW side \in SideKeys, side \notin R, NEW other \in SideKeys, other # side,
         R # {} => s \in Known, \A d \in SideKeys : g[d] \in Seq(Seq(RawLevels)),
         Len(g[other]) <= 1
  PROVE  /\ Len(u) <= Len(FlattenSeq(g[other]))
         /\ Len(u) \in Nat /\ Len(FlattenSeq(g[other])) \in Nat
<1>1. PICK v : v = g[other]
  OBVIOUS
<1>2. PICK W : W = Seq(RawLevels)
  OBVIOUS
<1>3. v \in Seq(W) /\ Len(v) <= 1 /\ FromEmpty(W)
  BY <1>1, <1>2, ArraysFromEmpty
<1>4. <<>> \in W
  BY <1>3 DEF FromEmpty
<1>5. FlattenSeq(v) \in W
  BY <1>3, <1>4, FlattenedMore
<1>6. Len(FlattenSeq(v)) \in Nat
  BY <1>2, <1>5
<1>7. CASE R = {}
  <2>1. u = <<>>
    BY <1>7 DEF Gathered
  <2>2. Len(u) = 0
    BY <2>1
  <2> QED BY <1>1, <1>6, <2>2
<1>8. CASE R # {}
  <2>1. R = {other}
    <3>1. \A x \in SideKeys : x = side \/ x = other
      BY DEF SideKeys
    <3>2. \A x \in R : x = other
      BY <3>1
    <3> QED BY <1>8, <3>2
  <2>2. u = Units(v[1], s, other) /\ Len(v) = 1
    <3>1. \A x, y \in SideKeys : x # y => R # {x, y}
      BY <2>1
    <3>2. \A x \in SideKeys : R = {x} => x = other
      BY <2>1
    <3> QED BY <1>1, <1>8, <2>1, <3>1, <3>2 DEF Gathered
  <2>3. FlattenSeq(v) = v[1]
    BY <2>2, FlattenOne
  <2>4. v[1] \in Seq(RawLevels) /\ <<>> \in Seq(Updates) /\ s \in Known
    BY <1>2, <1>5, <1>8, <2>3
  <2>5. PICK out : out = <<>>
    OBVIOUS
  <2>6. Len(Appended(v[1], s, other, out)) = Len(out) + Len(v[1])
    <3>1. out \in Seq(Updates)
      BY <2>4, <2>5
    <3> QED BY <2>4, <3>1, AppendedFacts
  <2>7. Len(out) = 0
    BY <2>5
  <2>8. Len(u) = Len(v[1]) /\ Len(v[1]) \in Nat
    BY <1>6, <2>2, <2>3, <2>5, <2>6, <2>7 DEF Units
  <2> QED BY <1>1, <1>6, <2>3, <2>8
<1> QED BY <1>7, <1>8

-----------------------------------------------------------------------------
(***************************************************************************)
(* DepthUpdateDecoder.                                                     *)
(***************************************************************************)

(* What the run's property says of an update. *)
UpdateOffends(g) ==
  \/ FALSE \in ToSet(g["e"])
  \/ Unknown \in ToSet(g["s"])
  \/ \E side \in SideKeys : Len(g[side]) > 1
  \/ Len(FlattenSeq(g["b"])) + Len(FlattenSeq(g["a"])) > LevelLimit
  \/ /\ g["s"] # <<>> /\ g["s"][1] \in Known
     /\ \E side \in SideKeys : \E lv \in ToSet(FlattenSeq(g[side])) : ~ Readable(lv, g["s"][1])

UpdateComplete(g) ==
  (\A key \in UpdateKeys : g[key] # <<>>) /\ Last(g["U"]) <= Last(g["u"]) /\ Last(g["E"])

UpdateWhole(u, s, g) ==
  \E x, y \in SideKeys :
    /\ x # y
    /\ u = Appended(FlattenSeq(g[y]), s, y, Appended(FlattenSeq(g[x]), s, x, <<>>))

UpdateDecoded(d, fs, g) ==
  /\ d = "ok" => /\ UpdateComplete(g) /\ ~ UpdateOffends(g)
                 /\ fs.instrument = g["s"]
                 /\ fs.first[1] = Last(g["U"]) /\ fs.last[1] = Last(g["u"])
                 /\ UpdateWhole(fs.updates, g["s"][1], g)
  /\ d = "bad field" => UpdateOffends(g)
  /\ d = "incomplete" => ~ UpdateComplete(g)

(* An update has levels, a snapshot has not. *)
LEMMA FieldsDomain ==
  /\ \A fs \in UpdateFields : "updates" \in DOMAIN fs
  /\ \A fs \in SnapshotFields : "updates" \notin DOMAIN fs
BY DEF UpdateFields, SnapshotFields

(* The parts of the fields. *)
LEMMA UpdateParts ==
  ASSUME NEW fs \in UpdateFields
  PROVE  /\ fs.eventSeen \in BOOLEAN /\ fs.eventTime \in Seq(BOOLEAN) /\ fs.instrument \in Seq(Known)
         /\ fs.first \in Seq(UpdateIds) /\ fs.last \in Seq(UpdateIds)
         /\ fs.deferred \in [SideKeys -> Seq(LevelArrays)]
         /\ fs.sidesRead \in [SideKeys -> BOOLEAN] /\ fs.updates \in Seq(Updates)
         /\ fs.failed \in BOOLEAN
BY DEF UpdateFields

(* Changes of a field. *)
LEMMA UpdateFailed ==
  ASSUME NEW fs \in UpdateFields
  PROVE  Failed(fs) \in UpdateFields /\ Failed(fs).failed
BY DEF UpdateFields, Failed

(* Of the buffer of updates. *)
LEMMA UpdatesSet ==
  ASSUME NEW fs \in UpdateFields, NEW u \in Seq(Updates), NEW t, t = [fs EXCEPT !.updates = u]
  PROVE  /\ t \in UpdateFields /\ t.updates = u
         /\ t.instrument = fs.instrument /\ t.deferred = fs.deferred /\ t.sidesRead = fs.sidesRead
         /\ t.eventSeen = fs.eventSeen /\ t.eventTime = fs.eventTime /\ t.first = fs.first
         /\ t.last = fs.last /\ t.failed = fs.failed
BY DEF UpdateFields

PutOff(fs, side, a) == [fs EXCEPT !.deferred[side] = <<a>>]

(* A side put off. *)
LEMMA DeferredSet ==
  ASSUME NEW fs \in UpdateFields, NEW side \in SideKeys, NEW a \in LevelArrays, NEW t,
         t = PutOff(fs, side, a)
  PROVE  /\ t \in UpdateFields /\ t.deferred[side] = <<a>>
         /\ \A d \in SideKeys : d # side => t.deferred[d] = fs.deferred[d]
         /\ t.instrument = fs.instrument /\ t.updates = fs.updates /\ t.sidesRead = fs.sidesRead
         /\ t.eventSeen = fs.eventSeen /\ t.eventTime = fs.eventTime /\ t.first = fs.first
         /\ t.last = fs.last /\ t.failed = fs.failed
<1>1. PICK q : q = <<a>>
  OBVIOUS
<1>2. q \in Seq(LevelArrays)
  BY <1>1
<1>3. PICK D : D = [fs.deferred EXCEPT ![side] = q]
  OBVIOUS
<1>4. fs.deferred \in [SideKeys -> Seq(LevelArrays)]
  BY UpdateParts
<1>5. D \in [SideKeys -> Seq(LevelArrays)] /\ D[side] = q
      /\ \A d \in SideKeys : d # side => D[d] = fs.deferred[d]
  BY <1>2, <1>3, <1>4
<1>6. t = [fs EXCEPT !.deferred = D]
  BY <1>1, <1>3 DEF PutOff
<1>7. /\ t \in UpdateFields /\ t.deferred = D
      /\ t.instrument = fs.instrument /\ t.updates = fs.updates /\ t.sidesRead = fs.sidesRead
      /\ t.eventSeen = fs.eventSeen /\ t.eventTime = fs.eventTime /\ t.first = fs.first
      /\ t.last = fs.last /\ t.failed = fs.failed
  BY <1>5, <1>6 DEF UpdateFields
<1> QED BY <1>1, <1>5, <1>7

WithSide(fs, side) == [fs EXCEPT !.sidesRead[side] = TRUE]

(* A side marked as read. *)
LEMMA SideReadSet ==
  ASSUME NEW fs \in UpdateFields, NEW side \in SideKeys, NEW t, t = WithSide(fs, side)
  PROVE  /\ t \in UpdateFields /\ t.sidesRead[side]
         /\ \A d \in SideKeys : d # side => (t.sidesRead[d] <=> fs.sidesRead[d])
         /\ t.instrument = fs.instrument /\ t.updates = fs.updates /\ t.deferred = fs.deferred
         /\ t.eventSeen = fs.eventSeen /\ t.eventTime = fs.eventTime /\ t.first = fs.first
         /\ t.last = fs.last /\ t.failed = fs.failed
BY DEF UpdateFields, WithSide

(* read_side *)
LEMMA ReadSideFacts ==
  ASSUME NEW fs \in UpdateFields, fs.instrument # <<>>, NEW side \in SideKeys,
         NEW array \in LevelArrays
  PROVE  /\ ReadSide(fs, side, array) \in UpdateFields
         /\ ReadsInto(array, fs.instrument[1], fs.updates) =>
              ReadSide(fs, side, array) =
                [fs EXCEPT !.updates = Appended(array, fs.instrument[1], side, @)]
         /\ ~ ReadsInto(array, fs.instrument[1], fs.updates) =>
              ReadSide(fs, side, array) = Failed(fs)
         /\ fs.instrument[1] \in Known
         /\ Appended(array, fs.instrument[1], side, fs.updates) \in Seq(Updates)
<1>1. PICK s : s = fs.instrument[1]
  OBVIOUS
<1>2. PICK u : u = fs.updates
  OBVIOUS
<1>3. u \in Seq(Updates) /\ fs.instrument \in Seq(Known)
  BY <1>2, UpdateParts
<1>4. s \in Known
  BY <1>1, <1>3
<1>5. array \in Seq(RawLevels)
  BY DecoderConstants
<1>6. PICK w : w = Appended(array, s, side, u)
  OBVIOUS
<1>7. w \in Seq(Updates)
  BY <1>3, <1>4, <1>5, <1>6, AppendedFacts
<1>8. ReadSide(fs, side, array) =
        IF ReadsInto(array, s, u) THEN [fs EXCEPT !.updates = w] ELSE Failed(fs)
  BY <1>1, <1>2, <1>6 DEF ReadSide
<1>9. Failed(fs) \in UpdateFields /\ [fs EXCEPT !.updates = w] \in UpdateFields
  BY <1>7, UpdateFailed, UpdatesSet
<1> QED BY <1>1, <1>2, <1>4, <1>6, <1>7, <1>8, <1>9

(* A field that is not about the sides. *)
LEMMA GatheredFrame ==
  ASSUME NEW u, NEW s, NEW g, NEW h, NEW R, Gathered(u, s, g, R), \A d \in R : h[d] = g[d]
  PROVE  Gathered(u, s, h, R)
<1>1. /\ Len(u) <= LevelLimit
      /\ \A d \in R : Len(h[d]) = 1 /\ \A k \in DOMAIN h[d][1] : Readable(h[d][1][k], s)
  BY DEF Gathered
<1>2. CASE R = {} /\ u = <<>>
  BY <1>1, <1>2 DEF Gathered
<1>3. CASE \E x \in SideKeys : R = {x} /\ u = Units(g[x][1], s, x)
  <2>1. PICK x \in SideKeys : R = {x} /\ u = Units(g[x][1], s, x)
    BY <1>3
  <2>2. h[x] = g[x]
    BY <2>1
  <2>3. R = {x} /\ u = Units(h[x][1], s, x)
    BY <2>1, <2>2
  <2> QED BY <1>1, <2>3 DEF Gathered
<1>4. CASE \E x, y \in SideKeys :
             x # y /\ R = {x, y} /\ u = Appended(g[y][1], s, y, Units(g[x][1], s, x))
  <2>1. PICK x, y \in SideKeys :
          x # y /\ R = {x, y} /\ u = Appended(g[y][1], s, y, Units(g[x][1], s, x))
    BY <1>4
  <2>2. h[x] = g[x] /\ h[y] = g[y]
    BY <2>1
  <2>3. x # y /\ R = {x, y} /\ u = Appended(h[y][1], s, y, Units(h[x][1], s, x))
    BY <2>1, <2>2
  <2> QED BY <1>1, <2>3 DEF Gathered
<1> QED BY <1>2, <1>3, <1>4 DEF Gathered

(* The sides stand as they did. *)
LEMMA SidesFrame ==
  ASSUME NEW fs, NEW g, NEW t, NEW h, SidesStand(fs, g), t.instrument = fs.instrument,
         t.deferred = fs.deferred, t.sidesRead = fs.sidesRead, t.updates = fs.updates,
         \A d \in SideKeys : h[d] = g[d]
  PROVE  SidesStand(t, h)
<1>1. SidesRead(t) = SidesRead(fs) /\ SidesRead(fs) \subseteq SideKeys
  BY DEF SidesRead
<1>2. Gathered(t.updates, t.instrument[1], h, SidesRead(t))
  <2>1. PICK u : u = t.updates
    OBVIOUS
  <2>2. PICK s : s = t.instrument[1]
    OBVIOUS
  <2>3. PICK R : R = SidesRead(t)
    OBVIOUS
  <2>4. Gathered(u, s, g, R) /\ \A d \in R : h[d] = g[d]
    BY <1>1, <2>1, <2>2, <2>3 DEF SidesStand
  <2>5. Gathered(u, s, h, R)
    BY <2>4, GatheredFrame
  <2> QED BY <2>1, <2>2, <2>3, <2>5
<1>3. \A side \in SideKeys : SideStands(t, h, side)
  BY DEF SidesStand, SideStands
<1> QED BY <1>2, <1>3 DEF SidesStand

(* The symbol, when there was none: no side has been read yet. *)
LEMMA SidesWithSymbol ==
  ASSUME NEW fs, NEW g, NEW t, NEW h, SidesStand(fs, g), fs.instrument = <<>>,
         t.deferred = fs.deferred, t.sidesRead = fs.sidesRead, t.updates = fs.updates,
         \A d \in SideKeys : h[d] = g[d]
  PROVE  SidesStand(t, h)
<1>1. \A side \in SideKeys : ~ fs.sidesRead[side] /\ SideStands(t, h, side)
  BY DEF SidesStand, SideStands
<1>2. SidesRead(t) = {} /\ SidesRead(fs) = {}
  BY <1>1 DEF SidesRead
<1>3. Gathered(fs.updates, fs.instrument[1], g, {})
  BY <1>2 DEF SidesStand
<1>4. Len(t.updates) <= LevelLimit /\ t.updates = <<>>
  BY <1>3 DEF Gathered
<1>5. Gathered(t.updates, t.instrument[1], h, {})
  BY <1>4 DEF Gathered
<1> QED BY <1>1, <1>2, <1>5 DEF SidesStand

(* read_object, key by key. *)
LEMMA FieldRead ==
  ASSUME NEW fs, NEW value
  PROVE  /\ ReadField(fs, "e", value) = IF value THEN [fs EXCEPT !.eventSeen = TRUE] ELSE Failed(fs)
         /\ ReadField(fs, "E", value) = [fs EXCEPT !.eventTime = <<value>>]
         /\ ReadField(fs, "s", value) =
              IF value \in Known THEN [fs EXCEPT !.instrument = <<value>>] ELSE Failed(fs)
         /\ ReadField(fs, "U", value) = [fs EXCEPT !.first = <<value>>]
         /\ ReadField(fs, "u", value) = [fs EXCEPT !.last = <<value>>]
<1>1. /\ "e" # "E" /\ "e" # "s" /\ "e" # "U" /\ "e" # "u" /\ "E" # "s" /\ "E" # "U" /\ "E" # "u"
      /\ "s" # "U" /\ "s" # "u" /\ "U" # "u"
  OBVIOUS
<1>2. "e" \notin SideKeys /\ "E" \notin SideKeys /\ "s" \notin SideKeys
  BY DEF SideKeys
<1>3. "U" \notin SideKeys /\ "u" \notin SideKeys
  BY DEF SideKeys
<1>4. ReadField(fs, "e", value) = IF value THEN [fs EXCEPT !.eventSeen = TRUE] ELSE Failed(fs)
  BY <1>1, <1>2, ZenonT(20) DEF ReadField
<1>5. ReadField(fs, "E", value) = [fs EXCEPT !.eventTime = <<value>>]
  BY <1>1, <1>2, ZenonT(20) DEF ReadField
<1>6. ReadField(fs, "s", value) =
        IF value \in Known THEN [fs EXCEPT !.instrument = <<value>>] ELSE Failed(fs)
  BY <1>1, <1>2, ZenonT(20) DEF ReadField
<1>7. ReadField(fs, "U", value) = [fs EXCEPT !.first = <<value>>]
  BY <1>1, <1>3, ZenonT(20) DEF ReadField
<1>8. ReadField(fs, "u", value) = [fs EXCEPT !.last = <<value>>]
  BY <1>1, <1>3, ZenonT(20) DEF ReadField
<1> QED BY <1>4, <1>5, <1>6, <1>7, <1>8

(* read_object of "b" and "a". *)
LEMMA SideFieldRead ==
  ASSUME NEW fs, NEW side \in SideKeys, NEW array, NEW t, t = ReadField(fs, side, array)
  PROVE  /\ Already(fs, side) => t = Failed(fs)
         /\ ~ Already(fs, side) /\ fs.instrument # <<>> =>
              t = ReadSide(WithSide(fs, side), side, array)
         /\ ~ Already(fs, side) /\ fs.instrument = <<>> => t = PutOff(fs, side, array)
<1>1. side # "e" /\ side # "E" /\ side # "s" /\ side # "U" /\ side # "u"
  BY DEF SideKeys
<1>2. t = IF Already(fs, side) THEN Failed(fs)
          ELSE IF fs.instrument # <<>>
            THEN ReadSide(WithSide(fs, side), side, array)
          ELSE PutOff(fs, side, array)
  BY <1>1, ZenonT(20) DEF ReadField, WithSide, PutOff, None
<1> QED BY <1>2

(* read_object, of each field that is no side: the fields are still what   *)
(* the message said, or the message offends.                               *)
LEMMA ReadEvent ==
  ASSUME NEW fs, NEW g, NEW h, UpdateWalk(fs, g), IsMessage(g), NEW value \in BOOLEAN,
         h["e"] # <<>>, ToSet(h["e"]) = ToSet(g["e"]) \cup {value},
         \A k \in Keys : k # "e" => h[k] = g[k]
  PROVE  LET t == ReadField(fs, "e", value) IN
         t \in UpdateFields /\ (t.failed => UpdateOffends(h)) /\ (~ t.failed => UpdateWalk(t, h))
<1>1. PICK t : t = ReadField(fs, "e", value)
  OBVIOUS
<1>2. fs \in UpdateFields
  BY DEF UpdateWalk
<1>3. t = IF value THEN [fs EXCEPT !.eventSeen = TRUE] ELSE Failed(fs)
  BY <1>1, FieldRead
<1>4. /\ h["s"] = g["s"] /\ h["E"] = g["E"] /\ h["U"] = g["U"] /\ h["u"] = g["u"]
      /\ \A d \in SideKeys : h[d] = g[d]
  BY KeyFacts DEF SideKeys
<1>5. CASE ~ value
  <2>1. t = Failed(fs) /\ value = FALSE
    BY <1>3, <1>5
  <2>2. UpdateOffends(h)
    BY <2>1 DEF UpdateOffends
  <2> QED BY <1>1, <1>2, <2>1, <2>2, UpdateFailed
<1>6. CASE value
  <2>1. /\ t \in UpdateFields /\ t.eventSeen /\ t.failed = fs.failed
        /\ t.instrument = fs.instrument /\ t.updates = fs.updates /\ t.deferred = fs.deferred
        /\ t.sidesRead = fs.sidesRead /\ t.eventTime = fs.eventTime /\ t.first = fs.first
        /\ t.last = fs.last
    BY <1>2, <1>3, <1>6 DEF UpdateFields
  <2>2. SidesStand(t, h)
    BY <1>4, <2>1, SidesFrame DEF UpdateWalk
  <2>3. value = TRUE /\ TRUE # FALSE
    BY <1>6
  <2>4. FALSE \notin ToSet(h["e"])
    BY <2>3 DEF UpdateWalk
  <2>5. UpdateWalk(t, h)
    BY <1>4, <2>1, <2>2, <2>4 DEF UpdateWalk
  <2> QED BY <1>1, <2>1, <2>5 DEF UpdateWalk
<1> QED BY <1>5, <1>6

(* "E": the last one counts. *)
LEMMA ReadEventTime ==
  ASSUME NEW fs, NEW g, NEW h, UpdateWalk(fs, g), IsMessage(g), NEW value \in BOOLEAN,
         h["E"] # <<>>, Last(h["E"]) = value, \A k \in Keys : k # "E" => h[k] = g[k]
  PROVE  LET t == ReadField(fs, "E", value) IN
         t \in UpdateFields /\ ~ t.failed /\ UpdateWalk(t, h)
<1>1. PICK t : t = ReadField(fs, "E", value)
  OBVIOUS
<1>2. fs \in UpdateFields
  BY DEF UpdateWalk
<1>3. t = [fs EXCEPT !.eventTime = <<value>>] /\ <<value>> \in Seq(BOOLEAN)
  BY <1>1, FieldRead
<1>4. /\ h["e"] = g["e"] /\ h["s"] = g["s"] /\ h["U"] = g["U"] /\ h["u"] = g["u"]
      /\ \A d \in SideKeys : h[d] = g[d]
  BY KeyFacts DEF SideKeys
<1>5. /\ t \in UpdateFields /\ t.eventTime = <<value>> /\ t.failed = fs.failed
      /\ t.instrument = fs.instrument /\ t.updates = fs.updates /\ t.deferred = fs.deferred
      /\ t.sidesRead = fs.sidesRead /\ t.eventSeen = fs.eventSeen
      /\ t.first = fs.first /\ t.last = fs.last
  BY <1>2, <1>3 DEF UpdateFields
<1>6. SidesStand(t, h)
  BY <1>4, <1>5, SidesFrame DEF UpdateWalk
<1>7. Holds(t.eventTime, h["E"])
  BY <1>5 DEF Holds
<1>8. UpdateWalk(t, h)
  BY <1>4, <1>5, <1>6, <1>7 DEF UpdateWalk
<1> QED BY <1>1, <1>5, <1>8 DEF UpdateWalk

(* "U": the last one counts. *)
LEMMA ReadFirst ==
  ASSUME NEW fs, NEW g, NEW h, UpdateWalk(fs, g), IsMessage(g), NEW value \in UpdateIds,
         h["U"] # <<>>, Last(h["U"]) = value, \A k \in Keys : k # "U" => h[k] = g[k]
  PROVE  LET t == ReadField(fs, "U", value) IN
         t \in UpdateFields /\ ~ t.failed /\ UpdateWalk(t, h)
<1>1. PICK t : t = ReadField(fs, "U", value)
  OBVIOUS
<1>2. fs \in UpdateFields
  BY DEF UpdateWalk
<1>3. t = [fs EXCEPT !.first = <<value>>] /\ <<value>> \in Seq(UpdateIds)
  BY <1>1, FieldRead
<1>4. /\ h["e"] = g["e"] /\ h["s"] = g["s"] /\ h["E"] = g["E"] /\ h["u"] = g["u"]
      /\ \A d \in SideKeys : h[d] = g[d]
  BY KeyFacts DEF SideKeys
<1>5. /\ t \in UpdateFields /\ t.first = <<value>> /\ t.failed = fs.failed
      /\ t.instrument = fs.instrument /\ t.updates = fs.updates /\ t.deferred = fs.deferred
      /\ t.sidesRead = fs.sidesRead /\ t.eventSeen = fs.eventSeen
      /\ t.eventTime = fs.eventTime /\ t.last = fs.last
  BY <1>2, <1>3 DEF UpdateFields
<1>6. SidesStand(t, h)
  BY <1>4, <1>5, SidesFrame DEF UpdateWalk
<1>7. Holds(t.first, h["U"])
  BY <1>5 DEF Holds
<1>8. UpdateWalk(t, h)
  BY <1>4, <1>5, <1>6, <1>7 DEF UpdateWalk
<1> QED BY <1>1, <1>5, <1>8 DEF UpdateWalk

(* "u": the last one counts. *)
LEMMA ReadLast ==
  ASSUME NEW fs, NEW g, NEW h, UpdateWalk(fs, g), IsMessage(g), NEW value \in UpdateIds,
         h["u"] # <<>>, Last(h["u"]) = value, \A k \in Keys : k # "u" => h[k] = g[k]
  PROVE  LET t == ReadField(fs, "u", value) IN
         t \in UpdateFields /\ ~ t.failed /\ UpdateWalk(t, h)
<1>1. PICK t : t = ReadField(fs, "u", value)
  OBVIOUS
<1>2. fs \in UpdateFields
  BY DEF UpdateWalk
<1>3. t = [fs EXCEPT !.last = <<value>>] /\ <<value>> \in Seq(UpdateIds)
  BY <1>1, FieldRead
<1>4. /\ h["e"] = g["e"] /\ h["s"] = g["s"] /\ h["E"] = g["E"] /\ h["U"] = g["U"]
      /\ \A d \in SideKeys : h[d] = g[d]
  BY KeyFacts DEF SideKeys
<1>5. /\ t \in UpdateFields /\ t.last = <<value>> /\ t.failed = fs.failed
      /\ t.instrument = fs.instrument /\ t.updates = fs.updates /\ t.deferred = fs.deferred
      /\ t.sidesRead = fs.sidesRead /\ t.eventSeen = fs.eventSeen
      /\ t.eventTime = fs.eventTime /\ t.first = fs.first
  BY <1>2, <1>3 DEF UpdateFields
<1>6. SidesStand(t, h)
  BY <1>4, <1>5, SidesFrame DEF UpdateWalk
<1>7. Holds(t.last, h["u"])
  BY <1>5 DEF Holds
<1>8. UpdateWalk(t, h)
  BY <1>4, <1>5, <1>6, <1>7 DEF UpdateWalk
<1> QED BY <1>1, <1>5, <1>8 DEF UpdateWalk

(* "s": an unknown symbol offends; with a known one, sides may be read. *)
LEMMA ReadSymbol ==
  ASSUME NEW fs, NEW g, NEW h, UpdateWalk(fs, g), IsMessage(g), NEW value \in Known \cup {Unknown},
         g["s"] = <<>>, h["s"] = Append(g["s"], value), \A k \in Keys : k # "s" => h[k] = g[k]
  PROVE  LET t == ReadField(fs, "s", value) IN
         t \in UpdateFields /\ (t.failed => UpdateOffends(h)) /\ (~ t.failed => UpdateWalk(t, h))
<1>1. PICK t : t = ReadField(fs, "s", value)
  OBVIOUS
<1>2. fs \in UpdateFields
  BY DEF UpdateWalk
<1>3. t = IF value \in Known THEN [fs EXCEPT !.instrument = <<value>>] ELSE Failed(fs)
  BY <1>1, FieldRead
<1>4. /\ h["e"] = g["e"] /\ h["E"] = g["E"] /\ h["U"] = g["U"] /\ h["u"] = g["u"]
      /\ \A d \in SideKeys : h[d] = g[d]
  BY KeyFacts DEF SideKeys
<1>5. h["s"] = <<value>>
  OBVIOUS
<1>6. ToSet(h["s"]) = {value}
  BY <1>5 DEF ToSet
<1>7. CASE value \notin Known
  <2>1. t = Failed(fs) /\ value = Unknown
    BY <1>3, <1>7
  <2>2. UpdateOffends(h)
    BY <1>6, <2>1 DEF UpdateOffends
  <2> QED BY <1>1, <1>2, <2>1, <2>2, UpdateFailed
<1>8. CASE value \in Known
  <2>1. t = [fs EXCEPT !.instrument = <<value>>] /\ <<value>> \in Seq(Known)
    BY <1>3, <1>8
  <2>2. /\ t \in UpdateFields /\ t.instrument = <<value>> /\ t.failed = fs.failed
        /\ t.updates = fs.updates /\ t.deferred = fs.deferred
        /\ t.sidesRead = fs.sidesRead /\ t.eventSeen = fs.eventSeen
        /\ t.eventTime = fs.eventTime /\ t.first = fs.first /\ t.last = fs.last
    BY <1>2, <2>1 DEF UpdateFields
  <2>3. SidesStand(fs, g) /\ fs.instrument = <<>>
    BY DEF UpdateWalk
  <2>4. SidesStand(t, h)
    BY <1>4, <2>2, <2>3, SidesWithSymbol
  <2>5. Unknown \notin ToSet(h["s"])
    BY <1>6, <1>8, DecoderConstants
  <2>6. UpdateWalk(t, h)
    BY <1>4, <1>5, <2>2, <2>4, <2>5 DEF UpdateWalk
  <2> QED BY <1>1, <2>2, <2>6 DEF UpdateWalk
<1> QED BY <1>7, <1>8

(* The two sides. *)
LEMMA OtherSide ==
  \A side \in SideKeys : \E other \in SideKeys : other # side /\ SideKeys = {side, other}
BY DEF SideKeys

(* A side that cannot be read makes the message offend. *)
LEMMA SideOffends ==
  ASSUME NEW u, NEW s \in Known, NEW g, NEW R \in SUBSET SideKeys, Gathered(u, s, g, R),
         NEW side \in SideKeys, side \notin R, Len(g[side]) = 1,
         \A d \in SideKeys : g[d] \in Seq(Seq(RawLevels)) /\ Len(g[d]) <= 1,
         g["s"] # <<>>, g["s"][1] = s, ~ ReadsInto(g[side][1], s, u)
  PROVE  UpdateOffends(g)
<1>1. PICK array : array = g[side][1]
  OBVIOUS
<1>2. PICK other \in SideKeys : other # side /\ SideKeys = {side, other}
  BY OtherSide
<1>3. FlattenSeq(g[side]) = array /\ array \in Seq(RawLevels)
  <2>1. PICK v : v = g[side]
    OBVIOUS
  <2>2. PICK W : W = Seq(RawLevels)
    OBVIOUS
  <2>3. v \in Seq(W) /\ Len(v) = 1
    BY <2>1, <2>2
  <2>4. v[1] \in W
    BY <2>3
  <2>5. FlattenSeq(v) = v[1]
    BY <2>3, FlattenOne
  <2> QED BY <1>1, <2>1, <2>2, <2>4, <2>5
<1>4. CASE \E k \in DOMAIN array : ~ Readable(array[k], s)
  <2>1. PICK k \in DOMAIN array : ~ Readable(array[k], s)
    BY <1>4
  <2>2. array[k] \in ToSet(FlattenSeq(g[side]))
    BY <1>3, <2>1 DEF ToSet
  <2> QED BY <2>1, <2>2 DEF UpdateOffends
<1>5. CASE Len(u) + Len(array) > LevelLimit
  <2>1. /\ Len(u) <= Len(FlattenSeq(g[other]))
        /\ Len(u) \in Nat /\ Len(FlattenSeq(g[other])) \in Nat
    <3>1. Len(g[other]) <= 1 /\ \A d \in SideKeys : g[d] \in Seq(Seq(RawLevels))
      BY <1>2
    <3> QED BY <1>2, <3>1, GatheredLength
  <2>2. Len(array) \in Nat /\ LevelLimit \in Nat
    BY <1>3, DecoderConstants
  <2>3. Len(FlattenSeq(g[other])) + Len(FlattenSeq(g[side])) > LevelLimit
    BY <1>3, <1>5, <2>1, <2>2
  <2>4. \/ other = "b" /\ side = "a"
        \/ other = "a" /\ side = "b"
    BY <1>2 DEF SideKeys
  <2>5. Len(FlattenSeq(g["b"])) + Len(FlattenSeq(g["a"])) > LevelLimit
    <3>1. CASE other = "b" /\ side = "a"
      BY <2>3, <3>1
    <3>2. CASE other = "a" /\ side = "b"
      <4>1. Len(FlattenSeq(g["a"])) + Len(FlattenSeq(g["b"])) > LevelLimit
        BY <2>3, <3>2
      <4>2. Len(FlattenSeq(g["a"])) \in Nat /\ Len(FlattenSeq(g["b"])) \in Nat
        BY <1>3, <2>1, <2>2, <3>2
      <4> QED BY <4>1, <4>2, <2>2
    <3> QED BY <2>4, <3>1, <3>2
  <2> QED BY <2>5 DEF UpdateOffends
<1>6. Len(u) + Len(array) <= LevelLimit \/ Len(u) + Len(array) > LevelLimit
  <2>1. Len(u) \in Nat
    <3>1. Len(g[other]) <= 1 /\ \A d \in SideKeys : g[d] \in Seq(Seq(RawLevels))
      BY <1>2
    <3> QED BY <1>2, <3>1, GatheredLength
  <2> QED BY <1>3, <2>1, DecoderConstants
<1> QED BY <1>1, <1>4, <1>5, <1>6 DEF ReadsInto

(* "b" and "a": a side that came before offends; otherwise it is read or put off. *)
LEMMA ReadSideField ==
  ASSUME NEW fs, NEW g, NEW h, UpdateWalk(fs, g), IsMessage(g), IsMessage(h), NEW side \in SideKeys,
         NEW array \in LevelArrays, h[side] = Append(g[side], array),
         \A k \in Keys : k # side => h[k] = g[k]
  PROVE  LET t == ReadField(fs, side, array) IN
         t \in UpdateFields /\ (t.failed => UpdateOffends(h)) /\ (~ t.failed => UpdateWalk(t, h))
<1>1. PICK t : t = ReadField(fs, side, array)
  OBVIOUS
<1>2. fs \in UpdateFields /\ SidesStand(fs, g) /\ SideStands(fs, g, side) /\ ~ fs.failed
  BY DEF UpdateWalk, SidesStand
<1>3. /\ Already(fs, side) => t = Failed(fs)
      /\ ~ Already(fs, side) /\ fs.instrument # <<>> =>
           t = ReadSide(WithSide(fs, side), side, array)
      /\ ~ Already(fs, side) /\ fs.instrument = <<>> => t = PutOff(fs, side, array)
  BY <1>1, SideFieldRead
<1>4. /\ h["e"] = g["e"] /\ h["E"] = g["E"] /\ h["U"] = g["U"] /\ h["u"] = g["u"] /\ h["s"] = g["s"]
      /\ \A d \in SideKeys : d # side => h[d] = g[d]
  BY KeyFacts DEF SideKeys
<1>5. /\ g[side] \in Seq(LevelArrays)
      /\ \A d \in SideKeys : h[d] \in Seq(Seq(RawLevels))
  BY MessageFacts
<1>6. CASE Already(fs, side)
  <2>1. t = Failed(fs)
    BY <1>3, <1>6
  <2>2. Len(g[side]) = 1
    BY <1>2, <1>6 DEF SideStands, Already, None
  <2>3. Len(h[side]) > 1
    BY <1>5, <2>2
  <2>4. UpdateOffends(h)
    BY <2>3 DEF UpdateOffends
  <2> QED BY <1>1, <1>2, <2>1, <2>4, UpdateFailed
<1>7. ASSUME ~ Already(fs, side)
      PROVE  /\ g[side] = <<>> /\ ~ fs.sidesRead[side] /\ fs.deferred[side] = <<>>
             /\ h[side] = <<array>> /\ Len(h[side]) = 1 /\ h[side][1] = array
             /\ \A d \in SideKeys : Len(h[d]) <= 1
             /\ side \notin SidesRead(fs) /\ SidesRead(fs) \in SUBSET SideKeys
  <2>1. g[side] = <<>> /\ ~ fs.sidesRead[side] /\ fs.deferred[side] = <<>>
    BY <1>2, <1>7 DEF SideStands, Already, None
  <2>2. h[side] = <<array>>
    BY <2>1
  <2>3. Len(h[side]) = 1 /\ h[side][1] = array
    BY <2>2
  <2>4. ASSUME NEW d \in SideKeys
        PROVE  Len(h[d]) <= 1
    <3>1. CASE d = side
      BY <2>3, <3>1
    <3>2. CASE d # side
      <4>1. h[d] = g[d] /\ SideStands(fs, g, d)
        BY <1>2, <1>4, <3>2 DEF SidesStand
      <4>2. g[d] = <<>> \/ Len(g[d]) = 1
        BY <4>1 DEF SideStands
      <4>3. Len(g[d]) = 0 \/ Len(g[d]) = 1
        BY <4>2
      <4>4. PICK n : n = Len(h[d])
        OBVIOUS
      <4>5. n = 0 \/ n = 1
        BY <4>1, <4>3, <4>4
      <4>6. n <= 1
        BY <4>5
      <4> QED BY <4>4, <4>6
    <3> QED BY <3>1, <3>2
  <2> QED BY <2>1, <2>2, <2>3, <2>4 DEF SidesRead
<1>8. ASSUME ~ Already(fs, side), fs.instrument = <<>>
      PROVE  t \in UpdateFields /\ ~ t.failed /\ UpdateWalk(t, h)
  <2>1. t = PutOff(fs, side, array)
    BY <1>3, <1>8
  <2>2. /\ t \in UpdateFields /\ t.deferred[side] = <<array>>
        /\ \A d \in SideKeys : d # side => t.deferred[d] = fs.deferred[d]
        /\ t.instrument = fs.instrument /\ t.updates = fs.updates /\ t.sidesRead = fs.sidesRead
        /\ t.eventSeen = fs.eventSeen /\ t.eventTime = fs.eventTime /\ t.first = fs.first
        /\ t.last = fs.last /\ t.failed = fs.failed
    BY <1>2, <2>1, DeferredSet
  <2>3. SideStands(t, h, side)
    BY <1>7, <1>8, <2>2 DEF SideStands
  <2>4. ASSUME NEW d \in SideKeys, d # side
        PROVE  SideStands(t, h, d)
    BY <1>2, <1>4, <2>2, <2>4 DEF SideStands, SidesStand
  <2>5. SidesRead(t) = SidesRead(fs)
    BY <2>2 DEF SidesRead
  <2>6. Gathered(t.updates, t.instrument[1], h, SidesRead(t))
    <3>1. PICK u : u = t.updates
      OBVIOUS
    <3>2. PICK s : s = t.instrument[1]
      OBVIOUS
    <3>3. PICK R : R = SidesRead(t)
      OBVIOUS
    <3>4. Gathered(u, s, g, R)
      BY <1>2, <2>2, <2>5, <3>1, <3>2, <3>3 DEF SidesStand
    <3>5. \A d \in R : h[d] = g[d]
      BY <1>4, <1>7, <1>8, <2>5, <3>3
    <3>6. Gathered(u, s, h, R)
      BY <3>4, <3>5, GatheredFrame
    <3> QED BY <3>1, <3>2, <3>3, <3>6
  <2>7. SidesStand(t, h)
    BY <2>3, <2>4, <2>6 DEF SidesStand
  <2>8. UpdateWalk(t, h)
    BY <1>4, <2>2, <2>7 DEF UpdateWalk
  <2> QED BY <1>2, <2>2, <2>8
<1>9. ASSUME ~ Already(fs, side), fs.instrument # <<>>
      PROVE  t \in UpdateFields /\ (t.failed => UpdateOffends(h)) /\ (~ t.failed => UpdateWalk(t, h))
  <2>1. PICK q : q = WithSide(fs, side)
    OBVIOUS
  <2>2. /\ q \in UpdateFields /\ q.sidesRead[side]
        /\ \A d \in SideKeys : d # side => (q.sidesRead[d] <=> fs.sidesRead[d])
        /\ q.instrument = fs.instrument /\ q.updates = fs.updates /\ q.deferred = fs.deferred
        /\ q.eventSeen = fs.eventSeen /\ q.eventTime = fs.eventTime /\ q.first = fs.first
        /\ q.last = fs.last /\ q.failed = fs.failed
    BY <1>2, <2>1, SideReadSet
  <2>3. PICK s : s = q.instrument[1]
    OBVIOUS
  <2>4. PICK u : u = q.updates
    OBVIOUS
  <2>5. PICK R : R = SidesRead(fs)
    OBVIOUS
  <2>6. t = ReadSide(q, side, array) /\ q.instrument # <<>>
    BY <1>3, <1>9, <2>1, <2>2
  <2>7. /\ ReadSide(q, side, array) \in UpdateFields
        /\ ReadsInto(array, q.instrument[1], q.updates) =>
             ReadSide(q, side, array) =
               [q EXCEPT !.updates = Appended(array, q.instrument[1], side, @)]
        /\ ~ ReadsInto(array, q.instrument[1], q.updates) =>
             ReadSide(q, side, array) = Failed(q)
        /\ q.instrument[1] \in Known
        /\ Appended(array, q.instrument[1], side, q.updates) \in Seq(Updates)
    BY <2>2, <2>6, ReadSideFacts
  <2>8. /\ t \in UpdateFields /\ s \in Known /\ u \in Seq(Updates)
        /\ R \in SUBSET SideKeys /\ side \notin R
    <3>1. u \in Seq(Updates)
      BY <2>2, <2>4, UpdateParts
    <3> QED BY <1>7, <1>9, <2>3, <2>5, <2>6, <2>7, <3>1
  <2>9. Gathered(u, s, h, R)
    <3>1. Gathered(u, s, g, R)
      BY <1>2, <2>2, <2>3, <2>4, <2>5 DEF SidesStand
    <3>2. \A d \in R : h[d] = g[d]
      BY <1>4, <2>8
    <3> QED BY <3>1, <3>2, GatheredFrame
  <2>10. Len(h[side]) = 1 /\ h[side][1] = array /\ \A d \in SideKeys : Len(h[d]) <= 1
    BY <1>7, <1>9
  <2>11. h["s"] # <<>> /\ h["s"][1] = s
    BY <1>4, <1>9, <2>2, <2>3 DEF UpdateWalk
  <2>12. CASE ~ ReadsInto(array, s, u)
    <3>1. t = Failed(q)
      BY <2>3, <2>4, <2>6, <2>7, <2>12
    <3>2. ~ ReadsInto(h[side][1], s, u)
      BY <2>10, <2>12
    <3>3. \A d \in SideKeys : h[d] \in Seq(Seq(RawLevels)) /\ Len(h[d]) <= 1
      BY <1>5, <2>10
    <3>4. UpdateOffends(h)
      BY <2>8, <2>9, <2>10, <2>11, <3>2, <3>3, SideOffends
    <3> QED BY <2>2, <3>1, <3>4, UpdateFailed
  <2>13. CASE ReadsInto(array, s, u)
    <3>1. PICK w : w = Appended(array, s, side, u)
      OBVIOUS
    <3>2. t = [q EXCEPT !.updates = w] /\ w \in Seq(Updates)
      BY <2>3, <2>4, <2>6, <2>7, <2>13, <3>1
    <3>3. /\ t \in UpdateFields /\ t.updates = w
          /\ t.instrument = q.instrument /\ t.deferred = q.deferred /\ t.sidesRead = q.sidesRead
          /\ t.eventSeen = q.eventSeen /\ t.eventTime = q.eventTime /\ t.first = q.first
          /\ t.last = q.last /\ t.failed = q.failed
      BY <2>2, <3>2, UpdatesSet
    <3>4. SidesRead(t) = R \cup {side}
      BY <2>2, <2>5, <3>3 DEF SidesRead
    <3>5. Gathered(w, s, h, R \cup {side})
      <4>1. h[side][1] \in Seq(RawLevels) /\ ReadsInto(h[side][1], s, u)
        BY <2>10, <2>13, DecoderConstants
      <4>2. Gathered(Appended(h[side][1], s, side, u), s, h, R \cup {side})
        BY <2>8, <2>9, <2>10, <4>1, GatherMore
      <4> QED BY <2>10, <3>1, <4>2
    <3>6. SideStands(t, h, side)
      BY <1>7, <1>9, <2>2, <2>10, <3>3 DEF SideStands
    <3>7. ASSUME NEW d \in SideKeys, d # side
          PROVE  SideStands(t, h, d)
      BY <1>2, <1>4, <2>2, <3>3, <3>7 DEF SideStands, SidesStand
    <3>8. SidesStand(t, h)
      <4>1. Gathered(t.updates, t.instrument[1], h, SidesRead(t))
        BY <2>2, <2>3, <3>3, <3>4, <3>5
      <4> QED BY <3>6, <3>7, <4>1 DEF SidesStand
    <3>9. UpdateWalk(t, h)
      BY <1>2, <1>4, <2>2, <3>3, <3>8 DEF UpdateWalk
    <3> QED BY <3>3, <3>9, <2>2, <1>2
  <2> QED BY <2>12, <2>13
<1> QED BY <1>1, <1>6, <1>8, <1>9

(* decode: a side that was put off is read behind the ones read before. *)
LEMMA DeferredRead ==
  ASSUME NEW fs \in UpdateFields, ~ fs.failed, fs.instrument # <<>>, NEW s, s = fs.instrument[1],
         NEW g, g["s"] # <<>>, g["s"][1] = s,
         \A d \in SideKeys : g[d] \in Seq(Seq(RawLevels)) /\ Len(g[d]) <= 1,
         NEW R \in SUBSET SideKeys, Gathered(fs.updates, s, g, R), NEW side \in SideKeys,
         fs.deferred[side] # <<>> => side \notin R /\ Len(g[side]) = 1 /\ fs.deferred[side] = g[side],
         NEW t, t = ReadDeferred(fs, side)
  PROVE  /\ t \in UpdateFields /\ t.instrument = fs.instrument /\ t.deferred = fs.deferred
         /\ t.first = fs.first /\ t.last = fs.last
         /\ t.failed => UpdateOffends(g)
         /\ ~ t.failed => Gathered(t.updates, s, g, IF fs.deferred[side] = <<>> THEN R ELSE R \cup {side})
<1>1. CASE fs.deferred[side] = <<>>
  <2>1. t = fs
    BY <1>1 DEF ReadDeferred, None
  <2> QED BY <1>1, <2>1
<1>2. CASE fs.deferred[side] # <<>>
  <2>1. PICK array : array = g[side][1]
    OBVIOUS
  <2>2. side \notin R /\ Len(g[side]) = 1 /\ fs.deferred[side] = g[side]
    BY <1>2
  <2>3. t = ReadSide(fs, side, array)
    BY <1>2, <2>1, <2>2 DEF ReadDeferred, None
  <2>4. array \in LevelArrays /\ array \in Seq(RawLevels)
    <3>1. fs.deferred \in [SideKeys -> Seq(LevelArrays)]
      BY UpdateParts
    <3>2. PICK v : v = fs.deferred[side]
      OBVIOUS
    <3>3. v \in Seq(LevelArrays) /\ Len(v) = 1
      BY <2>2, <3>1, <3>2
    <3>4. v[1] \in LevelArrays
      BY <3>3
    <3> QED BY <2>1, <2>2, <3>2, <3>4, DecoderConstants
  <2>5. PICK u : u = fs.updates
    OBVIOUS
  <2>6. /\ ReadSide(fs, side, array) \in UpdateFields
        /\ ReadsInto(array, fs.instrument[1], fs.updates) =>
             ReadSide(fs, side, array) =
               [fs EXCEPT !.updates = Appended(array, fs.instrument[1], side, @)]
        /\ ~ ReadsInto(array, fs.instrument[1], fs.updates) =>
             ReadSide(fs, side, array) = Failed(fs)
        /\ fs.instrument[1] \in Known
        /\ Appended(array, fs.instrument[1], side, fs.updates) \in Seq(Updates)
    BY <2>4, ReadSideFacts
  <2>7. s \in Known /\ u \in Seq(Updates) /\ Gathered(u, s, g, R)
    <3>1. u \in Seq(Updates)
      BY <2>5, UpdateParts
    <3> QED BY <2>5, <2>6, <3>1
  <2>8. CASE ~ ReadsInto(array, s, u)
    <3>1. t = Failed(fs)
      BY <2>3, <2>5, <2>6, <2>8
    <3>2. ~ ReadsInto(g[side][1], s, u)
      BY <2>1, <2>8
    <3>3. UpdateOffends(g)
      BY <2>2, <2>7, <3>2, SideOffends
    <3>4. /\ t \in UpdateFields /\ t.instrument = fs.instrument /\ t.deferred = fs.deferred
          /\ t.first = fs.first /\ t.last = fs.last /\ t.failed
      BY <3>1 DEF Failed, UpdateFields
    <3> QED BY <3>3, <3>4
  <2>9. CASE ReadsInto(array, s, u)
    <3>1. PICK w : w = Appended(array, s, side, u)
      OBVIOUS
    <3>2. t = [fs EXCEPT !.updates = w] /\ w \in Seq(Updates)
      BY <2>3, <2>5, <2>6, <2>9, <3>1
    <3>3. /\ t \in UpdateFields /\ t.updates = w
          /\ t.instrument = fs.instrument /\ t.deferred = fs.deferred /\ t.sidesRead = fs.sidesRead
          /\ t.eventSeen = fs.eventSeen /\ t.eventTime = fs.eventTime /\ t.first = fs.first
          /\ t.last = fs.last /\ t.failed = fs.failed
      BY <3>2, UpdatesSet
    <3>4. g[side][1] \in Seq(RawLevels) /\ ReadsInto(g[side][1], s, u)
      BY <2>1, <2>4, <2>9
    <3>5. Gathered(Appended(g[side][1], s, side, u), s, g, R \cup {side})
      BY <2>2, <2>7, <3>4, GatherMore
    <3>6. Gathered(w, s, g, R \cup {side})
      BY <2>1, <3>1, <3>5
    <3> QED BY <1>2, <3>3, <3>6
  <2> QED BY <2>8, <2>9
<1> QED BY <1>1, <1>2

(* With both sides read, the levels are the message's, and none is wrong. *)
LEMMA BothSidesRead ==
  ASSUME NEW u, NEW s \in Known, NEW g, NEW R, Gathered(u, s, g, R), \A d \in SideKeys : d \in R,
         \A d \in SideKeys : g[d] \in Seq(Seq(RawLevels)) /\ Len(g[d]) <= 1,
         FALSE \notin ToSet(g["e"]), Unknown \notin ToSet(g["s"]), g["s"][1] = s
  PROVE  UpdateWhole(u, s, g) /\ ~ UpdateOffends(g)
<1>1. /\ Len(u) <= LevelLimit
      /\ \A d \in SideKeys : Len(g[d]) = 1 /\ \A k \in DOMAIN g[d][1] : Readable(g[d][1][k], s)
  BY DEF Gathered
<1>2. "b" \in SideKeys /\ "a" \in SideKeys /\ "b" # "a"
  BY DEF SideKeys
<1>3. PICK x, y \in SideKeys :
        x # y /\ R = {x, y} /\ u = Appended(g[y][1], s, y, Units(g[x][1], s, x))
  <2>1. R # {}
    BY <1>2
  <2>2. ~ \E x \in SideKeys : R = {x} /\ u = Units(g[x][1], s, x)
    BY <1>2
  <2> QED BY <2>1, <2>2 DEF Gathered
<1>4. ASSUME NEW d \in SideKeys
      PROVE  FlattenSeq(g[d]) = g[d][1] /\ g[d][1] \in Seq(RawLevels)
  <2>1. PICK v : v = g[d]
    OBVIOUS
  <2>2. PICK W : W = Seq(RawLevels)
    OBVIOUS
  <2>3. v \in Seq(W) /\ Len(v) = 1
    BY <1>1, <2>1, <2>2
  <2>4. v[1] \in W
    BY <2>3
  <2>5. FlattenSeq(v) = v[1]
    BY <2>3, FlattenOne
  <2> QED BY <2>1, <2>2, <2>4, <2>5
<1>5. UpdateWhole(u, s, g)
  <2>1. u = Appended(FlattenSeq(g[y]), s, y, Appended(FlattenSeq(g[x]), s, x, <<>>))
    BY <1>3, <1>4 DEF Units
  <2> QED BY <1>3, <2>1 DEF UpdateWhole
<1>6. Len(u) = Len(g[x][1]) + Len(g[y][1])
  <2>1. PICK a : a = g[x][1]
    OBVIOUS
  <2>2. PICK b : b = g[y][1]
    OBVIOUS
  <2>3. a \in Seq(RawLevels) /\ b \in Seq(RawLevels) /\ <<>> \in Seq(Updates)
    BY <1>4, <2>1, <2>2
  <2>4. PICK m : m = <<>>
    OBVIOUS
  <2>5. PICK p : p = Appended(a, s, x, m)
    OBVIOUS
  <2>6. p \in Seq(Updates) /\ Len(p) = Len(m) + Len(a)
    BY <2>3, <2>4, <2>5, AppendedFacts
  <2>7. PICK q : q = Appended(b, s, y, p)
    OBVIOUS
  <2>8. Len(q) = Len(p) + Len(b)
    BY <2>3, <2>6, <2>7, AppendedFacts
  <2>9. Len(m) = 0 /\ Len(a) \in Nat /\ Len(b) \in Nat
    BY <2>3, <2>4
  <2>10. u = q
    BY <1>3, <2>1, <2>2, <2>4, <2>5, <2>7 DEF Units
  <2>11. Len(q) = Len(a) + Len(b)
    BY <2>6, <2>8, <2>9
  <2> QED BY <2>1, <2>2, <2>10, <2>11
<1>7. Len(FlattenSeq(g["b"])) + Len(FlattenSeq(g["a"])) = Len(u)
  <2>1. (x = "a" /\ y = "b") \/ (x = "b" /\ y = "a")
    BY <1>3 DEF SideKeys
  <2>2. PICK m : m = Len(g["a"][1])
    OBVIOUS
  <2>3. PICK n : n = Len(g["b"][1])
    OBVIOUS
  <2>4. m \in Nat /\ n \in Nat
    BY <1>2, <1>4, <2>2, <2>3
  <2>5. Len(FlattenSeq(g["b"])) = n /\ Len(FlattenSeq(g["a"])) = m
    BY <1>2, <1>4, <2>2, <2>3
  <2>6. Len(u) = m + n \/ Len(u) = n + m
    BY <1>6, <2>1, <2>2, <2>3
  <2> QED BY <2>4, <2>5, <2>6
<1>8. ~ Len(FlattenSeq(g["b"])) + Len(FlattenSeq(g["a"])) > LevelLimit
  <2>1. PICK n : n = Len(u)
    OBVIOUS
  <2>2. n \in Nat
    <3>1. PICK i : i = Len(g[x][1])
      OBVIOUS
    <3>2. PICK j : j = Len(g[y][1])
      OBVIOUS
    <3>3. i \in Nat /\ j \in Nat
      BY <1>3, <1>4, <3>1, <3>2
    <3>4. n = i + j
      BY <1>6, <2>1, <3>1, <3>2
    <3> QED BY <3>3, <3>4
  <2>3. ~ n > LevelLimit
    BY <1>1, <2>1, <2>2, DecoderConstants
  <2> QED BY <1>7, <2>1, <2>3
<1>9. \A d \in SideKeys : \A lv \in ToSet(FlattenSeq(g[d])) : Readable(lv, s)
  BY <1>1, <1>4 DEF ToSet
<1>10. ~ \E d \in SideKeys : Len(g[d]) > 1
  BY <1>1
<1>11. ~ UpdateOffends(g)
  BY <1>8, <1>9, <1>10 DEF UpdateOffends
<1> QED BY <1>5, <1>11

(* Sequences of one. *)
LEMMA OneValue ==
  /\ \A x : <<x>>[1] = x /\ <<x>> # <<>>
  /\ \A S : \A v \in Seq(S) : v # <<>> => v[1] \in S /\ Last(v) \in S
BY DEF Last

(* Sequences of at most one. *)
LEMMA ShortLength ==
  /\ \A v : v = <<>> \/ Len(v) = 1 => Len(v) <= 1
  /\ \A v : Len(v) = 1 => v # <<>>
<1>1. ASSUME NEW v, v = <<>> \/ Len(v) = 1
      PROVE  Len(v) <= 1
  <2>1. PICK n : n = Len(v)
    OBVIOUS
  <2>2. n = 0 \/ n = 1
    BY <1>1, <2>1
  <2> QED BY <2>1, <2>2
<1>2. \A v : Len(v) = 1 => v # <<>>
  OBVIOUS
<1> QED BY <1>1, <1>2

(* What decode returns of fields t that were fs before the sides put off. *)
Verdict(fs, t) ==
  IF t.failed THEN "bad field"
  ELSE IF Lacks(fs) THEN "incomplete"
  ELSE IF fs.first[1] > fs.last[1] THEN "incomplete"
  ELSE IF ~ fs.eventTime[1] THEN "incomplete"
  ELSE "ok"

(* Each verdict and its reasons. *)
LEMMA VerdictFacts ==
  ASSUME NEW fs, NEW t
  PROVE  /\ t.failed => Verdict(fs, t) = "bad field"
         /\ ~ t.failed => Verdict(fs, t) = "incomplete" \/ Verdict(fs, t) = "ok"
         /\ Verdict(fs, t) = "incomplete" => Lacks(fs) \/ fs.first[1] > fs.last[1] \/ ~ fs.eventTime[1]
         /\ Verdict(fs, t) = "ok" => ~ Lacks(fs) /\ ~ fs.first[1] > fs.last[1] /\ fs.eventTime[1]
BY DEF Verdict

(* DepthUpdateDecoder::decode, after the walk. *)
LEMMA UpdateEnds ==
  ASSUME NEW fs, NEW g, UpdateWalk(fs, g), IsMessage(g), fs.instrument # <<>>,
         NEW p, p = ReadDeferred(fs, "b"), NEW t, t = ReadDeferred(p, "a"),
         NEW d, d = Verdict(fs, t)
  PROVE  t \in UpdateFields /\ UpdateDecoded(d, t, g)
<1>1. fs \in UpdateFields /\ SidesStand(fs, g) /\ ~ fs.failed /\ fs.instrument = g["s"]
  BY DEF UpdateWalk
<1>2. PICK s : s = fs.instrument[1]
  OBVIOUS
<1>3. g["s"] # <<>> /\ g["s"][1] = s /\ s \in Known
  <2>1. PICK v : v = fs.instrument
    OBVIOUS
  <2>2. v \in Seq(Known) /\ v # <<>>
    BY <1>1, <2>1, UpdateParts
  <2>3. v[1] \in Known
    BY <2>2, OneValue
  <2> QED BY <1>1, <1>2, <2>1, <2>3
<1>4. \A side \in SideKeys : g[side] \in Seq(Seq(RawLevels)) /\ Len(g[side]) <= 1
  <2>1. ASSUME NEW side \in SideKeys
        PROVE  Len(g[side]) <= 1
    <3>1. g[side] = <<>> \/ Len(g[side]) = 1
      BY <1>1 DEF SidesStand, SideStands
    <3> QED BY <3>1, ShortLength
  <2> QED BY <2>1, MessageFacts
<1>5. "b" \in SideKeys /\ "a" \in SideKeys /\ "b" # "a" /\ SideKeys = {"b", "a"}
  BY DEF SideKeys
<1>6. PICK R : R = SidesRead(fs)
  OBVIOUS
<1>7. R \in SUBSET SideKeys /\ Gathered(fs.updates, s, g, R)
  BY <1>1, <1>2, <1>6 DEF SidesStand, SidesRead
<1>8. \A side \in SideKeys :
        fs.deferred[side] # <<>> => side \notin R /\ Len(g[side]) = 1 /\ fs.deferred[side] = g[side]
  BY <1>1, <1>6 DEF SidesStand, SideStands, SidesRead
<1>9. PICK Q : Q = IF fs.deferred["b"] = <<>> THEN R ELSE R \cup {"b"}
  OBVIOUS
<1>10. /\ p \in UpdateFields /\ p.instrument = fs.instrument /\ p.deferred = fs.deferred
       /\ p.first = fs.first /\ p.last = fs.last
       /\ p.failed => UpdateOffends(g)
       /\ ~ p.failed => Gathered(p.updates, s, g, Q)
  <2>1. PICK side : side = "b"
    OBVIOUS
  <2>2. side \in SideKeys /\ p = ReadDeferred(fs, side)
    BY <1>5, <2>1
  <2>3. fs.deferred[side] # <<>> => side \notin R /\ Len(g[side]) = 1 /\ fs.deferred[side] = g[side]
    BY <1>8, <2>2
  <2>4. /\ p \in UpdateFields /\ p.instrument = fs.instrument /\ p.deferred = fs.deferred
        /\ p.first = fs.first /\ p.last = fs.last
        /\ p.failed => UpdateOffends(g)
        /\ ~ p.failed => Gathered(p.updates, s, g, IF fs.deferred[side] = <<>> THEN R ELSE R \cup {side})
    BY <1>1, <1>2, <1>3, <1>4, <1>7, <2>2, <2>3, DeferredRead
  <2> QED BY <1>9, <2>1, <2>4
<1>11. CASE p.failed
  <2>1. t = p
    BY <1>11 DEF ReadDeferred
  <2>2. d = "bad field" /\ UpdateOffends(g)
    BY <1>10, <1>11, <2>1, VerdictFacts
  <2> QED BY <1>10, <2>1, <2>2 DEF UpdateDecoded
<1>12. CASE ~ p.failed
  <2>1. PICK T : T = IF p.deferred["a"] = <<>> THEN Q ELSE Q \cup {"a"}
    OBVIOUS
  <2>2. /\ t \in UpdateFields /\ t.instrument = p.instrument /\ t.deferred = p.deferred
        /\ t.first = p.first /\ t.last = p.last
        /\ t.failed => UpdateOffends(g)
        /\ ~ t.failed => Gathered(t.updates, s, g, T)
    <3>1. PICK side : side = "a"
      OBVIOUS
    <3>2. side \in SideKeys /\ t = ReadDeferred(p, side)
      BY <1>5, <3>1
    <3>3. p.deferred[side] # <<>> => side \notin Q /\ Len(g[side]) = 1 /\ p.deferred[side] = g[side]
      <4>1. side \notin R => side \notin Q
        BY <1>5, <1>9, <3>1
      <4> QED BY <1>8, <1>10, <3>2, <4>1
    <3>4. Q \in SUBSET SideKeys /\ Gathered(p.updates, s, g, Q)
      BY <1>5, <1>7, <1>9, <1>10, <1>12
    <3>5. p.instrument # <<>> /\ s = p.instrument[1]
      BY <1>2, <1>10
    <3>6. /\ t \in UpdateFields /\ t.instrument = p.instrument /\ t.deferred = p.deferred
          /\ t.first = p.first /\ t.last = p.last
          /\ t.failed => UpdateOffends(g)
          /\ ~ t.failed => Gathered(t.updates, s, g, IF p.deferred[side] = <<>> THEN Q ELSE Q \cup {side})
      BY <1>3, <1>4, <1>10, <1>12, <3>2, <3>3, <3>4, <3>5, DeferredRead
    <3> QED BY <2>1, <3>1, <3>6
  <2>3. CASE t.failed
    <3>1. d = "bad field"
      BY <2>3, VerdictFacts
    <3> QED BY <2>2, <2>3, <3>1 DEF UpdateDecoded
  <2>4. CASE ~ t.failed /\ d = "incomplete"
    <3>1. Lacks(fs) \/ fs.first[1] > fs.last[1] \/ ~ fs.eventTime[1]
      BY <2>4, VerdictFacts
    <3>2. SUFFICES ASSUME UpdateComplete(g) PROVE FALSE
      BY <2>2, <2>4 DEF UpdateDecoded
    <3>3. /\ g["e"] # <<>> /\ g["E"] # <<>> /\ g["s"] # <<>> /\ g["U"] # <<>> /\ g["u"] # <<>>
          /\ g["b"] # <<>> /\ g["a"] # <<>>
      BY <3>2 DEF UpdateComplete, UpdateKeys
    <3>4. /\ fs.eventSeen /\ fs.eventTime = <<Last(g["E"])>> /\ fs.first = <<Last(g["U"])>>
          /\ fs.last = <<Last(g["u"])>>
      BY <3>3 DEF UpdateWalk, Holds
    <3>5. fs.eventTime[1] = Last(g["E"]) /\ fs.first[1] = Last(g["U"]) /\ fs.last[1] = Last(g["u"])
      BY <3>4, OneValue
    <3>6. Last(g["U"]) <= Last(g["u"]) /\ Last(g["E"])
      BY <3>2 DEF UpdateComplete
    <3>7. Last(g["U"]) \in Nat /\ Last(g["u"]) \in Nat
      <4>1. PICK v : v = g["U"]
        OBVIOUS
      <4>2. PICK w : w = g["u"]
        OBVIOUS
      <4>3. v \in Seq(UpdateIds) /\ w \in Seq(UpdateIds) /\ v # <<>> /\ w # <<>>
        BY <3>3, <4>1, <4>2, MessageFacts
      <4>4. Last(v) \in UpdateIds /\ Last(w) \in UpdateIds
        BY <4>3, OneValue
      <4> QED BY <4>1, <4>2, <4>4, DecoderConstants
    <3>8. ~ fs.first[1] > fs.last[1]
      BY <3>5, <3>6, <3>7
    <3>9. fs.eventTime[1]
      BY <3>5, <3>6
    <3>10. \A side \in SideKeys : Already(fs, side)
      <4>1. ASSUME NEW side \in SideKeys
            PROVE  Already(fs, side)
        <5>1. g[side] # <<>> /\ SideStands(fs, g, side)
          BY <1>1, <1>5, <3>3 DEF SidesStand
        <5>2. Len(g[side]) = 1 => g[side] # <<>>
          BY ShortLength
        <5> QED BY <5>1, <5>2 DEF SideStands, Already, None
      <4> QED BY <4>1
    <3>11. /\ fs.instrument # <<>> /\ fs.first # <<>> /\ fs.last # <<>> /\ fs.eventTime # <<>>
      BY <3>4, OneValue
    <3>12. ~ Lacks(fs)
      BY <3>4, <3>10, <3>11 DEF Lacks, None
    <3> QED BY <3>1, <3>8, <3>9, <3>12
  <2>5. CASE ~ t.failed /\ d = "ok"
    <3>1. ~ Lacks(fs) /\ ~ fs.first[1] > fs.last[1] /\ fs.eventTime[1]
      BY <2>5, VerdictFacts
    <3>2. /\ fs.instrument # <<>> /\ fs.first # <<>> /\ fs.last # <<>> /\ fs.eventTime # <<>>
          /\ fs.eventSeen /\ \A side \in SideKeys : Already(fs, side)
      BY <3>1 DEF Lacks, None
    <3>3. g["E"] # <<>> /\ g["U"] # <<>> /\ g["u"] # <<>> /\ g["e"] # <<>>
      BY <3>2 DEF UpdateWalk, Holds
    <3>4. fs.eventTime = <<Last(g["E"])>> /\ fs.first = <<Last(g["U"])>> /\ fs.last = <<Last(g["u"])>>
      BY <3>3 DEF UpdateWalk, Holds
    <3>5. fs.eventTime[1] = Last(g["E"]) /\ fs.first[1] = Last(g["U"]) /\ fs.last[1] = Last(g["u"])
      BY <3>4, OneValue
    <3>6. \A side \in SideKeys : Len(g[side]) = 1 /\ (side \in R \/ fs.deferred[side] # <<>>)
      BY <1>1, <1>6, <3>2 DEF SidesStand, SideStands, SidesRead, Already, None
    <3>7. g["b"] # <<>> /\ g["a"] # <<>>
      <4>1. Len(g["b"]) = 1 /\ Len(g["a"]) = 1
        BY <1>5, <3>6
      <4> QED BY <4>1, ShortLength
    <3>8. Last(g["U"]) \in Nat /\ Last(g["u"]) \in Nat
      <4>1. PICK v : v = g["U"]
        OBVIOUS
      <4>2. PICK w : w = g["u"]
        OBVIOUS
      <4>3. v \in Seq(UpdateIds) /\ w \in Seq(UpdateIds) /\ v # <<>> /\ w # <<>>
        BY <3>3, <4>1, <4>2, MessageFacts
      <4>4. Last(v) \in UpdateIds /\ Last(w) \in UpdateIds
        BY <4>3, OneValue
      <4> QED BY <4>1, <4>2, <4>4, DecoderConstants
    <3>9. Last(g["U"]) <= Last(g["u"]) /\ Last(g["E"])
      BY <3>1, <3>5, <3>8
    <3>10. UpdateComplete(g)
      BY <1>3, <3>3, <3>7, <3>9 DEF UpdateComplete, UpdateKeys
    <3>11. \A side \in SideKeys : side \in T
      BY <1>5, <1>9, <1>10, <2>1, <3>6
    <3>12. UpdateWhole(t.updates, s, g) /\ ~ UpdateOffends(g)
      <4>1. PICK u : u = t.updates
        OBVIOUS
      <4>2. Gathered(u, s, g, T)
        BY <2>2, <2>5, <4>1
      <4>3. FALSE \notin ToSet(g["e"]) /\ Unknown \notin ToSet(g["s"])
        BY DEF UpdateWalk
      <4>4. UpdateWhole(u, s, g) /\ ~ UpdateOffends(g)
        BY <1>3, <1>4, <3>11, <4>2, <4>3, BothSidesRead
      <4> QED BY <4>1, <4>4
    <3>13. t.instrument = g["s"] /\ t.first[1] = Last(g["U"]) /\ t.last[1] = Last(g["u"])
      BY <1>1, <1>10, <2>2, <3>5
    <3> QED BY <1>3, <2>2, <2>5, <3>10, <3>12, <3>13 DEF UpdateDecoded
  <2> QED BY <2>3, <2>4, <2>5, VerdictFacts
<1> QED BY <1>11, <1>12

-----------------------------------------------------------------------------
(***************************************************************************)
(* DepthSnapshotDecoder.                                                   *)
(***************************************************************************)

(* What the run's property says of a snapshot for the instrument s. *)
SnapshotOffends(s, g) ==
  \/ FALSE \in ToSet(g["e"])
  \/ Unknown \in ToSet(g["s"])
  \/ \E side \in SideKeys : Len(FlattenSeq(g[side])) > LevelLimit
  \/ s \in Known /\ \E side \in SideKeys : \E lv \in ToSet(FlattenSeq(g[side])) : ~ Readable(lv, s)

SnapshotComplete(g) == \A key \in SnapshotKeys : g[key] # <<>>

SnapshotDecoded(d, fs, g) ==
  /\ d = "ok" => /\ SnapshotComplete(g) /\ ~ SnapshotOffends(fs.instrument, g)
                 /\ \A side \in SideKeys :
                      fs.sides[side] = Appended(FlattenSeq(g[side]), fs.instrument, side, <<>>)
  /\ d = "bad field" => SnapshotOffends(fs.instrument, g)
  /\ d = "incomplete" => ~ SnapshotComplete(g)

(* The parts of the fields. *)
LEMMA SnapshotParts ==
  ASSUME NEW fs \in SnapshotFields
  PROVE  /\ fs.instrument \in Known /\ fs.lastUpdateId \in Seq(UpdateIds)
         /\ fs.sides \in [SideKeys -> Seq(Updates)] /\ fs.seen \in [SideKeys -> BOOLEAN]
         /\ fs.failed \in BOOLEAN
BY DEF SnapshotFields

(* One side of the walk. *)
SnapshotSide(fs, g, side) ==
  /\ fs.seen[side] <=> g[side] # <<>>
  /\ fs.sides[side] = Units(FlattenSeq(g[side]), fs.instrument, side)
  /\ Len(FlattenSeq(g[side])) \in 0 .. LevelLimit
  /\ \A k \in DOMAIN FlattenSeq(g[side]) : Readable(FlattenSeq(g[side])[k], fs.instrument)

(* The walk, side by side. *)
LEMMA WalkOfSides ==
  ASSUME NEW fs, NEW g
  PROVE  SnapshotWalk(fs, g) <=>
           /\ fs \in SnapshotFields /\ ~ fs.failed
           /\ \A key \in Keys \ SnapshotKeys : g[key] = <<>>
           /\ fs.lastUpdateId = <<>> <=> g["lastUpdateId"] = <<>>
           /\ \A side \in SideKeys : SnapshotSide(fs, g, side)
BY DEF SnapshotWalk, SnapshotSide

(* lastUpdateId *)
LEMMA ReadSnapshotId ==
  ASSUME NEW fs, NEW g, NEW h, SnapshotWalk(fs, g), NEW value \in UpdateIds,
         h["lastUpdateId"] # <<>>, \A k \in Keys : k # "lastUpdateId" => h[k] = g[k]
  PROVE  LET t == ReadSnapshotField(fs, "lastUpdateId", value) IN
         t \in SnapshotFields /\ ~ t.failed /\ SnapshotWalk(t, h)
<1>1. PICK t : t = ReadSnapshotField(fs, "lastUpdateId", value)
  OBVIOUS
<1>2. fs \in SnapshotFields /\ ~ fs.failed
  BY DEF SnapshotWalk
<1>3. t = [fs EXCEPT !.lastUpdateId = <<value>>] /\ <<value>> \in Seq(UpdateIds)
  BY <1>1 DEF ReadSnapshotField
<1>4. /\ t \in SnapshotFields /\ t.lastUpdateId = <<value>> /\ t.failed = fs.failed
      /\ t.instrument = fs.instrument /\ t.sides = fs.sides /\ t.seen = fs.seen
  BY <1>2, <1>3 DEF SnapshotFields
<1>5. t.lastUpdateId # <<>>
  BY <1>4, OneValue
<1>6. /\ \A side \in SideKeys : h[side] = g[side]
      /\ \A key \in Keys \ SnapshotKeys : h[key] = g[key]
  BY KeyFacts DEF SideKeys, SnapshotKeys
<1>7. /\ \A key \in Keys \ SnapshotKeys : g[key] = <<>>
      /\ \A side \in SideKeys : SnapshotSide(fs, g, side)
  BY WalkOfSides
<1>8. \A side \in SideKeys : SnapshotSide(t, h, side)
  BY <1>4, <1>6, <1>7 DEF SnapshotSide
<1>9. \A key \in Keys \ SnapshotKeys : h[key] = <<>>
  BY <1>6, <1>7
<1>10. SnapshotWalk(t, h)
  BY <1>2, <1>4, <1>5, <1>8, <1>9, WalkOfSides
<1> QED BY <1>1, <1>2, <1>4, <1>10

(* A side with w in it. *)
Seen(fs, side, w) == [fs EXCEPT !.sides[side] = w, !.seen[side] = TRUE]

(* What changes, and what does not. *)
LEMMA SeenFacts ==
  ASSUME NEW fs \in SnapshotFields, NEW side \in SideKeys, NEW w \in Seq(Updates), NEW t,
         t = Seen(fs, side, w)
  PROVE  /\ t \in SnapshotFields /\ t.sides[side] = w /\ t.seen[side]
         /\ \A d \in SideKeys : d # side => t.sides[d] = fs.sides[d] /\ (t.seen[d] <=> fs.seen[d])
         /\ t.instrument = fs.instrument /\ t.lastUpdateId = fs.lastUpdateId /\ t.failed = fs.failed
<1>1. PICK a : a = [fs.sides EXCEPT ![side] = w]
  OBVIOUS
<1>2. PICK b : b = [fs.seen EXCEPT ![side] = TRUE]
  OBVIOUS
<1>3. fs.sides \in [SideKeys -> Seq(Updates)] /\ fs.seen \in [SideKeys -> BOOLEAN]
  BY SnapshotParts
<1>4. /\ a \in [SideKeys -> Seq(Updates)] /\ a[side] = w
      /\ \A d \in SideKeys : d # side => a[d] = fs.sides[d]
  BY <1>1, <1>3
<1>5. /\ b \in [SideKeys -> BOOLEAN] /\ b[side]
      /\ \A d \in SideKeys : d # side => (b[d] <=> fs.seen[d])
  BY <1>2, <1>3
<1>6. t = [fs EXCEPT !.sides = a, !.seen = b]
  BY <1>1, <1>2 DEF Seen, SnapshotFields
<1>7. /\ t \in SnapshotFields /\ t.sides = a /\ t.seen = b
      /\ t.instrument = fs.instrument /\ t.lastUpdateId = fs.lastUpdateId /\ t.failed = fs.failed
  BY <1>4, <1>5, <1>6 DEF SnapshotFields
<1> QED BY <1>4, <1>5, <1>7

(* A failed snapshot is for the same instrument. *)
LEMMA SnapshotFailed ==
  ASSUME NEW fs \in SnapshotFields
  PROVE  Failed(fs) \in SnapshotFields /\ Failed(fs).failed /\ Failed(fs).instrument = fs.instrument
BY DEF SnapshotFields, Failed

(* Two arrays one behind the other. *)
LEMMA JoinedArrays ==
  ASSUME NEW a \in Seq(RawLevels), NEW b \in Seq(RawLevels), NEW c, c = a \o b
  PROVE  /\ c \in Seq(RawLevels) /\ Len(c) = Len(a) + Len(b)
         /\ \A k \in DOMAIN c : (\E i \in DOMAIN a : c[k] = a[i]) \/ (\E i \in DOMAIN b : c[k] = b[i])
         /\ \A i \in DOMAIN b : b[i] \in ToSet(c)
<1>1. c \in Seq(RawLevels) /\ Len(c) = Len(a) + Len(b) /\ Len(a) \in Nat /\ Len(b) \in Nat
  OBVIOUS
<1>2. ASSUME NEW k \in DOMAIN c
      PROVE  (\E i \in DOMAIN a : c[k] = a[i]) \/ (\E i \in DOMAIN b : c[k] = b[i])
  <2>1. k \in 1 .. Len(a) + Len(b)
    BY <1>1
  <2>2. CASE k <= Len(a)
    <3>1. k \in DOMAIN a /\ c[k] = a[k]
      BY <1>1, <2>1, <2>2
    <3> QED BY <3>1
  <2>3. CASE k > Len(a)
    <3>1. k - Len(a) \in DOMAIN b /\ c[k] = b[k - Len(a)]
      BY <1>1, <2>1, <2>3
    <3> QED BY <3>1
  <2> QED BY <1>1, <2>1, <2>2, <2>3
<1>3. ASSUME NEW i \in DOMAIN b
      PROVE  b[i] \in ToSet(c)
  <2>1. i \in 1 .. Len(b)
    OBVIOUS
  <2>2. Len(a) + i \in DOMAIN c /\ c[Len(a) + i] = b[i]
    BY <1>1, <2>1
  <2> QED BY <2>2 DEF ToSet
<1> QED BY <1>1, <1>2, <1>3

(* bids and asks *)
LEMMA ReadSnapshotSide ==
  ASSUME NEW fs, NEW g, NEW h, SnapshotWalk(fs, g), IsMessage(g), NEW side \in SideKeys,
         NEW array \in LevelArrays, Len(g[side]) <= 1, h[side] = Append(g[side], array),
         \A k \in Keys : k # side => h[k] = g[k]
  PROVE  LET t == ReadSnapshotField(fs, side, array) IN
         /\ t \in SnapshotFields /\ t.instrument = fs.instrument
         /\ t.failed => SnapshotOffends(fs.instrument, h)
         /\ ~ t.failed => SnapshotWalk(t, h)
<1>1. PICK t : t = ReadSnapshotField(fs, side, array)
  OBVIOUS
<1>2. /\ fs \in SnapshotFields /\ ~ fs.failed
      /\ \A key \in Keys \ SnapshotKeys : g[key] = <<>>
      /\ fs.lastUpdateId = <<>> <=> g["lastUpdateId"] = <<>>
      /\ \A d \in SideKeys : SnapshotSide(fs, g, d)
  BY WalkOfSides
<1>3. PICK s : s = fs.instrument
  OBVIOUS
<1>4. PICK out : out = fs.sides[side]
  OBVIOUS
<1>5. PICK a : a = FlattenSeq(g[side])
  OBVIOUS
<1>6. PICK c : c = a \o array
  OBVIOUS
<1>7. /\ a \in Seq(RawLevels) /\ array \in Seq(RawLevels) /\ FlattenSeq(h[side]) = c
      /\ s \in Known /\ out \in Seq(Updates)
  <2>1. PICK v : v = g[side]
    OBVIOUS
  <2>2. PICK W : W = Seq(RawLevels)
    OBVIOUS
  <2>3. v \in Seq(W) /\ Len(v) <= 1 /\ array \in W /\ FromEmpty(W)
    BY <2>1, <2>2, MessageFacts, ArraysFromEmpty
  <2>4. FlattenSeq(Append(v, array)) = FlattenSeq(v) \o array /\ FlattenSeq(v) \in W
    BY <2>3, FlattenedMore
  <2>5. s \in Known /\ out \in Seq(Updates)
    BY <1>2, <1>3, <1>4, SnapshotParts
  <2> QED BY <1>5, <1>6, <2>1, <2>2, <2>3, <2>4, <2>5
<1>8. /\ c \in Seq(RawLevels) /\ Len(c) = Len(a) + Len(array)
      /\ \A k \in DOMAIN c : (\E i \in DOMAIN a : c[k] = a[i]) \/ (\E i \in DOMAIN array : c[k] = array[i])
      /\ \A i \in DOMAIN array : array[i] \in ToSet(c)
  BY <1>6, <1>7, JoinedArrays
<1>9. /\ out = Units(a, s, side)
      /\ \A k \in DOMAIN a : Readable(a[k], s)
  BY <1>2, <1>3, <1>4, <1>5 DEF SnapshotSide
<1>10. Len(out) = Len(a) /\ Len(a) \in Nat /\ Len(array) \in Nat
  <2>1. PICK m : m = <<>>
    OBVIOUS
  <2>2. m \in Seq(Updates)
    BY <2>1
  <2>3. Len(Appended(a, s, side, m)) = Len(m) + Len(a)
    BY <1>7, <2>2, AppendedFacts
  <2>4. Len(m) = 0 /\ Len(a) \in Nat /\ Len(array) \in Nat
    BY <1>7, <2>1
  <2>5. out = Appended(a, s, side, m)
    BY <1>9, <2>1 DEF Units
  <2> QED BY <2>3, <2>4, <2>5
<1>11. t = IF ReadsInto(array, s, out) THEN Seen(fs, side, Appended(array, s, side, out)) ELSE Failed(fs)
  <2>1. side # "lastUpdateId"
    BY DEF SideKeys
  <2> QED BY <1>1, <1>3, <1>4, <2>1 DEF ReadSnapshotField, Seen
<1>12. /\ \A d \in SideKeys : d # side => h[d] = g[d]
       /\ \A key \in Keys \ SnapshotKeys : h[key] = g[key]
       /\ h["lastUpdateId"] = g["lastUpdateId"]
  BY KeyFacts DEF SideKeys, SnapshotKeys
<1>13. CASE ~ ReadsInto(array, s, out)
  <2>1. t = Failed(fs)
    BY <1>11, <1>13
  <2>2. CASE \E k \in DOMAIN array : ~ Readable(array[k], s)
    <3>1. PICK k \in DOMAIN array : ~ Readable(array[k], s)
      BY <2>2
    <3>2. array[k] \in ToSet(FlattenSeq(h[side]))
      BY <1>7, <1>8, <3>1
    <3>3. SnapshotOffends(s, h)
      BY <1>7, <3>1, <3>2 DEF SnapshotOffends
    <3> QED BY <1>1, <1>2, <1>3, <2>1, <3>3, SnapshotFailed
  <2>3. CASE \A k \in DOMAIN array : Readable(array[k], s)
    <3>1. ~ Len(out) + Len(array) <= LevelLimit
      BY <1>13, <2>3 DEF ReadsInto
    <3>2. Len(c) > LevelLimit
      BY <1>8, <1>10, <3>1, DecoderConstants
    <3>3. SnapshotOffends(s, h)
      BY <1>7, <3>2 DEF SnapshotOffends
    <3> QED BY <1>1, <1>2, <1>3, <2>1, <3>3, SnapshotFailed
  <2> QED BY <2>2, <2>3
<1>14. CASE ReadsInto(array, s, out)
  <2>1. PICK w : w = Appended(array, s, side, out)
    OBVIOUS
  <2>2. w \in Seq(Updates)
    BY <1>7, <2>1, AppendedFacts
  <2>3. t = Seen(fs, side, w)
    BY <1>11, <1>14, <2>1
  <2>4. /\ t \in SnapshotFields /\ t.sides[side] = w /\ t.seen[side]
        /\ \A d \in SideKeys : d # side => t.sides[d] = fs.sides[d] /\ (t.seen[d] <=> fs.seen[d])
        /\ t.instrument = fs.instrument /\ t.lastUpdateId = fs.lastUpdateId /\ t.failed = fs.failed
    BY <1>2, <2>2, <2>3, SeenFacts
  <2>5. w = Units(c, s, side)
    <3>1. Appended(array, s, side, Units(a, s, side)) = Units(a \o array, s, side)
      BY <1>7, AppendedTwice
    <3> QED BY <1>6, <1>9, <2>1, <3>1
  <2>6. Len(c) \in 0 .. LevelLimit /\ \A k \in DOMAIN c : Readable(c[k], s)
    <3>1. Len(out) + Len(array) <= LevelLimit /\ \A k \in DOMAIN array : Readable(array[k], s)
      BY <1>14 DEF ReadsInto
    <3>2. Len(c) \in 0 .. LevelLimit
      BY <1>8, <1>10, <3>1, DecoderConstants
    <3>3. \A k \in DOMAIN c : Readable(c[k], s)
      BY <1>8, <1>9, <3>1
    <3> QED BY <3>2, <3>3
  <2>7. h[side] # <<>>
    <3>1. PICK v : v = g[side]
      OBVIOUS
    <3>2. v \in Seq(LevelArrays)
      BY <3>1, MessageFacts
    <3>3. Append(v, array) # <<>>
      BY <3>2
    <3> QED BY <3>1, <3>3
  <2>8. SnapshotSide(t, h, side)
    BY <1>3, <1>7, <2>4, <2>5, <2>6, <2>7 DEF SnapshotSide
  <2>9. ASSUME NEW d \in SideKeys, d # side
        PROVE  SnapshotSide(t, h, d)
    <3>1. SnapshotSide(fs, g, d) /\ h[d] = g[d]
      BY <1>2, <1>12, <2>9
    <3> QED BY <2>4, <2>9, <3>1 DEF SnapshotSide
  <2>10. \A key \in Keys \ SnapshotKeys : h[key] = <<>>
    BY <1>2, <1>12
  <2>11. t.lastUpdateId = <<>> <=> h["lastUpdateId"] = <<>>
    BY <1>2, <1>12, <2>4
  <2>12. SnapshotWalk(t, h)
    BY <1>2, <2>4, <2>8, <2>9, <2>10, <2>11, WalkOfSides
  <2> QED BY <1>1, <1>2, <2>4, <2>12
<1> QED BY <1>13, <1>14

(* DepthSnapshotDecoder::decode, after the walk. *)
LEMMA SnapshotEnds ==
  ASSUME NEW fs, NEW g, SnapshotWalk(fs, g), NEW d,
         d = IF fs.lastUpdateId # None /\ \A side \in SideKeys : fs.seen[side]
             THEN "ok" ELSE "incomplete"
  PROVE  SnapshotDecoded(d, fs, g)
<1>1. /\ fs \in SnapshotFields
      /\ \A key \in Keys \ SnapshotKeys : g[key] = <<>>
      /\ fs.lastUpdateId = <<>> <=> g["lastUpdateId"] = <<>>
      /\ \A side \in SideKeys : SnapshotSide(fs, g, side)
  BY WalkOfSides
<1>2. SnapshotComplete(g) <=> g["lastUpdateId"] # <<>> /\ \A side \in SideKeys : g[side] # <<>>
  BY DEF SnapshotComplete, SnapshotKeys, SideKeys
<1>3. SnapshotComplete(g) <=> fs.lastUpdateId # <<>> /\ \A side \in SideKeys : fs.seen[side]
  BY <1>1, <1>2 DEF SnapshotSide
<1>4. g["e"] = <<>> /\ g["s"] = <<>>
  BY <1>1, KeyFacts DEF SnapshotKeys
<1>5. ToSet(<<>>) = {}
  BY DEF ToSet
<1>6. ~ \E side \in SideKeys : Len(FlattenSeq(g[side])) > LevelLimit
  <2>1. ASSUME NEW side \in SideKeys
        PROVE  ~ Len(FlattenSeq(g[side])) > LevelLimit
    <3>1. PICK n : n = Len(FlattenSeq(g[side]))
      OBVIOUS
    <3>2. n \in 0 .. LevelLimit
      BY <1>1, <3>1 DEF SnapshotSide
    <3>3. ~ n > LevelLimit
      BY <3>2, DecoderConstants
    <3> QED BY <3>1, <3>3
  <2> QED BY <2>1
<1>7. \A side \in SideKeys : \A lv \in ToSet(FlattenSeq(g[side])) : Readable(lv, fs.instrument)
  BY <1>1 DEF SnapshotSide, ToSet
<1>8. ~ SnapshotOffends(fs.instrument, g)
  BY <1>4, <1>5, <1>6, <1>7 DEF SnapshotOffends
<1>9. \A side \in SideKeys :
        fs.sides[side] = Appended(FlattenSeq(g[side]), fs.instrument, side, <<>>)
  BY <1>1 DEF SnapshotSide, Units
<1>10. /\ d = "ok" => SnapshotComplete(g)
       /\ d = "incomplete" => ~ SnapshotComplete(g)
       /\ d # "bad field"
  BY <1>3 DEF None
<1> QED BY <1>8, <1>9, <1>10 DEF SnapshotDecoded

-----------------------------------------------------------------------------
(***************************************************************************)
(* The invariant is inductive.                                             *)
(***************************************************************************)

(* read_object, any field *)
LEMMA FieldKeepsWalk ==
  ASSUME NEW fs, NEW g, NEW h, UpdateWalk(fs, g), IsMessage(g), IsMessage(h), NEW key \in UpdateKeys,
         NEW value \in ValuesOf[key], h[key] = Append(g[key], value), h[key] # <<>>,
         Last(h[key]) = value, ToSet(h[key]) = ToSet(g[key]) \cup {value},
         \A k \in Keys : k # key => h[k] = g[k], key = "s" => g["s"] = <<>>
  PROVE  LET t == ReadField(fs, key, value) IN
         t \in UpdateFields /\ (t.failed => UpdateOffends(h)) /\ (~ t.failed => UpdateWalk(t, h))
<1>1. CASE key = "e"
  <2>1. /\ value \in BOOLEAN /\ h["e"] # <<>> /\ ToSet(h["e"]) = ToSet(g["e"]) \cup {value}
        /\ \A k \in Keys : k # "e" => h[k] = g[k]
    BY <1>1, KeyFacts
  <2> QED BY <1>1, <2>1, ReadEvent
<1>2. CASE key = "E"
  <2>1. /\ value \in BOOLEAN /\ h["E"] # <<>> /\ Last(h["E"]) = value
        /\ \A k \in Keys : k # "E" => h[k] = g[k]
    BY <1>2, KeyFacts
  <2> QED BY <1>2, <2>1, ReadEventTime
<1>3. CASE key = "s"
  <2>1. /\ value \in Known \cup {Unknown} /\ g["s"] = <<>> /\ h["s"] = Append(g["s"], value)
        /\ \A k \in Keys : k # "s" => h[k] = g[k]
    BY <1>3, KeyFacts
  <2> QED BY <1>3, <2>1, ReadSymbol
<1>4. CASE key = "U"
  <2>1. /\ value \in UpdateIds /\ h["U"] # <<>> /\ Last(h["U"]) = value
        /\ \A k \in Keys : k # "U" => h[k] = g[k]
    BY <1>4, KeyFacts
  <2> QED BY <1>4, <2>1, ReadFirst
<1>5. CASE key = "u"
  <2>1. /\ value \in UpdateIds /\ h["u"] # <<>> /\ Last(h["u"]) = value
        /\ \A k \in Keys : k # "u" => h[k] = g[k]
    BY <1>5, KeyFacts
  <2> QED BY <1>5, <2>1, ReadLast
<1>6. CASE key \in SideKeys
  <2>1. value \in LevelArrays
    BY <1>6, KeyFacts DEF SideKeys
  <2> QED BY <1>6, <2>1, ReadSideField
<1> QED BY <1>1, <1>2, <1>3, <1>4, <1>5, <1>6 DEF UpdateKeys, SideKeys

(* The run's property, of an update and of a snapshot. *)
LEMMA UpdateIsDecoded ==
  ASSUME fields' \in UpdateFields, UpdateDecoded(decoded', fields', given')
  PROVE  DecodedInAnyOrder'
<1>1. DecodesUpdate'
  BY FieldsDomain DEF DecodesUpdate
<1>2. MeantFor' = given'["s"] /\ \A side : AllLevels(side)' = FlattenSeq(given'[side])
  BY <1>1 DEF MeantFor, AllLevels
<1>3. Offends' <=> UpdateOffends(given')
  BY <1>1, <1>2 DEF Offends, UpdateOffends, None
<1>4. Complete' <=> UpdateComplete(given')
  BY <1>1 DEF Complete, UpdateComplete
<1>5. ReadWhole' <=> UpdateWhole(fields'.updates, given'["s"][1], given')
  BY <1>1, <1>2 DEF ReadWhole, UpdateWhole
<1> QED BY <1>1, <1>2, <1>3, <1>4, <1>5 DEF DecodedInAnyOrder, UpdateDecoded

(* The same of a snapshot. *)
LEMMA SnapshotIsDecoded ==
  ASSUME fields' \in SnapshotFields, SnapshotDecoded(decoded', fields', given')
  PROVE  DecodedInAnyOrder'
<1>1. ~ DecodesUpdate'
  BY FieldsDomain DEF DecodesUpdate
<1>2. MeantFor' = <<fields'.instrument>> /\ \A side : AllLevels(side)' = FlattenSeq(given'[side])
  BY <1>1 DEF MeantFor, AllLevels
<1>3. MeantFor' # None /\ MeantFor'[1] = fields'.instrument
  BY <1>2, OneValue DEF None
<1>4. Offends' <=> SnapshotOffends(fields'.instrument, given')
  BY <1>1, <1>2, <1>3 DEF Offends, SnapshotOffends
<1>5. Complete' <=> SnapshotComplete(given')
  BY <1>1 DEF Complete, SnapshotComplete
<1>6. ReadWhole' <=> \A side \in SideKeys :
        fields'.sides[side] = Appended(FlattenSeq(given'[side]), fields'.instrument, side, <<>>)
  BY <1>1, <1>2, <1>3 DEF ReadWhole
<1> QED BY <1>1, <1>4, <1>5, <1>6 DEF DecodedInAnyOrder, SnapshotDecoded

(* Before the end there is nothing to say. *)
LEMMA NotDecodedYet ==
  ASSUME decoded' = ""
  PROVE  DecodedInAnyOrder'
BY DEF DecodedInAnyOrder

(* A field is read: what the message has said. *)
LEMMA ReadGrows ==
  ASSUME DecoderInv, NEW key \in Keys, NEW value \in ValuesOf[key], Read(key, value)
  PROVE  /\ IsMessage(given) /\ IsMessage(given') /\ Len(given[key]) <= 1
         /\ given'[key] = Append(given[key], value) /\ given'[key] # <<>>
         /\ Last(given'[key]) = value /\ ToSet(given'[key]) = ToSet(given[key]) \cup {value}
         /\ \A k \in Keys : k # key => given'[k] = given[k]
         /\ Len(given'["s"]) <= 1 =>
              Len(given["s"]) <= 1 /\ (key = "s" => given["s"] = <<>>)
<1>1. PICK g : g = given
  OBVIOUS
<1>2. PICK h : h = given'
  OBVIOUS
<1>3. IsMessage(g) /\ h = Saying(g, key, value)
  BY <1>1, <1>2 DEF DecoderInv, Read, Saying
<1>4. PICK n : n = Len(g[key])
  OBVIOUS
<1>5. n \in Nat /\ n <= 1
  <2>1. g[key] \in Seq(ValuesOf[key]) /\ g = [k \in Keys |-> g[k]]
    BY <1>3 DEF IsMessage
  <2>2. DOMAIN g = Keys
    BY <2>1
  <2>3. n \in Nat
    BY <1>4, <2>1
  <2>4. CASE g[key] = <<>>
    <3>1. n = 0
      BY <1>4, <2>4
    <3> QED BY <3>1
  <2>5. CASE g[key] # <<>>
    <3>1. n < 2
      BY <1>1, <1>4, <2>2, <2>5 DEF Read
    <3> QED BY <2>3, <3>1
  <2> QED BY <2>4, <2>5
<1>6. Len(g[key]) <= 1
  BY <1>4, <1>5
<1>7. /\ IsMessage(h)
      /\ h[key] = Append(g[key], value)
      /\ h[key] # <<>> /\ Last(h[key]) = value /\ Len(h[key]) = Len(g[key]) + 1
      /\ ToSet(h[key]) = ToSet(g[key]) \cup {value}
      /\ \A k \in Keys : k # key => h[k] = g[k]
  BY <1>3, <1>6, MessageGrows
<1>8. ASSUME Len(h["s"]) <= 1
      PROVE  Len(g["s"]) <= 1 /\ (key = "s" => g["s"] = <<>>)
  <2>1. "s" \in Keys
    BY KeyFacts
  <2>2. CASE key # "s"
    BY <1>7, <1>8, <2>1, <2>2
  <2>3. CASE key = "s"
    <3>1. PICK v : v = g["s"]
      OBVIOUS
    <3>2. v \in Seq(Known \cup {Unknown})
      BY <1>3, <3>1, MessageFacts
    <3>3. n + 1 <= 1
      BY <1>4, <1>7, <1>8, <2>3
    <3>4. n = 0
      BY <1>5, <3>3
    <3>5. Len(v) = 0
      BY <1>4, <2>3, <3>1, <3>4
    <3>6. v = <<>>
      BY <3>2, <3>5
    <3> QED BY <1>6, <2>3, <3>1, <3>6
  <2> QED BY <2>2, <2>3
<1> QED BY <1>1, <1>2, <1>3, <1>6, <1>7, <1>8

(* From the end of the walk, or from a field that offends, on. *)
LEMMA InvFromUpdate ==
  ASSUME IsMessage(given'),
         Len(given'["s"]) <= 1 =>
           /\ fields' \in UpdateFields
           /\ decoded' = "" => UpdateWalk(fields', given')
           /\ decoded' # "" => UpdateDecoded(decoded', fields', given')
  PROVE  DecoderInv'
<1>1. CASE ~ Len(given'["s"]) <= 1
  BY <1>1 DEF DecoderInv, DecodedInAnyOrder
<1>2. CASE Len(given'["s"]) <= 1 /\ decoded' = ""
  BY <1>2, NotDecodedYet DEF DecoderInv
<1>3. CASE Len(given'["s"]) <= 1 /\ decoded' # ""
  BY <1>3, UpdateIsDecoded DEF DecoderInv
<1> QED BY <1>1, <1>2, <1>3

(* The same of a snapshot. *)
LEMMA InvFromSnapshot ==
  ASSUME IsMessage(given'),
         Len(given'["s"]) <= 1 =>
           /\ fields' \in SnapshotFields
           /\ decoded' = "" => SnapshotWalk(fields', given')
           /\ decoded' # "" => SnapshotDecoded(decoded', fields', given')
  PROVE  DecoderInv'
<1>1. CASE ~ Len(given'["s"]) <= 1
  BY <1>1 DEF DecoderInv, DecodedInAnyOrder
<1>2. CASE Len(given'["s"]) <= 1 /\ decoded' = ""
  BY <1>2, NotDecodedYet DEF DecoderInv
<1>3. CASE Len(given'["s"]) <= 1 /\ decoded' # ""
  BY <1>3, SnapshotIsDecoded DEF DecoderInv
<1> QED BY <1>1, <1>2, <1>3

(* Which decoder is at work. *)
LEMMA WalkOf ==
  ASSUME DecoderInv, decoded = "", Len(given["s"]) <= 1
  PROVE  /\ DecodesUpdate => UpdateWalk(fields, given)
         /\ ~ DecodesUpdate => SnapshotWalk(fields, given)
<1>1. UpdateWalk(fields, given) \/ SnapshotWalk(fields, given)
  BY DEF DecoderInv
<1>2. UpdateWalk(fields, given) => DecodesUpdate
  BY FieldsDomain DEF UpdateWalk, DecodesUpdate
<1>3. SnapshotWalk(fields, given) => ~ DecodesUpdate
  BY FieldsDomain DEF SnapshotWalk, DecodesUpdate
<1> QED BY <1>1, <1>2, <1>3

(* At the start nothing has been said and nothing is held. *)
LEMMA DecoderInitInv == DecoderInit => DecoderInv
<1> SUFFICES ASSUME DecoderInit PROVE DecoderInv
  OBVIOUS
<1>1. /\ \A key \in Keys : given[key] = <<>>
      /\ given = [key \in Keys |-> given[key]] /\ decoded = ""
  BY DEF DecoderInit, Keys
<1>2. IsMessage(given)
  <2>1. ASSUME NEW key \in Keys
        PROVE  given[key] \in Seq(ValuesOf[key]) /\ Len(given[key]) <= 2
    <3>1. PICK m : m = <<>>
      OBVIOUS
    <3>2. PICK V : V = ValuesOf[key]
      OBVIOUS
    <3>3. m \in Seq(V) /\ Len(m) <= 2
      BY <3>1
    <3> QED BY <1>1, <3>1, <3>2, <3>3
  <2> QED BY <1>1, <2>1 DEF IsMessage
<1>3. /\ given["e"] = <<>> /\ given["E"] = <<>> /\ given["s"] = <<>> /\ given["U"] = <<>>
      /\ given["u"] = <<>> /\ given["lastUpdateId"] = <<>>
      /\ \A side \in SideKeys : given[side] = <<>>
  BY <1>1, KeyFacts DEF SideKeys
<1>4. ToSet(<<>>) = {} /\ LevelLimit \in Nat
  BY DecoderConstants DEF ToSet
<1>5. CASE fields = EmptyFields
  <2>1. /\ fields \in UpdateFields /\ ~ fields.failed /\ fields.instrument = <<>> /\ ~ fields.eventSeen
        /\ fields.eventTime = <<>> /\ fields.first = <<>> /\ fields.last = <<>>
        /\ fields.updates = <<>>
    BY <1>5 DEF EmptyFields, UpdateFields, None
  <2>2. \A side \in SideKeys : fields.deferred[side] = <<>> /\ ~ fields.sidesRead[side]
    BY <1>5 DEF EmptyFields, None
  <2>3. SidesRead(fields) = {}
    BY <2>2 DEF SidesRead
  <2>4. \A side \in SideKeys : SideStands(fields, given, side)
    BY <1>3, <2>2 DEF SideStands
  <2>5. Len(fields.updates) <= LevelLimit
    <3>1. PICK n : n = Len(fields.updates)
      OBVIOUS
    <3>2. n = 0
      BY <2>1, <3>1
    <3>3. n <= LevelLimit
      BY <1>4, <3>2
    <3> QED BY <3>1, <3>3
  <2>6. SidesStand(fields, given)
    BY <2>1, <2>3, <2>4, <2>5 DEF SidesStand, Gathered
  <2>7. UpdateWalk(fields, given)
    BY <1>3, <1>4, <2>1, <2>6 DEF UpdateWalk, Holds
  <2> QED BY <1>1, <1>2, <2>7 DEF DecoderInv, DecodedInAnyOrder
<1>6. ASSUME NEW s \in Known, fields = EmptySnapshot(s)
      PROVE  DecoderInv
  <2>1. /\ fields \in SnapshotFields /\ ~ fields.failed /\ fields.instrument = s
        /\ fields.lastUpdateId = <<>>
    BY <1>6 DEF EmptySnapshot, SnapshotFields, None
  <2>2. \A side \in SideKeys : fields.sides[side] = <<>> /\ ~ fields.seen[side]
    BY <1>6 DEF EmptySnapshot
  <2>3. Units(<<>>, s, "b") = <<>> /\ Units(<<>>, s, "a") = <<>>
    BY DEF Units, Appended
  <2>4. Len(<<>>) \in 0 .. LevelLimit
    BY <1>4
  <2>5. ASSUME NEW side \in SideKeys
        PROVE  SnapshotSide(fields, given, side)
    <3>1. FlattenSeq(given[side]) = <<>>
      BY <1>3, FlattenNone
    <3>2. Units(<<>>, s, side) = <<>>
      BY <2>3 DEF SideKeys
    <3>3. \A k \in DOMAIN <<>> : FALSE
      OBVIOUS
    <3> QED BY <1>3, <2>1, <2>2, <2>4, <3>1, <3>2, <3>3 DEF SnapshotSide
  <2>6. SnapshotWalk(fields, given)
    BY <1>1, <1>3, <2>1, <2>5, WalkOfSides
  <2> QED BY <1>1, <1>2, <2>6 DEF DecoderInv, DecodedInAnyOrder
<1> QED BY <1>5, <1>6 DEF DecoderInit

(* A field of an update keeps the invariant. *)
LEMMA ReadUpdateStep ==
  ASSUME DecoderInv, NEW key \in UpdateKeys, NEW value \in ValuesOf[key],
         ReadUpdateField(key, value)
  PROVE  DecoderInv'
<1>1. /\ DecodesUpdate /\ fields' = ReadField(fields, key, value) /\ Read(key, value)
      /\ decoded = "" /\ decoded' = IF fields'.failed THEN "bad field" ELSE ""
  BY DEF ReadUpdateField, Read
<1>2. /\ IsMessage(given) /\ IsMessage(given') /\ Len(given[key]) <= 1
      /\ given'[key] = Append(given[key], value) /\ given'[key] # <<>>
      /\ Last(given'[key]) = value /\ ToSet(given'[key]) = ToSet(given[key]) \cup {value}
      /\ \A k \in Keys : k # key => given'[k] = given[k]
      /\ Len(given'["s"]) <= 1 =>
           Len(given["s"]) <= 1 /\ (key = "s" => given["s"] = <<>>)
  <2>1. key \in Keys
    BY DEF Keys
  <2> QED BY <1>1, <2>1, ReadGrows
<1>3. ASSUME Len(given'["s"]) <= 1
      PROVE  /\ fields' \in UpdateFields
             /\ fields'.failed => UpdateOffends(given')
             /\ ~ fields'.failed => UpdateWalk(fields', given')
  <2>1. PICK fs : fs = fields
    OBVIOUS
  <2>2. PICK g : g = given
    OBVIOUS
  <2>3. PICK h : h = given'
    OBVIOUS
  <2>4. UpdateWalk(fs, g)
    BY <1>1, <1>2, <1>3, <2>1, <2>2, WalkOf
  <2>5. /\ IsMessage(g) /\ IsMessage(h) /\ h[key] = Append(g[key], value) /\ h[key] # <<>>
        /\ Last(h[key]) = value /\ ToSet(h[key]) = ToSet(g[key]) \cup {value}
        /\ \A k \in Keys : k # key => h[k] = g[k]
        /\ key = "s" => g["s"] = <<>>
    BY <1>2, <1>3, <2>2, <2>3
  <2>6. PICK t : t = ReadField(fs, key, value)
    OBVIOUS
  <2>7. t \in UpdateFields /\ (t.failed => UpdateOffends(h)) /\ (~ t.failed => UpdateWalk(t, h))
    BY <2>4, <2>5, <2>6, FieldKeepsWalk
  <2> QED BY <1>1, <2>1, <2>3, <2>6, <2>7
<1>4. ASSUME Len(given'["s"]) <= 1
      PROVE  /\ fields' \in UpdateFields
             /\ decoded' = "" => UpdateWalk(fields', given')
             /\ decoded' # "" => UpdateDecoded(decoded', fields', given')
  BY <1>1, <1>3, <1>4 DEF UpdateDecoded
<1> QED BY <1>2, <1>4, InvFromUpdate

(* A field of a snapshot keeps the invariant. *)
LEMMA ReadSnapshotStep ==
  ASSUME DecoderInv, NEW key \in SnapshotKeys, NEW value \in ValuesOf[key],
         ReadOfSnapshot(key, value)
  PROVE  DecoderInv'
<1>1. /\ ~ DecodesUpdate /\ fields' = ReadSnapshotField(fields, key, value) /\ Read(key, value)
      /\ decoded = "" /\ decoded' = IF fields'.failed THEN "bad field" ELSE ""
  BY DEF ReadOfSnapshot, Read
<1>2. /\ IsMessage(given) /\ IsMessage(given') /\ Len(given[key]) <= 1
      /\ given'[key] = Append(given[key], value) /\ given'[key] # <<>>
      /\ Last(given'[key]) = value /\ ToSet(given'[key]) = ToSet(given[key]) \cup {value}
      /\ \A k \in Keys : k # key => given'[k] = given[k]
      /\ Len(given'["s"]) <= 1 =>
           Len(given["s"]) <= 1 /\ (key = "s" => given["s"] = <<>>)
  <2>1. key \in Keys
    BY DEF Keys
  <2> QED BY <1>1, <2>1, ReadGrows
<1>3. ASSUME Len(given'["s"]) <= 1
      PROVE  /\ fields' \in SnapshotFields
             /\ fields'.failed => SnapshotOffends(fields'.instrument, given')
             /\ ~ fields'.failed => SnapshotWalk(fields', given')
  <2>1. PICK fs : fs = fields
    OBVIOUS
  <2>2. PICK g : g = given
    OBVIOUS
  <2>3. PICK h : h = given'
    OBVIOUS
  <2>4. SnapshotWalk(fs, g)
    BY <1>1, <1>2, <1>3, <2>1, <2>2, WalkOf
  <2>5. /\ IsMessage(g) /\ h[key] = Append(g[key], value) /\ h[key] # <<>> /\ Len(g[key]) <= 1
        /\ \A k \in Keys : k # key => h[k] = g[k]
    BY <1>2, <2>2, <2>3
  <2>6. PICK t : t = ReadSnapshotField(fs, key, value)
    OBVIOUS
  <2>7. CASE key = "lastUpdateId"
    <3>1. /\ value \in UpdateIds /\ h["lastUpdateId"] # <<>>
          /\ \A k \in Keys : k # "lastUpdateId" => h[k] = g[k]
      BY <2>5, <2>7, KeyFacts
    <3>2. t = ReadSnapshotField(fs, "lastUpdateId", value)
      BY <2>6, <2>7
    <3>3. t \in SnapshotFields /\ ~ t.failed /\ SnapshotWalk(t, h)
      BY <2>4, <3>1, <3>2, ReadSnapshotId
    <3> QED BY <1>1, <2>1, <2>3, <2>6, <3>3
  <2>8. CASE key \in SideKeys
    <3>1. value \in LevelArrays
      BY <2>8, KeyFacts DEF SideKeys
    <3>2. /\ t \in SnapshotFields /\ t.instrument = fs.instrument
          /\ t.failed => SnapshotOffends(fs.instrument, h)
          /\ ~ t.failed => SnapshotWalk(t, h)
      BY <2>4, <2>5, <2>6, <2>8, <3>1, ReadSnapshotSide
    <3> QED BY <1>1, <2>1, <2>3, <2>6, <3>2
  <2> QED BY <2>7, <2>8 DEF SnapshotKeys, SideKeys
<1>4. ASSUME Len(given'["s"]) <= 1
      PROVE  /\ fields' \in SnapshotFields
             /\ decoded' = "" => SnapshotWalk(fields', given')
             /\ decoded' # "" => SnapshotDecoded(decoded', fields', given')
  BY <1>1, <1>3, <1>4 DEF SnapshotDecoded
<1> QED BY <1>2, <1>4, InvFromSnapshot

(* The end of an update keeps the invariant. *)
LEMMA EndOfUpdateStep ==
  ASSUME DecoderInv, EndOfUpdate
  PROVE  DecoderInv'
<1>1. DecodesUpdate /\ decoded = "" /\ given' = given /\ IsMessage(given)
  BY DEF EndOfUpdate, DecoderInv
<1>2. ASSUME Len(given["s"]) <= 1
      PROVE  fields' \in UpdateFields /\ UpdateDecoded(decoded', fields', given) /\ decoded' # ""
  <2>1. UpdateWalk(fields, given)
    BY <1>1, <1>2, WalkOf
  <2>2. CASE fields.instrument = None
    <3>1. decoded' = "incomplete" /\ fields' = fields
      BY <2>2 DEF EndOfUpdate
    <3>2. given["s"] = <<>> /\ fields \in UpdateFields
      BY <2>1, <2>2 DEF UpdateWalk, None
    <3>3. ~ UpdateComplete(given)
      BY <3>2 DEF UpdateComplete, UpdateKeys
    <3> QED BY <3>1, <3>2, <3>3 DEF UpdateDecoded
  <2>3. CASE fields.instrument # None
    <3>1. PICK fs : fs = fields
      OBVIOUS
    <3>2. PICK g : g = given
      OBVIOUS
    <3>3. PICK p : p = ReadDeferred(fs, "b")
      OBVIOUS
    <3>4. PICK t : t = ReadDeferred(p, "a")
      OBVIOUS
    <3>5. PICK d : d = Verdict(fs, t)
      OBVIOUS
    <3>6. fields' = t /\ decoded' = d
      BY <2>3, <3>1, <3>3, <3>4, <3>5 DEF EndOfUpdate, Verdict
    <3>7. UpdateWalk(fs, g) /\ IsMessage(g) /\ fs.instrument # <<>>
      BY <1>1, <2>1, <2>3, <3>1, <3>2 DEF None
    <3>8. t \in UpdateFields /\ UpdateDecoded(d, t, g)
      BY <3>3, <3>4, <3>5, <3>7, UpdateEnds
    <3>9. d # ""
      BY <3>5 DEF Verdict
    <3> QED BY <3>2, <3>6, <3>8, <3>9
  <2> QED BY <2>2, <2>3
<1> QED BY <1>1, <1>2, InvFromUpdate

(* The end of a snapshot keeps the invariant. *)
LEMMA EndOfSnapshotStep ==
  ASSUME DecoderInv, EndOfSnapshot
  PROVE  DecoderInv'
<1>1. ~ DecodesUpdate /\ decoded = "" /\ given' = given /\ IsMessage(given) /\ fields' = fields
  BY DEF EndOfSnapshot, DecoderInv
<1>2. ASSUME Len(given["s"]) <= 1
      PROVE  fields \in SnapshotFields /\ SnapshotDecoded(decoded', fields, given) /\ decoded' # ""
  <2>1. SnapshotWalk(fields, given)
    BY <1>1, <1>2, WalkOf
  <2>2. PICK fs : fs = fields
    OBVIOUS
  <2>3. PICK g : g = given
    OBVIOUS
  <2>4. PICK d : d = decoded'
    OBVIOUS
  <2>5. d = IF fs.lastUpdateId # None /\ \A side \in SideKeys : fs.seen[side]
            THEN "ok" ELSE "incomplete"
    BY <2>2, <2>4 DEF EndOfSnapshot
  <2>6. SnapshotWalk(fs, g)
    BY <2>1, <2>2, <2>3
  <2>7. SnapshotDecoded(d, fs, g)
    BY <2>5, <2>6, SnapshotEnds
  <2>8. d # "" /\ fs \in SnapshotFields
    BY <2>5, <2>6 DEF SnapshotWalk
  <2> QED BY <2>2, <2>3, <2>4, <2>7, <2>8
<1> QED BY <1>1, <1>2, InvFromSnapshot

(* The invariant of the decoders: until the message ends, the fields are   *)
(* what it has said so far, in whatever order (depth.rs).                  *)
THEOREM DecoderInvariant == DecoderSpec => []DecoderInv
<1>1. DecoderInit => DecoderInv
  BY DecoderInitInv
<1>2. DecoderInv /\ [DecoderNext]_decoderVars => DecoderInv'
  <2> SUFFICES ASSUME DecoderInv, [DecoderNext]_decoderVars
               PROVE  DecoderInv'
    OBVIOUS
  <2>1. CASE \E key \in UpdateKeys : \E value \in ValuesOf[key] : ReadUpdateField(key, value)
    BY <2>1, ReadUpdateStep
  <2>2. CASE \E key \in SnapshotKeys : \E value \in ValuesOf[key] : ReadOfSnapshot(key, value)
    BY <2>2, ReadSnapshotStep
  <2>3. CASE EndOfUpdate
    BY <2>3, EndOfUpdateStep
  <2>4. CASE EndOfSnapshot
    BY <2>4, EndOfSnapshotStep
  <2>5. CASE OpenEnvelope \/ CloseEnvelope \/ UNCHANGED decoderVars
    <3>1. UNCHANGED <<given, fields, decoded>>
      BY <2>5 DEF OpenEnvelope, CloseEnvelope, decoderVars
    <3>2. DecodesUpdate' = DecodesUpdate
      BY <3>1 DEF DecodesUpdate
    <3>3. MeantFor' = MeantFor /\ \A side : AllLevels(side)' = AllLevels(side)
      BY <3>1, <3>2 DEF MeantFor, AllLevels
    <3>4. Offends' = Offends /\ Complete' = Complete /\ ReadWhole' = ReadWhole
      BY <3>1, <3>2, <3>3 DEF Offends, Complete, ReadWhole
    <3>5. DecodedInAnyOrder' = DecodedInAnyOrder
      BY <3>1, <3>2, <3>3, <3>4 DEF DecodedInAnyOrder
    <3> QED BY <3>1, <3>5 DEF DecoderInv
  <2> QED BY <2>1, <2>2, <2>3, <2>4, <2>5 DEF DecoderNext
<1> QED BY <1>1, <1>2, PTL DEF DecoderSpec

(* For any instruments, increments, level arrays and limits, a message is  *)
(* decoded to the same levels whatever the order of its fields, and        *)
(* refused only if it offends or lacks something (depth.rs, levels.rs).    *)
THEOREM DecoderIgnoresOrder == DecoderSpec => []DecodedInAnyOrder
<1>1. DecoderInv => DecodedInAnyOrder
  BY DEF DecoderInv
<1> QED BY <1>1, DecoderInvariant, PTL

-----------------------------------------------------------------------------
(***************************************************************************)
(* Http: a body is accepted only if it is whole, however it is framed and  *)
(* wherever the connection ends.                                           *)
(***************************************************************************)

(* A unit of a response. *)
HttpUnits == [what : {"header", "byte", "size", "line end"}, n : Nat]

(* The states of decode_chunked. *)
ChunkRecords ==
  [phase : {"size", "bytes", "line end", "done", "error"}, left : Int,
   body : Seq(HttpUnits), error : {"", "TooLarge", "Malformed"}]

ChunkStates == {s \in ChunkRecords : s.phase = "error" => s.error # ""}

ChunkState(phase, left, bytes) == [phase |-> phase, left |-> left, body |-> bytes, error |-> ""]

(* The first k bytes of a body. *)
Bytes(k) == [j \in 1 .. k |-> Unit("byte", j)]

(* Where the chunk that byte k is in ends. *)
EndOf(r, k) == CHOOSE e \in r.ends : e >= k /\ \A f \in r.ends : f >= k => e <= f

(* Between two bytes of the body: in a chunk or between two. *)
BetweenChunks(r, k) == k = 0 \/ k \in r.ends

(* The state of decode_chunked after k bytes and their framing. *)
AfterBytes(r, k) ==
  IF BetweenChunks(r, k) THEN ChunkState("size", 0, Bytes(k))
  ELSE ChunkState("bytes", EndOf(r, k) - k, Bytes(k))

(* h[k]: the first k pieces of s, one after the other. *)
Joins(h, s) == h[0] = <<>> /\ \A i \in 1 .. Len(s) : h[i] = h[i - 1] \o s[i]

(* What follows the headers. *)
Trailer(r) == IF r.framing = "chunked" THEN <<Unit("size", 0)>> ELSE <<>>
Pieces(r) == [k \in 1 .. r.size |-> ByteOf(r, k)]
Headers(r) == [k \in 1 .. r.head |-> Unit("header", k)]

(* The inductive invariant. *)
HttpInv ==
  /\ response \in Responses
  /\ received \in 0 .. Len(Sent(response))
  /\ AcceptedIsWhole

-----------------------------------------------------------------------------

(* FlattenSeq joins the pieces. *)
LEMMA FlattenJoins ==
  ASSUME NEW U, NEW s \in Seq(Seq(U))
  PROVE  \E h \in [0 .. Len(s) -> Seq(U)] : Joins(h, s) /\ FlattenSeq(s) = h[Len(s)]
<1> DEFINE m == Len(s)
           P(f) == f = [i \in 1 .. Len(s) |-> IF i = 1 THEN s[i] ELSE f[i - 1] \o s[i]]
           flatten == CHOOSE f : P(f)
           G == [i \in 1 .. m |-> [x \in Seq(U) |-> x \o s[i]]]
<1>1. G \in [1 .. m -> [Seq(U) -> Seq(U)]] /\ m \in Nat /\ <<>> \in Seq(U)
  <2>1. ASSUME NEW i \in 1 .. m, NEW x \in Seq(U) PROVE x \o s[i] \in Seq(U)
    <3>1. s[i] \in Seq(U) OBVIOUS
    <3> QED BY <3>1
  <2> QED BY <2>1
<1>2. PICK h \in [0 .. m -> Seq(U)] : IteratesTo(h, <<>>, m, G)
  <2> HIDE DEF G, m
  <2> QED BY <1>1, RecursionUpTo
<1>3. Joins(h, s)
  <2>1. ASSUME NEW i \in 1 .. m PROVE h[i] = h[i - 1] \o s[i]
    <3>0. i - 1 \in 0 .. m
      BY <1>1
    <3>1. h[i - 1] \in Seq(U)
      BY <3>0
    <3>2. h[i] = G[i][h[i - 1]]
      BY <1>2 DEF IteratesTo
    <3> QED BY <3>1, <3>2
  <2> QED BY <1>2, <2>1 DEF Joins, IteratesTo
<1>4. CASE m = 0
  <2>1. FlattenSeq(s) = s
    BY <1>4 DEF FlattenSeq
  <2>2. s = <<>>
    BY <1>4
  <2>3. h[m] = <<>>
    BY <1>3, <1>4 DEF Joins
  <2> QED BY <1>3, <2>1, <2>2, <2>3
<1>5. CASE m # 0
  <2>1. FlattenSeq(s) = flatten[Len(s)]
    BY <1>5 DEF FlattenSeq
  <2>2. PICK g : g = [i \in 1 .. m |-> h[i]]
    OBVIOUS
  <2>3. ASSUME NEW i \in 1 .. m
        PROVE  h[i] = IF i = 1 THEN s[i] ELSE g[i - 1] \o s[i]
    <3>1. h[i] = h[i - 1] \o s[i]
      BY <1>3 DEF Joins
    <3>2. CASE i = 1
      <4>1. h[i - 1] = <<>>
        BY <1>3, <3>2 DEF Joins
      <4>2. s[i] \in Seq(U)
        OBVIOUS
      <4>3. <<>> \o s[i] = s[i]
        BY <4>2
      <4> QED BY <3>1, <3>2, <4>1, <4>3
    <3>3. CASE i # 1
      <4>1. i - 1 \in 1 .. m
        BY <3>3
      <4> QED BY <2>2, <3>1, <3>3, <4>1
    <3> QED BY <3>2, <3>3
  <2>4. P(g)
    BY <2>2, <2>3
  <2>5. P(flatten)
    <3> HIDE DEF P
    <3> QED BY <2>4
  <2>6. \A i \in 1 .. m : flatten[i] = IF i = 1 THEN s[i] ELSE flatten[i - 1] \o s[i]
    <3> HIDE DEF flatten
    <3> QED BY <2>5
  <2> HIDE DEF flatten, P
  <2> DEFINE E == {i \in Nat : i + 1 \in 1 .. m => flatten[i + 1] = h[i + 1]}
  <2>7. 0 \in E
    <3>1. 0 + 1 = 1 /\ 1 \in 1 .. m
      BY <1>5, <1>1
    <3>2. flatten[1] = s[1] /\ h[1] = s[1]
      BY <2>3, <2>6, <3>1
    <3> QED BY <3>1, <3>2
  <2>8. ASSUME NEW i \in Nat, i \in E PROVE i + 1 \in E
    <3> SUFFICES ASSUME (i + 1) + 1 \in 1 .. m PROVE flatten[(i + 1) + 1] = h[(i + 1) + 1]
      OBVIOUS
    <3>1. i + 1 \in 1 .. m /\ ((i + 1) + 1) - 1 = i + 1 /\ (i + 1) + 1 # 1
      OBVIOUS
    <3>2. flatten[i + 1] = h[i + 1] /\ g[i + 1] = h[i + 1]
      BY <2>2, <2>8, <3>1
    <3> QED BY <2>3, <2>6, <3>1, <3>2
  <2>9. \A i \in Nat : i \in E
    <3> HIDE DEF E
    <3> QED BY <2>7, <2>8, SetInduction
  <2>10. m - 1 \in Nat /\ (m - 1) + 1 = m /\ m \in 1 .. m
    BY <1>5, <1>1
  <2>11. flatten[m] = h[m]
    BY <2>9, <2>10
  <2> QED BY <1>3, <2>1, <2>11
<1> QED BY <1>4, <1>5

-----------------------------------------------------------------------------

(* A response has a size, and its last chunk ends there. *)
LEMMA ResponseParts ==
  ASSUME NEW r \in Responses
  PROVE  /\ r.head \in Nat \ {0} /\ r.framing \in Framings /\ r.size \in Nat
         /\ r.ends \in SUBSET (1 .. r.size) /\ (r.size > 0 => r.size \in r.ends)
<1>1. PICK n \in 0 .. MaxBody + 1 :
        r \in [head : Heads, framing : Framings, size : {n}, ends : Chunkings(n), code : {200, 429}]
  BY DEF Responses
<1>2. n \in Nat
  BY HttpAssumption
<1>3. r.head \in Heads /\ r.framing \in Framings /\ r.size = n /\ r.ends \in Chunkings(n)
  <2> HIDE DEF Framings, Chunkings
  <2> QED BY <1>1
<1>4. r.ends \in SUBSET (1 .. n) /\ (n > 0 => n \in r.ends)
  BY <1>3 DEF Chunkings
<1> HIDE DEF Framings
<1> QED BY <1>2, <1>3, <1>4, HttpAssumption

(* Every byte is in a chunk. *)
LEMMA EndOfChunk ==
  ASSUME NEW r \in Responses, NEW k \in 1 .. r.size
  PROVE  /\ EndOf(r, k) \in r.ends /\ EndOf(r, k) \in k .. r.size
         /\ \A f \in r.ends : f >= k => EndOf(r, k) <= f
<1> DEFINE T == {e \in r.ends : e >= k}
<1>1. r.size \in Nat /\ r.ends \in SUBSET (1 .. r.size) /\ r.size \in r.ends
  BY ResponseParts
<1>2. T \in SUBSET Nat /\ T # {}
  BY <1>1
<1>3. PICK x \in T : \A y \in T : x <= y
  <2> HIDE DEF T
  <2> QED BY <1>2, LeastNat
<1>4. \E e \in r.ends : e >= k /\ \A f \in r.ends : f >= k => e <= f
  BY <1>3
<1>5. EndOf(r, k) \in r.ends /\ EndOf(r, k) >= k /\ \A f \in r.ends : f >= k => EndOf(r, k) <= f
  BY <1>4 DEF EndOf
<1> QED BY <1>1, <1>5

(* The chunk goes on until it ends. *)
LEMMA EndOfNext ==
  ASSUME NEW r \in Responses, NEW k \in 1 .. r.size, k \notin r.ends
  PROVE  k + 1 \in 1 .. r.size /\ EndOf(r, k + 1) = EndOf(r, k)
<1>1. r.size \in Nat /\ r.ends \in SUBSET (1 .. r.size) /\ r.size \in r.ends
  BY ResponseParts
<1>2. k + 1 \in 1 .. r.size
  BY <1>1
<1>3. /\ EndOf(r, k) \in r.ends /\ EndOf(r, k) \in k .. r.size
      /\ \A f \in r.ends : f >= k => EndOf(r, k) <= f
  BY EndOfChunk
<1>4. /\ EndOf(r, k + 1) \in r.ends /\ EndOf(r, k + 1) \in k + 1 .. r.size
      /\ \A f \in r.ends : f >= k + 1 => EndOf(r, k + 1) <= f
  BY <1>2, EndOfChunk
<1>5. EndOf(r, k) # k
  BY <1>3
<1> HIDE DEF EndOf
<1>6. EndOf(r, k) >= k + 1 /\ EndOf(r, k + 1) >= k
  BY <1>1, <1>3, <1>4, <1>5
<1>7. EndOf(r, k + 1) <= EndOf(r, k) /\ EndOf(r, k) <= EndOf(r, k + 1)
  BY <1>3, <1>4, <1>6
<1> QED BY <1>2, <1>3, <1>4, <1>7

-----------------------------------------------------------------------------
(* decode_chunked, one unit at a time. *)

(* Its states. *)
LEMMA ChunkUnitType ==
  ASSUME NEW s \in ChunkStates, NEW u \in HttpUnits
  PROVE  ChunkUnit(s, u) \in ChunkStates
<1>0. s \in ChunkRecords /\ (s.phase = "error" => s.error # "")
  BY DEF ChunkStates
<1>1. u.n \in Nat /\ s.left \in Int /\ s.body \in Seq(HttpUnits)
  BY <1>0 DEF ChunkRecords, HttpUnits
<1>2. Append(s.body, u) \in Seq(HttpUnits)
  BY <1>1
<1> HIDE DEF HttpUnits
<1>3. [s EXCEPT !.phase = "done"] \in ChunkStates
  BY <1>0 DEF ChunkRecords, ChunkStates
<1>4. [s EXCEPT !.phase = "error", !.error = "TooLarge"] \in ChunkStates
  BY <1>0 DEF ChunkRecords, ChunkStates
<1>5. [s EXCEPT !.phase = "bytes", !.left = u.n] \in ChunkStates
  <2>1. PICK x \in Int : x = u.n
    BY <1>1
  <2>2. [s EXCEPT !.phase = "bytes", !.left = x] \in ChunkStates
    BY <1>0 DEF ChunkRecords, ChunkStates
  <2> QED BY <2>1, <2>2
<1>6. [s EXCEPT !.body = Append(@, u), !.left = @ - 1,
                !.phase = IF s.left = 1 THEN "line end" ELSE "bytes"] \in ChunkStates
  <2>1. PICK x \in Int : x = s.left - 1
    BY <1>1
  <2>2. PICK b \in Seq(HttpUnits) : b = Append(s.body, u)
    BY <1>2
  <2>3. PICK p \in {"line end", "bytes"} : p = IF s.left = 1 THEN "line end" ELSE "bytes"
    OBVIOUS
  <2>4. [s EXCEPT !.body = b, !.left = x, !.phase = p] \in ChunkStates
    BY <1>0 DEF ChunkRecords, ChunkStates
  <2> QED BY <2>1, <2>2, <2>3, <2>4
<1>7. [s EXCEPT !.phase = "size"] \in ChunkStates
  BY <1>0 DEF ChunkRecords, ChunkStates
<1>8. [s EXCEPT !.phase = "error", !.error = "Malformed"] \in ChunkStates
  BY <1>0 DEF ChunkRecords, ChunkStates
<1> HIDE DEF ChunkStates
<1> QED BY <1>3, <1>4, <1>5, <1>6, <1>7, <1>8 DEF ChunkUnit

(* A size line. *)
LEMMA SizeUnit ==
  ASSUME NEW b \in Seq(HttpUnits), NEW m \in Nat
  PROVE  LET t == ChunkUnit(ChunkState("size", 0, b), Unit("size", m)) IN
         /\ m = 0 => t = ChunkState("done", 0, b)
         /\ m > 0 /\ Len(b) + m > MaxBody => t.phase = "error"
         /\ m > 0 /\ ~(Len(b) + m > MaxBody) => t = ChunkState("bytes", m, b)
<1> DEFINE s == ChunkState("size", 0, b)
           u == Unit("size", m)
<1>1. s.phase = "size" /\ s.left = 0 /\ s.body = b /\ u.what = "size" /\ u.n = m
  BY DEF ChunkState, Unit
<1>2. m = 0 => ChunkUnit(s, u) = [s EXCEPT !.phase = "done"]
  <2> HIDE DEF s, u
  <2> QED BY <1>1 DEF ChunkUnit
<1>3. m > 0 /\ Len(b) + m > MaxBody
        => ChunkUnit(s, u) = [s EXCEPT !.phase = "error", !.error = "TooLarge"]
  <2> HIDE DEF s, u
  <2> QED BY <1>1 DEF ChunkUnit
<1>4. m > 0 /\ ~(Len(b) + m > MaxBody)
        => ChunkUnit(s, u) = [s EXCEPT !.phase = "bytes", !.left = m]
  <2> HIDE DEF s, u
  <2> QED BY <1>1 DEF ChunkUnit
<1> QED BY <1>2, <1>3, <1>4 DEF ChunkState

(* A byte of a chunk. *)
LEMMA ByteUnit ==
  ASSUME NEW b \in Seq(HttpUnits), NEW m \in Nat, m > 0, NEW k \in Nat
  PROVE  ChunkUnit(ChunkState("bytes", m, b), Unit("byte", k))
           = ChunkState(IF m = 1 THEN "line end" ELSE "bytes", m - 1, Append(b, Unit("byte", k)))
BY DEF ChunkUnit, ChunkState, Unit

(* The end of a chunk. *)
LEMMA LineEndUnit ==
  ASSUME NEW b \in Seq(HttpUnits)
  PROVE  ChunkUnit(ChunkState("line end", 0, b), Unit("line end", 0)) = ChunkState("size", 0, b)
BY DEF ChunkUnit, ChunkState, Unit

(* An error stays one, and only a size line of 0 ends the body. *)
LEMMA ChunkUnitEnds ==
  ASSUME NEW s \in ChunkStates, NEW u \in HttpUnits
  PROVE  /\ s.phase = "error" => ChunkUnit(s, u) = s
         /\ s.phase # "done" /\ u # Unit("size", 0) => ChunkUnit(s, u).phase # "done"
<1>1. s.phase = "error" => ChunkUnit(s, u) = s
  BY DEF ChunkUnit
<1>2. ASSUME s.phase # "done", ChunkUnit(s, u).phase = "done"
      PROVE  u = Unit("size", 0)
  <2>1. u.what = "size" /\ u.n = 0
    BY <1>2 DEF ChunkUnit, ChunkStates, ChunkRecords
  <2> QED BY <2>1 DEF HttpUnits, Unit
<1> QED BY <1>1, <1>2

(* decode_chunked is the run of ChunkUnit over the units. *)
Runs(after, rest) ==
  /\ after[0] = ChunkState("size", 0, <<>>)
  /\ \A i \in 1 .. Len(rest) : after[i] = ChunkUnit(after[i - 1], rest[i])

(* Its result is read off the last state of that run. *)
LEMMA DecodeRuns ==
  ASSUME NEW rest \in Seq(HttpUnits)
  PROVE  \E after \in [0 .. Len(rest) -> ChunkStates] :
           /\ Runs(after, rest)
           /\ LET s == after[Len(rest)] IN
              DecodeChunked(rest) = IF s.phase = "error" THEN Result(s.error, <<>>)
                                    ELSE IF s.phase # "done" THEN Result("TruncatedBody", <<>>)
                                    ELSE Result("", s.body)
<1> DEFINE m == Len(rest)
           begin == [phase |-> "size", left |-> 0, body |-> <<>>, error |-> ""]
           P(f) == f = [k \in 0 .. Len(rest) |-> IF k = 0 THEN begin ELSE ChunkUnit(f[k - 1], rest[k])]
           run == CHOOSE f : P(f)
           G == [i \in 1 .. m |-> [x \in ChunkStates |-> ChunkUnit(x, rest[i])]]
<1>1. G \in [1 .. m -> [ChunkStates -> ChunkStates]] /\ m \in Nat
  <2>1. ASSUME NEW i \in 1 .. m, NEW x \in ChunkStates PROVE ChunkUnit(x, rest[i]) \in ChunkStates
    <3>1. rest[i] \in HttpUnits OBVIOUS
    <3> QED BY <3>1, ChunkUnitType
  <2> QED BY <2>1
<1>2. begin \in ChunkStates
  <2>1. <<>> \in Seq(HttpUnits)
    OBVIOUS
  <2>2. begin \in ChunkRecords
    <3> HIDE DEF HttpUnits
    <3> QED BY <2>1 DEF ChunkRecords
  <2> HIDE DEF ChunkRecords
  <2> QED BY <2>2 DEF ChunkStates
<1>3. PICK h \in [0 .. m -> ChunkStates] : IteratesTo(h, begin, m, G)
  <2> HIDE DEF G, m, begin
  <2> QED BY <1>1, <1>2, RecursionUpTo
<1>4. ASSUME NEW i \in 1 .. m PROVE h[i] = ChunkUnit(h[i - 1], rest[i])
  <2>1. i - 1 \in 0 .. m
    BY <1>1
  <2>2. h[i - 1] \in ChunkStates
    BY <2>1
  <2>3. h[i] = G[i][h[i - 1]]
    BY <1>3 DEF IteratesTo
  <2> QED BY <2>2, <2>3
<1>5. h[0] = begin
  BY <1>3 DEF IteratesTo
<1>6. ASSUME NEW k \in 0 .. m
      PROVE  h[k] = IF k = 0 THEN begin ELSE ChunkUnit(h[k - 1], rest[k])
  <2>1. k = 0 \/ k \in 1 .. m
    BY <1>1
  <2> HIDE DEF begin
  <2> QED BY <2>1, <1>4, <1>5
<1>7. P(h)
  <2>1. h = [k \in 0 .. m |-> h[k]]
    OBVIOUS
  <2> HIDE DEF begin
  <2> QED BY <1>6, <2>1
<1>8. P(run)
  <2> HIDE DEF P
  <2> QED BY <1>7
<1>9. run[0] = begin /\ \A i \in 1 .. m : run[i] = ChunkUnit(run[i - 1], rest[i])
  <2> HIDE DEF run, begin
  <2>1. 0 \in 0 .. m /\ \A i \in 1 .. m : i \in 0 .. m /\ i # 0
    BY <1>1
  <2> QED BY <1>8, <2>1
<1>10. run \in [0 .. m -> ChunkStates]
  <2> HIDE DEF run
  <2> DEFINE E == {i \in Nat : i <= m => run[i] \in ChunkStates}
  <2>1. 0 \in E
    BY <1>2, <1>9
  <2>2. ASSUME NEW i \in Nat, i \in E PROVE i + 1 \in E
    <3> SUFFICES ASSUME i + 1 <= m PROVE run[i + 1] \in ChunkStates
      OBVIOUS
    <3>1. i + 1 \in 1 .. m /\ (i + 1) - 1 = i /\ run[i] \in ChunkStates
      BY <1>1, <2>2
    <3>2. rest[i + 1] \in HttpUnits
      BY <3>1
    <3>3. run[i + 1] = ChunkUnit(run[i], rest[i + 1])
      BY <1>9, <3>1
    <3> QED BY <3>1, <3>2, <3>3, ChunkUnitType
  <2>3. \A i \in Nat : i \in E
    <3> HIDE DEF E
    <3> QED BY <2>1, <2>2, SetInduction
  <2>4. \A i \in 0 .. m : run[i] \in ChunkStates
    BY <1>1, <2>3
  <2> HIDE DEF begin
  <2> QED BY <1>8, <2>4
<1>11. DecodeChunked(rest) = LET s == run[Len(rest)] IN
         IF s.phase = "error" THEN Result(s.error, <<>>)
         ELSE IF s.phase # "done" THEN Result("TruncatedBody", <<>>)
         ELSE Result("", s.body)
  BY DEF DecodeChunked, ChunkIsShort
<1> HIDE DEF run
<1>12. Runs(run, rest)
  BY <1>9 DEF Runs, ChunkState
<1> QED BY <1>10, <1>11, <1>12

-----------------------------------------------------------------------------
(* The units of the body. *)

(* a stands at the front of b. *)
AtFront(a, b) == Len(a) <= Len(b) /\ \A j \in 1 .. Len(a) : b[j] = a[j]

(* What is joined first stands at the front. *)
LEMMA JoinsPrefix ==
  ASSUME NEW U, NEW s \in Seq(Seq(U)), NEW h \in [0 .. Len(s) -> Seq(U)], Joins(h, s),
         NEW k \in 0 .. Len(s)
  PROVE  Len(h[k]) \in Nat /\ AtFront(h[k], h[Len(s)])
<1> USE DEF AtFront
<1> DEFINE E == {d \in Nat : k + d <= Len(s) => AtFront(h[k], h[k + d])}
<1>0. Len(s) \in Nat /\ Len(s) \in 0 .. Len(s)
  OBVIOUS
<1>1. Len(s) \in Nat /\ h[k] \in Seq(U) /\ h[Len(s)] \in Seq(U)
  BY <1>0
<1>2. 0 \in E
  <2>1. k + 0 = k
    OBVIOUS
  <2>2. Len(h[k]) <= Len(h[k])
    BY <1>1
  <2> QED BY <2>1, <2>2
<1>3. ASSUME NEW d \in Nat, d \in E PROVE d + 1 \in E
  <2> SUFFICES ASSUME k + (d + 1) <= Len(s) PROVE AtFront(h[k], h[k + (d + 1)])
    OBVIOUS
  <2>1. /\ k + (d + 1) \in 1 .. Len(s) /\ (k + (d + 1)) - 1 = k + d /\ k + d \in 0 .. Len(s)
        /\ k + d <= Len(s)
    BY <1>1
  <2>2. AtFront(h[k], h[k + d])
    BY <1>3, <2>1
  <2>3. h[k + (d + 1)] = h[k + d] \o s[k + (d + 1)]
    BY <2>1 DEF Joins
  <2>4. PICK x \in Seq(U), y \in Seq(U) : x = h[k + d] /\ y = s[k + (d + 1)]
    BY <2>1
  <2>5. AtFront(x, x \o y)
    OBVIOUS
  <2>6. Len(h[k]) \in Nat /\ Len(x) \in Nat /\ Len(x \o y) \in Nat
    BY <1>1
  <2>7. Len(h[k]) <= Len(x) /\ Len(h[k]) <= Len(x \o y)
    <3>1. Len(h[k]) <= Len(x)
      BY <2>2, <2>4
    <3>2. Len(x) <= Len(x \o y)
      BY <2>5
    <3> HIDE DEF AtFront
    <3> QED BY <2>6, <3>1, <3>2
  <2>8. ASSUME NEW j \in 1 .. Len(h[k]) PROVE (x \o y)[j] = h[k][j]
    <3>1. j \in 1 .. Len(x)
      BY <2>6, <2>7
    <3> QED BY <2>2, <2>4, <2>5, <3>1
  <2> QED BY <2>3, <2>4, <2>7, <2>8
<1>4. \A d \in Nat : d \in E
  <2> HIDE DEF E
  <2> QED BY <1>2, <1>3, SetInduction
<1>5. Len(s) - k \in Nat /\ k + (Len(s) - k) = Len(s)
  BY <1>1
<1>6. AtFront(h[k], h[Len(s)])
  <2> HIDE DEF AtFront
  <2>1. Len(s) - k \in E
    BY <1>4, <1>5
  <2>2. Len(s) <= Len(s)
    BY <1>0
  <2> QED BY <1>5, <2>1, <2>2
<1> QED BY <1>1, <1>6

(* No units. *)
LEMMA EmptyUnits == <<>> \in Seq(HttpUnits) /\ Len(<<>>) = 0
<1>1. <<>> \in Seq(HttpUnits)
  OBVIOUS
<1>2. Len(<<>>) = 0
  OBVIOUS
<1> QED BY <1>1, <1>2

(* The first bytes of a body, and one more. *)
LEMMA BytesFacts ==
  ASSUME NEW k \in Nat
  PROVE  /\ Bytes(k) \in Seq(HttpUnits) /\ Len(Bytes(k)) = k
         /\ Append(Bytes(k), Unit("byte", k + 1)) = Bytes(k + 1)
<1> DEFINE b == [j \in 1 .. k |-> Unit("byte", j)]
           e == [j \in 1 .. k + 1 |-> Unit("byte", j)]
<1>1. \A j \in Nat : Unit("byte", j) \in HttpUnits
  BY DEF Unit, HttpUnits
<1> HIDE DEF Unit, HttpUnits
<1>2. b \in Seq(HttpUnits) /\ Len(b) = k /\ e \in Seq(HttpUnits) /\ Len(e) = k + 1
  BY <1>1
<1>3. \A j \in 1 .. k + 1 : Append(b, Unit("byte", k + 1))[j] = e[j]
  BY <1>1
<1>4. Append(b, Unit("byte", k + 1)) = e
  BY <1>1, <1>2, <1>3
<1> QED BY <1>2, <1>4 DEF Bytes

(* Two sequences. *)
LEMMA JoinTwo ==
  ASSUME NEW U, NEW x \in Seq(U), NEW y \in Seq(U)
  PROVE  x \o y \in Seq(U) /\ Len(x \o y) = Len(x) + Len(y)
OBVIOUS

(* What stands where. *)
LEMMA JoinTwoItems ==
  ASSUME NEW U, NEW x \in Seq(U), NEW y \in Seq(U), NEW n \in Nat, n = Len(x)
  PROVE  /\ \A i \in 1 .. n : (x \o y)[i] = x[i]
         /\ \A i \in 1 .. Len(y) : (x \o y)[n + i] = y[i]
<1>1. \A i \in 1 .. n : (x \o y)[i] = x[i]
  OBVIOUS
<1>2. ASSUME NEW i \in 1 .. Len(y) PROVE (x \o y)[n + i] = y[i]
  <2>1. n + i \in 1 .. Len(x) + Len(y) /\ ~(n + i <= Len(x)) /\ (n + i) - Len(x) = i
    OBVIOUS
  <2> QED BY <2>1
<1> QED BY <1>1, <1>2

(* Equal and longer sequences. *)
LEMMA SameItems ==
  ASSUME NEW U, NEW x \in Seq(U), NEW y \in Seq(U), Len(x) = Len(y),
         \A i \in 1 .. Len(x) : x[i] = y[i]
  PROVE  x = y /\ SubSeq(x, 1, Len(x)) = x
OBVIOUS

(* The same at the front of a longer one. *)
LEMMA PrefixItems ==
  ASSUME NEW U, NEW x \in Seq(U), NEW y \in Seq(U), Len(x) <= Len(y),
         \A i \in 1 .. Len(x) : x[i] = y[i]
  PROVE  IsPrefix(x, y)
<1>1. SubSeq(x, 1, Len(x)) = SubSeq(y, 1, Len(x))
  OBVIOUS
<1> QED BY <1>1 DEF IsPrefix

(* A part of a sequence. *)
LEMMA PartOf ==
  ASSUME NEW U, NEW w \in Seq(U), NEW m \in Nat, NEW n \in Nat, m <= n, n <= Len(w)
  PROVE  /\ SubSeq(w, m + 1, n) \in Seq(U) /\ Len(SubSeq(w, m + 1, n)) = n - m
         /\ \A i \in 1 .. n - m : SubSeq(w, m + 1, n)[i] = w[m + i]
<1>1. SubSeq(w, m + 1, n) \in Seq(U)
  OBVIOUS
<1>2. Len(SubSeq(w, m + 1, n)) = n - m
  OBVIOUS
<1>3. ASSUME NEW i \in 1 .. n - m PROVE SubSeq(w, m + 1, n)[i] = w[m + i]
  <2>1. (m + 1) + i - 1 = m + i
    OBVIOUS
  <2> QED BY <2>1
<1> QED BY <1>1, <1>2, <1>3

(* What follows the first of two. *)
LEMMA JoinTwoNext ==
  ASSUME NEW U, NEW x \in Seq(U), NEW y \in Seq(U), NEW n \in Nat, n = Len(x), 1 <= Len(y)
  PROVE  (x \o y)[n + 1] = y[1]
<1>1. 1 \in 1 .. Len(y)
  OBVIOUS
<1> QED BY <1>1, JoinTwoItems

(* An index of a part is one of the whole. *)
LEMMA Within ==
  ASSUME NEW k \in Nat, NEW z \in Nat, k <= z, NEW i \in 1 .. k
  PROVE  i <= z
OBVIOUS

(* At most three units, one after the other. *)
LEMMA JoinThree ==
  ASSUME NEW U, NEW x \in Seq(U), NEW y \in Seq(U), NEW z \in Seq(U),
         NEW d \in 0 .. 1, NEW c \in 0 .. 1, Len(x) = d, Len(y) = 1, Len(z) = c
  PROVE  /\ (x \o y) \o z \in Seq(U) /\ Len((x \o y) \o z) = d + 1 + c
         /\ \A j \in 1 .. d : ((x \o y) \o z)[j] = x[j]
         /\ ((x \o y) \o z)[d + 1] = y[1]
         /\ c = 1 => ((x \o y) \o z)[d + 2] = z[1]
<1>1. x \o y \in Seq(U) /\ Len(x \o y) = d + 1
  <2>1. x \o y \in Seq(U) /\ Len(x \o y) = Len(x) + Len(y)
    BY JoinTwo
  <2> QED BY <2>1
<1>2. (\A j \in 1 .. d : (x \o y)[j] = x[j]) /\ (x \o y)[d + 1] = y[1]
  <2>1. PICK n \in Nat : n = d /\ n = Len(x) /\ 1 <= Len(y)
    OBVIOUS
  <2>2. \A j \in 1 .. n : (x \o y)[j] = x[j]
    BY <2>1, JoinTwoItems
  <2>3. (x \o y)[n + 1] = y[1]
    BY <2>1, JoinTwoNext
  <2> QED BY <2>1, <2>2, <2>3
<1>3. PICK w \in Seq(U) : w = x \o y
  BY <1>1
<1>4. w \o z \in Seq(U) /\ Len(w) = d + 1 /\ Len(w \o z) = d + 1 + c
  BY <1>1, <1>3
<1>5. \A j \in 1 .. d + 1 : (w \o z)[j] = w[j]
  BY <1>4
<1>6. c = 1 => (w \o z)[d + 2] = z[1]
  <2> SUFFICES ASSUME c = 1 PROVE (w \o z)[d + 2] = z[1]
    OBVIOUS
  <2>1. d + 2 \in 1 .. Len(w) + Len(z) /\ ~(d + 2 <= Len(w)) /\ (d + 2) - Len(w) = 1
    BY <1>4
  <2> QED BY <2>1
<1>7. \A j \in 1 .. d : j \in 1 .. d + 1
  OBVIOUS
<1>8. d + 1 \in 1 .. d + 1
  OBVIOUS
<1> QED BY <1>2, <1>3, <1>4, <1>5, <1>6, <1>7, <1>8

(* Byte k and its framing in a chunked body: d and c count the units before *)
(* and behind it.                                                           *)
UnitsBefore(r, k) == IF BetweenChunks(r, k - 1) THEN 1 ELSE 0
UnitsBehind(r, k) == IF k \in r.ends THEN 1 ELSE 0

(* The units of byte k are these, and none of them ends the body. *)
LEMMA ByteOfChunk ==
  ASSUME NEW r \in Responses, r.framing = "chunked", NEW k \in 1 .. r.size,
         NEW d \in 0 .. 1, NEW c \in 0 .. 1, d = UnitsBefore(r, k), c = UnitsBehind(r, k)
  PROVE  /\ ByteOf(r, k) \in Seq(HttpUnits) /\ Len(ByteOf(r, k)) = d + 1 + c
         /\ d = 1 => ByteOf(r, k)[1] = Unit("size", EndOf(r, k) - k + 1)
         /\ ByteOf(r, k)[d + 1] = Unit("byte", k)
         /\ c = 1 => ByteOf(r, k)[d + 2] = Unit("line end", 0)
         /\ \A j \in 1 .. Len(ByteOf(r, k)) : ByteOf(r, k)[j] # Unit("size", 0)
<1> DEFINE m == EndOf(r, k) - k + 1
<1>1. r.size \in Nat /\ m \in Nat /\ m # 0
  BY ResponseParts, EndOfChunk
<1>2. Unit("size", m) \in HttpUnits
  BY <1>1 DEF HttpUnits, Unit
<1>3. k \in Nat
  BY <1>1
<1>4. Unit("byte", k) \in HttpUnits
  BY <1>3 DEF HttpUnits, Unit
<1>5. Unit("line end", 0) \in HttpUnits
  BY DEF HttpUnits, Unit
<1>6. /\ Unit("size", m) # Unit("size", 0) /\ Unit("byte", k) # Unit("size", 0)
      /\ Unit("line end", 0) # Unit("size", 0)
  BY <1>1 DEF Unit
<1>7. k = 1 \/ k - 1 \in r.ends <=> BetweenChunks(r, k - 1)
  BY <1>1 DEF BetweenChunks
<1>8. ByteOf(r, k) =
        (IF k = 1 \/ k - 1 \in r.ends THEN <<Unit("size", m)>> ELSE <<>>)
           \o <<Unit("byte", k)>>
           \o (IF k \in r.ends THEN <<Unit("line end", 0)>> ELSE <<>>)
  BY DEF ByteOf, EndOf
<1> HIDE DEF m, HttpUnits, Unit
<1>9. PICK x \in Seq(HttpUnits) :
        /\ x = IF k = 1 \/ k - 1 \in r.ends THEN <<Unit("size", m)>> ELSE <<>>
        /\ Len(x) = d /\ (d = 1 => x[1] = Unit("size", m))
  <2>1. CASE BetweenChunks(r, k - 1)
    <3>1. d = 1
      BY <2>1 DEF UnitsBefore
    <3>2. <<Unit("size", m)>> \in Seq(HttpUnits) /\ Len(<<Unit("size", m)>>) = 1
      BY <1>2
    <3>3. <<Unit("size", m)>>[1] = Unit("size", m)
      OBVIOUS
    <3>4. (IF k = 1 \/ k - 1 \in r.ends THEN <<Unit("size", m)>> ELSE <<>>) = <<Unit("size", m)>>
      BY <1>7, <2>1
    <3> QED BY <3>1, <3>2, <3>3, <3>4
  <2>2. CASE ~ BetweenChunks(r, k - 1)
    <3>1. d = 0
      BY <2>2 DEF UnitsBefore
    <3>2. (IF k = 1 \/ k - 1 \in r.ends THEN <<Unit("size", m)>> ELSE <<>>) = <<>>
      BY <1>7, <2>2
    <3>3. PICK v \in Seq(HttpUnits) : v = <<>> /\ Len(v) = 0
      BY EmptyUnits
    <3>4. ~(0 = 1)
      OBVIOUS
    <3> QED BY <3>1, <3>2, <3>3, <3>4
  <2> QED BY <2>1, <2>2
<1>10. PICK y \in Seq(HttpUnits) : y = <<Unit("byte", k)>> /\ Len(y) = 1 /\ y[1] = Unit("byte", k)
  <2>1. <<Unit("byte", k)>> \in Seq(HttpUnits) /\ Len(<<Unit("byte", k)>>) = 1
    BY <1>4
  <2> QED BY <2>1
<1>11. PICK z \in Seq(HttpUnits) :
        /\ z = IF k \in r.ends THEN <<Unit("line end", 0)>> ELSE <<>>
        /\ Len(z) = c /\ (c = 1 => z[1] = Unit("line end", 0))
  <2>1. CASE k \in r.ends
    <3>1. c = 1
      BY <2>1 DEF UnitsBehind
    <3>2. PICK v \in HttpUnits : v = Unit("line end", 0)
      BY <1>5
    <3>3. <<v>> \in Seq(HttpUnits) /\ Len(<<v>>) = 1 /\ <<v>>[1] = v
      OBVIOUS
    <3>4. (IF k \in r.ends THEN <<Unit("line end", 0)>> ELSE <<>>) = <<v>>
      BY <2>1, <3>2
    <3> QED BY <3>1, <3>2, <3>3, <3>4
  <2>2. CASE k \notin r.ends
    <3>1. c = 0
      BY <2>2 DEF UnitsBehind
    <3>2. (IF k \in r.ends THEN <<Unit("line end", 0)>> ELSE <<>>) = <<>>
      BY <2>2
    <3>3. PICK v \in Seq(HttpUnits) : v = <<>> /\ Len(v) = 0
      BY EmptyUnits
    <3>4. ~(0 = 1)
      OBVIOUS
    <3> QED BY <3>1, <3>2, <3>3, <3>4
  <2> QED BY <2>1, <2>2
<1>12. ByteOf(r, k) = (x \o y) \o z
  BY <1>8, <1>9, <1>10, <1>11
<1>13. /\ (x \o y) \o z \in Seq(HttpUnits) /\ Len((x \o y) \o z) = d + 1 + c
       /\ \A j \in 1 .. d : ((x \o y) \o z)[j] = x[j]
       /\ ((x \o y) \o z)[d + 1] = y[1]
       /\ c = 1 => ((x \o y) \o z)[d + 2] = z[1]
  <2>1. Len(x) = d /\ Len(y) = 1 /\ Len(z) = c
    BY <1>9, <1>10, <1>11
  <2>2. x \in Seq(HttpUnits) /\ y \in Seq(HttpUnits) /\ z \in Seq(HttpUnits)
    BY <1>9, <1>10, <1>11
  <2> QED BY <2>1, <2>2, JoinThree
<1>14. ASSUME NEW j \in 1 .. d + 1 + c PROVE ((x \o y) \o z)[j] # Unit("size", 0)
  <2>1. (d = 1 /\ j = 1) \/ j = d + 1 \/ (c = 1 /\ j = d + 2)
    OBVIOUS
  <2>2. d = 1 => 1 \in 1 .. d
    OBVIOUS
  <2> QED BY <1>6, <1>9, <1>10, <1>11, <1>13, <2>1, <2>2
<1>15. PICK w \in Seq(HttpUnits) : w = (x \o y) \o z
  BY <1>13
<1>16. /\ Len(w) = d + 1 + c
       /\ w[d + 1] = Unit("byte", k)
       /\ c = 1 => w[d + 2] = Unit("line end", 0)
  BY <1>10, <1>11, <1>13, <1>15, Zenon
<1>17. d = 1 => w[1] = Unit("size", m)
  <2>1. d = 1 => 1 \in 1 .. d
    OBVIOUS
  <2> QED BY <1>9, <1>13, <1>15, <2>1, Zenon
<1>18. \A j \in 1 .. Len(w) : w[j] # Unit("size", 0)
  BY <1>14, <1>15, <1>16, Zenon
<1>19. ByteOf(r, k) = w
  BY <1>12, <1>15
<1> QED BY <1>16, <1>17, <1>18, <1>19, Zenon DEF m

(* The units of a piece, decoded from position p on. *)
Decodes(after, p, piece) ==
  \A i \in 1 .. Len(piece) : after[p + i] = ChunkUnit(after[(p + i) - 1], piece[i])

(* Byte k and its framing, decoded. *)
LEMMA ChunkedByte ==
  ASSUME NEW r \in Responses, r.framing = "chunked", NEW k \in 1 .. r.size,
         NEW piece \in Seq(HttpUnits), piece = ByteOf(r, k),
         NEW after, NEW p \in Nat, after[p] = AfterBytes(r, k - 1), Decodes(after, p, piece)
  PROVE  \/ after[p + Len(piece)] = AfterBytes(r, k)
         \/ r.size > MaxBody /\ after[p + Len(piece)].phase = "error"
<1> DEFINE m == EndOf(r, k) - k + 1
           Refused(s) == r.size > MaxBody /\ s.phase = "error"
<1>d. PICK d \in 0 .. 1, c \in 0 .. 1 : d = UnitsBefore(r, k) /\ c = UnitsBehind(r, k)
  BY DEF UnitsBefore, UnitsBehind
<1>0. Len(piece) = d + 1 + c
  BY <1>d, ByteOfChunk
<1>1. /\ d = 1 => piece[1] = Unit("size", m)
      /\ piece[d + 1] = Unit("byte", k)
      /\ c = 1 => piece[d + 2] = Unit("line end", 0)
  BY <1>d, ByteOfChunk
<1>2. /\ r.size \in Nat /\ r.ends \in SUBSET (1 .. r.size)
      /\ EndOf(r, k) \in r.ends /\ EndOf(r, k) \in k .. r.size
      /\ \A f \in r.ends : f >= k => EndOf(r, k) <= f
  BY ResponseParts, EndOfChunk
<1>3. k - 1 \in Nat /\ m \in Nat /\ m > 0 /\ MaxBody \in Nat
  BY <1>2, HttpAssumption
<1>4. (m = 1) <=> k \in r.ends
  BY <1>2
<1>5. Bytes(k - 1) \in Seq(HttpUnits) /\ Len(Bytes(k - 1)) = k - 1
  BY <1>3, BytesFacts
<1>6. Append(Bytes(k - 1), Unit("byte", k)) = Bytes(k) /\ Bytes(k) \in Seq(HttpUnits)
  <2>1. (k - 1) + 1 = k /\ k \in Nat
    BY <1>2
  <2>2. Append(Bytes(k - 1), Unit("byte", (k - 1) + 1)) = Bytes((k - 1) + 1)
    BY <1>3, BytesFacts
  <2> QED BY <2>1, <2>2, BytesFacts
<1>7. \A s, u : Refused(s) => ChunkUnit(s, u) = s
  BY DEF ChunkUnit
<1> HIDE DEF m, Refused
<1>8. after[p + d] = ChunkState("bytes", m, Bytes(k - 1)) \/ Refused(after[p + d])
  <2>1. CASE BetweenChunks(r, k - 1)
    <3>0. d = 1
      BY <1>d, <2>1 DEF UnitsBefore
    <3>1. d = 1 /\ 1 \in 1 .. Len(piece) /\ (p + 1) - 1 = p
      BY <1>0, <3>0
    <3>2. after[p] = ChunkState("size", 0, Bytes(k - 1))
      BY <2>1 DEF AfterBytes
    <3>3. after[p + 1] = ChunkUnit(ChunkState("size", 0, Bytes(k - 1)), Unit("size", m))
      BY <1>1, <2>1, <3>1, <3>2 DEF Decodes
    <3>4. (k - 1) + m <= r.size
      BY <1>2 DEF m
    <3>5. CASE Len(Bytes(k - 1)) + m > MaxBody
      <4>1. after[p + 1].phase = "error"
        BY <1>3, <1>5, <3>3, <3>5, SizeUnit
      <4>2. r.size > MaxBody
        BY <1>2, <1>3, <1>5, <3>4, <3>5
      <4> QED BY <3>1, <4>1, <4>2 DEF Refused
    <3>6. CASE ~(Len(Bytes(k - 1)) + m > MaxBody)
      <4>1. after[p + 1] = ChunkState("bytes", m, Bytes(k - 1))
        BY <1>3, <1>5, <3>3, <3>6, SizeUnit
      <4> QED BY <3>1, <4>1
    <3> QED BY <3>5, <3>6
  <2>2. CASE ~ BetweenChunks(r, k - 1)
    <3>1. d = 0 /\ p + 0 = p
      BY <1>d, <2>2 DEF UnitsBefore
    <3>2. k - 1 \in 1 .. r.size /\ k - 1 \notin r.ends /\ (k - 1) + 1 = k
      BY <1>2, <1>3, <2>2 DEF BetweenChunks
    <3>3. EndOf(r, k) = EndOf(r, k - 1)
      BY <3>2, EndOfNext
    <3>4. EndOf(r, k - 1) - (k - 1) = m
      BY <1>2, <3>3 DEF m
    <3> QED BY <2>2, <3>1, <3>4 DEF AfterBytes
  <2> QED BY <2>1, <2>2
<1>9. \/ after[p + d + 1] = ChunkState(IF m = 1 THEN "line end" ELSE "bytes", m - 1, Bytes(k))
      \/ Refused(after[p + d + 1])
  <2>1. d + 1 \in 1 .. Len(piece) /\ p + (d + 1) = p + d + 1 /\ (p + (d + 1)) - 1 = p + d
    BY <1>0
  <2>2. after[p + d + 1] = ChunkUnit(after[p + d], Unit("byte", k))
    BY <1>1, <2>1 DEF Decodes
  <2>3. ChunkUnit(ChunkState("bytes", m, Bytes(k - 1)), Unit("byte", k))
          = ChunkState(IF m = 1 THEN "line end" ELSE "bytes", m - 1, Bytes(k))
    <3>1. k \in Nat
      BY <1>2
    <3>2. ChunkUnit(ChunkState("bytes", m, Bytes(k - 1)), Unit("byte", k))
            = ChunkState(IF m = 1 THEN "line end" ELSE "bytes", m - 1,
                         Append(Bytes(k - 1), Unit("byte", k)))
      BY <1>3, <1>5, <3>1, ByteUnit, Zenon
    <3> QED BY <1>6, <3>2, Zenon
  <2> QED BY <1>7, <1>8, <2>2, <2>3
<1>10. CASE k \in r.ends
  <2>0. c = 1
    BY <1>d, <1>10 DEF UnitsBehind
  <2>1. /\ d + 2 \in 1 .. Len(piece) /\ (p + (d + 2)) - 1 = p + d + 1
        /\ p + Len(piece) = p + (d + 2)
    BY <1>0, <2>0
  <2>2. after[p + (d + 2)] = ChunkUnit(after[p + d + 1], Unit("line end", 0))
    BY <1>1, <2>0, <2>1 DEF Decodes
  <2>3. m = 1 /\ m - 1 = 0
    BY <1>4, <1>10
  <2>4. ChunkUnit(ChunkState("line end", 0, Bytes(k)), Unit("line end", 0)) = AfterBytes(r, k)
    BY <1>6, <1>10, LineEndUnit DEF AfterBytes, BetweenChunks
  <2>5. after[p + (d + 2)] = AfterBytes(r, k) \/ Refused(after[p + (d + 2)])
    BY <1>7, <1>9, <2>2, <2>3, <2>4
  <2> QED BY <2>1, <2>5 DEF Refused
<1>11. CASE k \notin r.ends
  <2>0. c = 0
    BY <1>d, <1>11 DEF UnitsBehind
  <2>1. p + Len(piece) = p + d + 1
    BY <1>0, <2>0
  <2>2. ~ BetweenChunks(r, k) /\ m # 1 /\ m - 1 = EndOf(r, k) - k
    BY <1>2, <1>4, <1>11 DEF BetweenChunks, m
  <2>3. AfterBytes(r, k) = ChunkState("bytes", m - 1, Bytes(k))
    BY <2>2 DEF AfterBytes
  <2> QED BY <1>9, <2>1, <2>2, <2>3 DEF Refused
<1> QED BY <1>10, <1>11

-----------------------------------------------------------------------------
(***************************************************************************)
(* The whole body.                                                         *)
(***************************************************************************)

(* A body that is not chunked is its bytes. *)
LEMMA ByteOfPlain ==
  ASSUME NEW r \in Responses, r.framing # "chunked", NEW k \in 1 .. r.size
  PROVE  ByteOf(r, k) = <<Unit("byte", k)>>
BY DEF ByteOf

(* The pieces of a body. *)
LEMMA PiecesType ==
  ASSUME NEW r \in Responses
  PROVE  Pieces(r) \in Seq(Seq(HttpUnits)) /\ Len(Pieces(r)) = r.size /\ r.size \in Nat
<1>1. r.size \in Nat
  BY ResponseParts
<1>2. ASSUME NEW k \in 1 .. r.size PROVE ByteOf(r, k) \in Seq(HttpUnits)
  <2>1. CASE r.framing = "chunked"
    <3>1. PICK d \in 0 .. 1, c \in 0 .. 1 : d = UnitsBefore(r, k) /\ c = UnitsBehind(r, k)
      BY DEF UnitsBefore, UnitsBehind
    <3> QED BY <2>1, <3>1, ByteOfChunk
  <2>2. CASE r.framing # "chunked"
    <3>1. k \in Nat
      BY <1>1
    <3>2. PICK v \in HttpUnits : v = Unit("byte", k)
      BY <3>1 DEF HttpUnits, Unit
    <3>3. <<v>> \in Seq(HttpUnits)
      OBVIOUS
    <3> QED BY <2>2, <3>2, <3>3, ByteOfPlain
  <2> QED BY <2>1, <2>2
<1> QED BY <1>1, <1>2 DEF Pieces

(* The bytes are numbered from 1. *)
LEMMA PlainBody ==
  ASSUME NEW r \in Responses, r.framing # "chunked"
  PROVE  FlattenSeq(Pieces(r)) = Bytes(r.size)
<1>1. Pieces(r) \in Seq(Seq(HttpUnits)) /\ Len(Pieces(r)) = r.size /\ r.size \in Nat
  BY PiecesType
<1>2. PICK h \in [0 .. r.size -> Seq(HttpUnits)] :
        Joins(h, Pieces(r)) /\ FlattenSeq(Pieces(r)) = h[r.size]
  <2>1. PICK h \in [0 .. Len(Pieces(r)) -> Seq(HttpUnits)] :
          Joins(h, Pieces(r)) /\ FlattenSeq(Pieces(r)) = h[Len(Pieces(r))]
    BY <1>1, FlattenJoins
  <2> QED BY <1>1, <2>1
<1> DEFINE E == {k \in Nat : k <= r.size => h[k] = Bytes(k)}
<1>3. 0 \in E
  <2>1. Bytes(0) = <<>>
    BY DEF Bytes
  <2> QED BY <1>2, <2>1 DEF Joins
<1>4. ASSUME NEW k \in Nat, k \in E PROVE k + 1 \in E
  <2> SUFFICES ASSUME k + 1 <= r.size PROVE h[k + 1] = Bytes(k + 1)
    OBVIOUS
  <2>1. k + 1 \in 1 .. r.size /\ (k + 1) - 1 = k /\ k <= r.size
    BY <1>1
  <2>2. h[k] = Bytes(k)
    BY <1>4, <2>1
  <2>3. Pieces(r)[k + 1] = <<Unit("byte", k + 1)>>
    BY <2>1, ByteOfPlain DEF Pieces
  <2>4. h[k + 1] = Bytes(k) \o <<Unit("byte", k + 1)>>
    BY <1>1, <1>2, <2>1, <2>2, <2>3 DEF Joins
  <2>5. PICK v \in HttpUnits : v = Unit("byte", k + 1)
    <3>1. PICK x \in Nat : x = k + 1
      OBVIOUS
    <3>2. Unit("byte", x) \in HttpUnits
      BY DEF HttpUnits, Unit
    <3> QED BY <3>1, <3>2
  <2>6. Bytes(k) \in Seq(HttpUnits) /\ Append(Bytes(k), v) = Bytes(k + 1)
    BY <2>5, BytesFacts
  <2>7. Bytes(k) \o <<v>> = Append(Bytes(k), v)
    BY <2>6
  <2> QED BY <2>4, <2>5, <2>6, <2>7
<1>5. \A k \in Nat : k \in E
  <2> HIDE DEF E
  <2> QED BY <1>3, <1>4, SetInduction
<1>6. h[r.size] = Bytes(r.size)
  BY <1>1, <1>5
<1> QED BY <1>2, <1>6

(* rest is part of f, which has `full` units, and of the last size line. *)
Begins(rest, f, full) ==
  \A i \in 1 .. Len(rest) : rest[i] = IF i <= full THEN f[i] ELSE Unit("size", 0)

(* The state after m units of a body of `full` and the last size line. *)
DecodedTo(r, s, m, full) ==
  /\ m <= full => s.phase # "done"
  /\ m = full + 1 => \/ s = ChunkState("done", 0, Bytes(r.size))
                     \/ r.size > MaxBody /\ s.phase = "error"

(* A chunked body, decoded: what is there of it is refused or not yet done, *)
(* and all of it gives its bytes.                                           *)
LEMMA ChunkedBody ==
  ASSUME NEW r \in Responses, r.framing = "chunked",
         NEW f \in Seq(HttpUnits), f = FlattenSeq(Pieces(r)),
         NEW rest \in Seq(HttpUnits), NEW full \in Nat, full = Len(f), Len(rest) <= full + 1,
         Begins(rest, f, full),
         NEW after \in [0 .. Len(rest) -> ChunkStates], Runs(after, rest)
  PROVE  DecodedTo(r, after[Len(rest)], Len(rest), full)
<1> DEFINE Refused(s) == r.size > MaxBody /\ s.phase = "error"
           n == Len(rest)
<1>1. Pieces(r) \in Seq(Seq(HttpUnits)) /\ Len(Pieces(r)) = r.size /\ r.size \in Nat
  BY PiecesType
<1>2. PICK h \in [0 .. r.size -> Seq(HttpUnits)] : Joins(h, Pieces(r)) /\ f = h[r.size]
  <2>1. PICK h \in [0 .. Len(Pieces(r)) -> Seq(HttpUnits)] :
          Joins(h, Pieces(r)) /\ FlattenSeq(Pieces(r)) = h[Len(Pieces(r))]
    BY <1>1, FlattenJoins
  <2> QED BY <1>1, <2>1
<1>3. ASSUME NEW k \in 0 .. r.size
      PROVE  /\ Len(h[k]) \in Nat /\ Len(h[k]) <= full
             /\ \A j \in 1 .. Len(h[k]) : f[j] = h[k][j]
  <2>1. k \in 0 .. Len(Pieces(r)) /\ h \in [0 .. Len(Pieces(r)) -> Seq(HttpUnits)]
    BY <1>1
  <2>2. Len(h[k]) \in Nat /\ AtFront(h[k], h[Len(Pieces(r))])
    BY <1>1, <1>2, <2>1, JoinsPrefix
  <2>3. h[Len(Pieces(r))] = f /\ Len(f) = full
    BY <1>1, <1>2
  <2> QED BY <2>2, <2>3 DEF AtFront
<1>4. ASSUME NEW k \in 1 .. r.size
      PROVE  /\ k \in 0 .. r.size /\ k - 1 \in 0 .. r.size
             /\ ByteOf(r, k) \in Seq(HttpUnits) /\ h[k] = h[k - 1] \o ByteOf(r, k)
             /\ \A j \in 1 .. Len(ByteOf(r, k)) : ByteOf(r, k)[j] # Unit("size", 0)
  <2>1. k \in 0 .. r.size /\ k - 1 \in 0 .. r.size
    BY <1>1
  <2>2. PICK d \in 0 .. 1, c \in 0 .. 1 : d = UnitsBefore(r, k) /\ c = UnitsBehind(r, k)
    BY DEF UnitsBefore, UnitsBehind
  <2>3. Pieces(r)[k] = ByteOf(r, k)
    BY DEF Pieces
  <2>4. h[k] = h[k - 1] \o ByteOf(r, k)
    BY <1>1, <1>2, <2>3 DEF Joins
  <2> QED BY <2>1, <2>2, <2>4, ByteOfChunk
<1>5. \A j \in 1 .. full : f[j] # Unit("size", 0)
  <2> DEFINE E == {k \in Nat : k <= r.size => \A j \in 1 .. Len(h[k]) : h[k][j] # Unit("size", 0)}
  <2>1. 0 \in E
    <3>1. Len(h[0]) = 0
      BY <1>2 DEF Joins
    <3> QED BY <3>1
  <2>2. ASSUME NEW k \in Nat, k \in E PROVE k + 1 \in E
    <3> SUFFICES ASSUME k + 1 <= r.size, NEW j \in 1 .. Len(h[k + 1])
                 PROVE  h[k + 1][j] # Unit("size", 0)
      OBVIOUS
    <3>1. k + 1 \in 1 .. r.size /\ (k + 1) - 1 = k /\ k <= r.size /\ k \in 0 .. r.size
      BY <1>1
    <3>2. PICK a \in Seq(HttpUnits), b \in Seq(HttpUnits) : a = h[k] /\ b = ByteOf(r, k + 1)
      BY <1>4, <3>1
    <3>3. h[k + 1] = a \o b
      BY <1>4, <3>1, <3>2
    <3>4. \A i \in 1 .. Len(a) : a[i] # Unit("size", 0)
      BY <2>2, <3>1, <3>2
    <3>5. \A i \in 1 .. Len(b) : b[i] # Unit("size", 0)
      BY <1>4, <3>1, <3>2
    <3>6. j \in 1 .. Len(a \o b) /\ Len(a \o b) = Len(a) + Len(b)
      BY <3>3, JoinTwo
    <3>7. \/ j \in 1 .. Len(a) /\ (a \o b)[j] = a[j]
          \/ j - Len(a) \in 1 .. Len(b) /\ (a \o b)[j] = b[j - Len(a)]
      BY <3>6
    <3> QED BY <3>3, <3>4, <3>5, <3>7
  <2>3. \A k \in Nat : k \in E
    <3> HIDE DEF E
    <3> QED BY <2>1, <2>2, SetInduction
  <2>4. r.size \in E /\ r.size <= r.size
    BY <1>1, <2>3
  <2> QED BY <1>2, <2>4
<1>6. n \in Nat /\ n \in 0 .. n
  OBVIOUS
<1>7. \A i \in 1 .. n : rest[i] \in HttpUnits
  OBVIOUS
<1>8. \A i \in 0 .. n : i <= full => after[i].phase # "done"
  <2> DEFINE E == {i \in Nat : i <= n /\ i <= full => after[i].phase # "done"}
  <2>1. 0 \in E
    <3>1. after[0] = ChunkState("size", 0, <<>>)
      BY DEF Runs
    <3>2. ChunkState("size", 0, <<>>).phase = "size"
      BY DEF ChunkState
    <3>3. after[0].phase # "done"
      BY <3>1, <3>2
    <3> QED BY <3>3
  <2>2. ASSUME NEW i \in Nat, i \in E PROVE i + 1 \in E
    <3> SUFFICES ASSUME i + 1 <= n, i + 1 <= full PROVE after[i + 1].phase # "done"
      OBVIOUS
    <3>1. i + 1 \in 1 .. n /\ (i + 1) - 1 = i /\ i <= n /\ i <= full /\ i \in 0 .. n /\ i + 1 \in 1 .. full
      BY <1>6
    <3>2. after[i + 1] = ChunkUnit(after[i], rest[i + 1])
      BY <3>1 DEF Runs
    <3>3. rest[i + 1] # Unit("size", 0)
      BY <1>5, <3>1 DEF Begins
    <3>4. after[i].phase # "done" /\ after[i] \in ChunkStates
      BY <2>2, <3>1
    <3> QED BY <1>7, <3>1, <3>2, <3>3, <3>4, ChunkUnitEnds
  <2>3. \A i \in Nat : i \in E
    <3> HIDE DEF E
    <3> QED BY <2>1, <2>2, SetInduction
  <2> QED BY <1>6, <2>3
<1>9. ASSUME n = full + 1
      PROVE  after[full] = AfterBytes(r, r.size) \/ Refused(after[full])
  <2> DEFINE Stands(k) == after[Len(h[k])] = AfterBytes(r, k) \/ Refused(after[Len(h[k])])
             E == {k \in Nat : k <= r.size => Stands(k)}
  <2>1. 0 \in E
    <3>1. Len(h[0]) = 0
      BY <1>2 DEF Joins
    <3>2. Bytes(0) = <<>>
      BY DEF Bytes
    <3>3. after[0] = AfterBytes(r, 0)
      BY <3>2 DEF Runs, AfterBytes, BetweenChunks
    <3> QED BY <3>1, <3>3
  <2>2. ASSUME NEW k \in Nat, k \in E PROVE k + 1 \in E
    <3> SUFFICES ASSUME k + 1 <= r.size PROVE Stands(k + 1)
      OBVIOUS
    <3>1. k + 1 \in 1 .. r.size /\ (k + 1) - 1 = k /\ k <= r.size /\ k \in 0 .. r.size /\ k + 1 \in 0 .. r.size
      BY <1>1
    <3>2. PICK a \in Seq(HttpUnits), b \in Seq(HttpUnits) : a = h[k] /\ b = ByteOf(r, k + 1)
      BY <1>4, <3>1
    <3>3. h[k + 1] = a \o b
      BY <1>4, <3>1, <3>2
    <3>4. Len(a \o b) = Len(a) + Len(b) /\ Len(a) \in Nat /\ Len(b) \in Nat
      BY JoinTwo
    <3>5. Len(a) + Len(b) <= full
      BY <1>3, <3>1, <3>3, <3>4
    <3>6. ASSUME NEW i \in 1 .. Len(b)
          PROVE  after[Len(a) + i] = ChunkUnit(after[(Len(a) + i) - 1], b[i])
      <4>1. Len(a) + i \in 1 .. full /\ Len(a) + i \in 1 .. n /\ Len(a) + i \in 1 .. Len(a) + Len(b)
        BY <1>6, <1>9, <3>4, <3>5
      <4>2. rest[Len(a) + i] = f[Len(a) + i]
        BY <4>1 DEF Begins
      <4>3. f[Len(a) + i] = (a \o b)[Len(a) + i]
        BY <1>3, <3>1, <3>3, <3>4, <4>1
      <4>4. (a \o b)[Len(a) + i] = b[i]
        BY <3>4
      <4> QED BY <4>1, <4>2, <4>3, <4>4 DEF Runs
    <3>7. Stands(k)
      BY <2>2, <3>1
    <3>8. CASE after[Len(a)] = AfterBytes(r, k)
      <4>1. \/ after[Len(a) + Len(b)] = AfterBytes(r, k + 1)
            \/ r.size > MaxBody /\ after[Len(a) + Len(b)].phase = "error"
        <5>1. after[Len(a)] = AfterBytes(r, (k + 1) - 1)
          BY <3>1, <3>8
        <5>2. PICK q \in 1 .. r.size, p \in Nat : q = k + 1 /\ p = Len(a)
          BY <3>1, <3>4
        <5>3. Decodes(after, p, b)
          BY <3>6, <5>2 DEF Decodes
        <5>4. \/ after[p + Len(b)] = AfterBytes(r, q)
              \/ r.size > MaxBody /\ after[p + Len(b)].phase = "error"
          <6>1. b = ByteOf(r, q) /\ after[p] = AfterBytes(r, q - 1)
            BY <3>2, <5>1, <5>2
          <6> HIDE DEF Refused, n, E, Stands
          <6> QED BY <5>3, <6>1, ChunkedByte
        <5> QED BY <5>2, <5>4
      <4> QED BY <3>3, <3>4, <4>1
    <3>9. CASE Refused(after[Len(a)])
      <4> DEFINE G == {i \in Nat : i <= Len(b) => Refused(after[Len(a) + i])}
      <4>1. 0 \in G
        BY <3>4, <3>9
      <4>2. ASSUME NEW i \in Nat, i \in G PROVE i + 1 \in G
        <5> SUFFICES ASSUME i + 1 <= Len(b) PROVE Refused(after[Len(a) + (i + 1)])
          OBVIOUS
        <5>1. i + 1 \in 1 .. Len(b) /\ (Len(a) + (i + 1)) - 1 = Len(a) + i /\ i <= Len(b)
          BY <3>4
        <5>2. after[Len(a) + (i + 1)] = ChunkUnit(after[Len(a) + i], b[i + 1])
          BY <3>6, <5>1
        <5>3. Refused(after[Len(a) + i])
          BY <4>2, <5>1
        <5> QED BY <5>2, <5>3 DEF ChunkUnit
      <4>3. \A i \in Nat : i \in G
        <5> HIDE DEF G
        <5> QED BY <4>1, <4>2, SetInduction
      <4>4. Len(b) \in G /\ Len(b) <= Len(b)
        BY <3>4, <4>3
      <4> QED BY <3>3, <3>4, <4>4
    <3> QED BY <3>2, <3>7, <3>8, <3>9
  <2>3. \A k \in Nat : k \in E
    <3> HIDE DEF E
    <3> QED BY <2>1, <2>2, SetInduction
  <2>4. Stands(r.size)
    <3> HIDE DEF Stands
    <3> QED BY <1>1, <2>3
  <2> QED BY <1>2, <2>4
<1>10. ASSUME n = full + 1
       PROVE  after[n] = ChunkState("done", 0, Bytes(r.size)) \/ Refused(after[n])
  <2>1. n \in 1 .. n /\ n - 1 = full /\ ~(n <= full)
    BY <1>6, <1>10
  <2>2. after[n] = ChunkUnit(after[full], Unit("size", 0))
    BY <2>1 DEF Runs, Begins
  <2>3. BetweenChunks(r, r.size)
    BY <1>1, ResponseParts DEF BetweenChunks
  <2>4. AfterBytes(r, r.size) = ChunkState("size", 0, Bytes(r.size))
    BY <2>3 DEF AfterBytes
  <2>5. ChunkUnit(AfterBytes(r, r.size), Unit("size", 0)) = ChunkState("done", 0, Bytes(r.size))
    BY <1>1, <2>4, BytesFacts, SizeUnit
  <2>6. Refused(after[full]) => Refused(after[n])
    BY <2>2 DEF ChunkUnit
  <2> QED BY <1>9, <1>10, <2>2, <2>5, <2>6
<1> QED BY <1>6, <1>8, <1>10 DEF DecodedTo

-----------------------------------------------------------------------------
(* parse_response. *)

(* The units of a response: its headers, the body with its framing, and the *)
(* last size line.                                                          *)
LEMMA SentUnits ==
  ASSUME NEW r \in Responses, NEW f, f = FlattenSeq(Pieces(r))
  PROVE  /\ f \in Seq(HttpUnits) /\ Len(f) \in Nat /\ r.head \in Nat
         /\ Sent(r) \in Seq(HttpUnits)
         /\ Len(Sent(r)) = r.head + Len(f) + (IF r.framing = "chunked" THEN 1 ELSE 0)
         /\ \A i \in 1 .. Len(Sent(r)) - r.head :
              Sent(r)[r.head + i] = IF i <= Len(f) THEN f[i] ELSE Unit("size", 0)
<1>1. r.head \in Nat /\ r.size \in Nat
  BY ResponseParts
<1>2. Pieces(r) \in Seq(Seq(HttpUnits)) /\ Len(Pieces(r)) = r.size
  BY PiecesType
<1>3. PICK h \in [0 .. Len(Pieces(r)) -> Seq(HttpUnits)] : f = h[Len(Pieces(r))]
  BY <1>2, FlattenJoins
<1>4. Len(Pieces(r)) \in 0 .. Len(Pieces(r))
  BY <1>1, <1>2
<1>5. f \in Seq(HttpUnits)
  BY <1>3, <1>4
<1>6. \A k \in Nat : Unit("header", k) \in HttpUnits
  BY DEF HttpUnits, Unit
<1>7. Unit("size", 0) \in HttpUnits
  BY DEF HttpUnits, Unit
<1>8. Sent(r) = (Headers(r) \o f) \o Trailer(r)
  BY DEF Sent, Headers, Trailer, Pieces
<1> HIDE DEF HttpUnits, Unit
<1>9. Headers(r) \in Seq(HttpUnits) /\ Len(Headers(r)) = r.head
  BY <1>1, <1>6 DEF Headers
<1>10. PICK c \in 0 .. 1 : c = IF r.framing = "chunked" THEN 1 ELSE 0
  OBVIOUS
<1>11. PICK t \in Seq(HttpUnits) : t = Trailer(r) /\ Len(t) = c /\ (c = 1 => t[1] = Unit("size", 0))
  <2>1. CASE r.framing = "chunked"
    <3>1. <<Unit("size", 0)>> \in Seq(HttpUnits) /\ Len(<<Unit("size", 0)>>) = 1
      BY <1>7
    <3>2. <<Unit("size", 0)>>[1] = Unit("size", 0)
      OBVIOUS
    <3>3. c = 1 /\ Trailer(r) = <<Unit("size", 0)>>
      BY <1>10, <2>1 DEF Trailer
    <3> QED BY <3>1, <3>2, <3>3
  <2>2. CASE r.framing # "chunked"
    <3>1. c = 0 /\ Trailer(r) = <<>>
      BY <1>10, <2>2 DEF Trailer
    <3>2. PICK v \in Seq(HttpUnits) : v = <<>> /\ Len(v) = 0
      BY EmptyUnits
    <3>3. ~(0 = 1)
      OBVIOUS
    <3> QED BY <3>1, <3>2, <3>3
  <2> QED BY <2>1, <2>2
<1>12. PICK a \in Seq(HttpUnits), n \in Nat, m \in Nat : a = Headers(r) /\ n = r.head /\ m = Len(f)
  BY <1>1, <1>5, <1>9
<1>13. PICK w \in Seq(HttpUnits) : w = a \o f
  BY <1>5, JoinTwo
<1>14. Len(a) = n /\ Len(w) = n + m /\ \A i \in 1 .. m : w[n + i] = f[i]
  <2>1. Len(a) = n /\ Len(f) = m
    BY <1>9, <1>12
  <2>2. Len(w) = n + m
    BY <1>5, <1>13, <2>1, JoinTwo
  <2>3. \A i \in 1 .. m : w[n + i] = f[i]
    <3>1. \A i \in 1 .. Len(f) : (a \o f)[n + i] = f[i]
      <4>1. n = Len(a) /\ a \in Seq(HttpUnits) /\ f \in Seq(HttpUnits) /\ n \in Nat
        BY <1>5, <2>1
      <4> QED BY <4>1, JoinTwoItems
    <3> QED BY <1>13, <2>1, <3>1
  <2> QED BY <2>1, <2>2, <2>3
<1>15. w \o t \in Seq(HttpUnits) /\ Len(w \o t) = n + m + c
  BY <1>11, <1>14, JoinTwo
<1>16. ASSUME NEW i \in 1 .. m + c
       PROVE  (w \o t)[n + i] = IF i <= m THEN f[i] ELSE Unit("size", 0)
  <2>1. CASE i <= m
    <3>1. n + i \in 1 .. Len(w) /\ i \in 1 .. m
      BY <1>14, <2>1
    <3>2. (w \o t)[n + i] = w[n + i]
      BY <3>1
    <3> QED BY <1>14, <2>1, <3>1, <3>2
  <2>2. CASE ~(i <= m)
    <3>1. c = 1 /\ n + i = Len(w) + 1
      BY <1>14, <2>2
    <3>2. (w \o t)[Len(w) + 1] = t[1]
      <4>1. PICK q \in Nat : q = Len(w)
        OBVIOUS
      <4>2. 1 \in 1 .. Len(t)
        BY <1>11, <3>1
      <4> QED BY <4>1, <4>2, JoinTwoItems
    <3> QED BY <1>11, <2>2, <3>1, <3>2
  <2> QED BY <2>1, <2>2
<1>17. Sent(r) = w \o t
  BY <1>8, <1>11, <1>12, <1>13
<1>18. \A i \in 1 .. Len(Sent(r)) - r.head :
         Sent(r)[r.head + i] = IF i <= Len(f) THEN f[i] ELSE Unit("size", 0)
  <2>1. Len(Sent(r)) - r.head = m + c
    <3>1. Len(Sent(r)) = n + m + c /\ r.head = n
      BY <1>12, <1>15, <1>17
    <3>2. (n + m + c) - n = m + c
      OBVIOUS
    <3> QED BY <3>1, <3>2
  <2> QED BY <1>12, <1>16, <1>17, <2>1
<1> QED BY <1>1, <1>5, <1>10, <1>12, <1>15, <1>17, <1>18

(* rest is what follows the headers in the first n units, and f the body. *)
RestIs(r, n, f, rest) ==
  /\ f = FlattenSeq(Pieces(r))
  /\ rest = SubSeq(SubSeq(Sent(r), 1, n), r.head + 1, Len(SubSeq(Sent(r), 1, n)))

(* What follows the headers in the first n units. *)
LEMMA RestUnits ==
  ASSUME NEW r \in Responses, NEW n \in Nat, r.head <= n, n <= Len(Sent(r)),
         NEW f, NEW rest, RestIs(r, n, f, rest)
  PROVE  /\ rest \in Seq(HttpUnits) /\ Len(rest) = n - r.head
         /\ Begins(rest, f, Len(f))
<1>0. PICK raw : /\ raw = SubSeq(Sent(r), 1, n) /\ rest = SubSeq(raw, r.head + 1, Len(raw))
                 /\ f = FlattenSeq(Pieces(r))
  BY DEF RestIs
<1>1. PICK w \in Seq(HttpUnits), m \in Nat : w = Sent(r) /\ m = r.head
  BY SentUnits
<1>2. Len(w) \in Nat /\ n <= Len(w) /\ m <= n
  BY <1>1
<1>3. raw \in Seq(HttpUnits) /\ Len(raw) = n /\ \A i \in 1 .. n : raw[i] = w[i]
  BY <1>0, <1>1, <1>2
<1>4. rest = SubSeq(raw, m + 1, n)
  BY <1>0, <1>1, <1>3
<1>9. n <= Len(raw)
  BY <1>3
<1>10. /\ SubSeq(raw, m + 1, n) \in Seq(HttpUnits) /\ Len(SubSeq(raw, m + 1, n)) = n - m
       /\ \A i \in 1 .. n - m : SubSeq(raw, m + 1, n)[i] = raw[m + i]
  <2>1. raw \in Seq(HttpUnits) /\ m \in Nat /\ n \in Nat /\ m <= n /\ n <= Len(raw)
    BY <1>2, <1>3, <1>9
  <2> QED BY <2>1, PartOf
<1>5. rest \in Seq(HttpUnits) /\ Len(rest) = n - m
  BY <1>4, <1>10, Zenon
<1>6. ASSUME NEW i \in 1 .. n - m PROVE rest[i] = w[m + i]
  <2>1. m + i \in 1 .. n
    BY <1>2
  <2>2. rest[i] = raw[m + i]
    BY <1>4, <1>10, Zenon
  <2> QED BY <1>3, <2>1, <2>2
<1>7. ASSUME NEW i \in 1 .. n - m
      PROVE  w[m + i] = IF i <= Len(f) THEN f[i] ELSE Unit("size", 0)
  <2>1. i \in 1 .. Len(Sent(r)) - r.head
    BY <1>1, <1>2
  <2> QED BY <1>0, <1>1, <2>1, SentUnits
<1>8. \A i \in 1 .. Len(rest) : rest[i] = IF i <= Len(f) THEN f[i] ELSE Unit("size", 0)
  BY <1>5, <1>6, <1>7
<1> QED BY <1>1, <1>5, <1>8 DEF Begins

(* The chunked body of a response, decoded from its first n units. *)
LEMMA DecodedWhole ==
  ASSUME NEW r \in Responses, r.framing = "chunked",
         NEW n \in Nat, r.head <= n, n <= Len(Sent(r)),
         NEW raw, raw = SubSeq(Sent(r), 1, n), NEW rest, rest = SubSeq(raw, r.head + 1, Len(raw)),
         NEW d, d = DecodeChunked(rest)
  PROVE  /\ d.error \in {"", "TooLarge", "Malformed", "TruncatedBody"}
         /\ d.error = "" => d.body = Bytes(r.size)
         /\ n = Len(Sent(r)) /\ r.size <= MaxBody => d.error = ""
<1>1. PICK f \in Seq(HttpUnits), full \in Nat : f = FlattenSeq(Pieces(r)) /\ full = Len(f)
  BY SentUnits
<1>2. r.head \in Nat /\ Len(Sent(r)) = r.head + full + 1
  BY <1>1, SentUnits
<1>3. /\ rest \in Seq(HttpUnits) /\ Len(rest) = n - r.head
      /\ Begins(rest, f, full)
  <2>1. RestIs(r, n, f, rest)
    BY <1>1 DEF RestIs
  <2>2. rest \in Seq(HttpUnits) /\ Len(rest) = n - r.head
    BY <2>1, RestUnits
  <2>3. Begins(rest, f, Len(f))
    BY <2>1, RestUnits
  <2> QED BY <1>1, <2>2, <2>3
<1>4. PICK after \in [0 .. Len(rest) -> ChunkStates] :
        /\ Runs(after, rest)
        /\ d = IF after[Len(rest)].phase = "error" THEN Result(after[Len(rest)].error, <<>>)
               ELSE IF after[Len(rest)].phase # "done" THEN Result("TruncatedBody", <<>>)
               ELSE Result("", after[Len(rest)].body)
  BY <1>3, DecodeRuns
<1>5. PICK m \in Nat : m = Len(rest) /\ m <= full + 1 /\ (n = Len(Sent(r)) => m = full + 1)
  BY <1>2, <1>3
<1>6. PICK s \in ChunkStates : s = after[Len(rest)]
  <2>1. Len(rest) \in 0 .. Len(rest)
    <3>1. m \in 0 .. m
      OBVIOUS
    <3> QED BY <1>5, <3>1
  <2> QED BY <2>1
<1>7. /\ m <= full => s.phase # "done"
      /\ m = full + 1 =>
           \/ s = ChunkState("done", 0, Bytes(r.size))
           \/ r.size > MaxBody /\ s.phase = "error"
  <2>1. Len(rest) <= full + 1
    BY <1>5
  <2>2. after \in [0 .. Len(rest) -> ChunkStates] /\ Runs(after, rest)
    BY <1>4
  <2>3. rest \in Seq(HttpUnits) /\ Begins(rest, f, full)
    BY <1>3
  <2>4. DecodedTo(r, after[Len(rest)], Len(rest), full)
    BY <1>1, <2>1, <2>2, <2>3, ChunkedBody
  <2> QED BY <1>5, <1>6, <2>4 DEF DecodedTo
<1> HIDE DEF ChunkStates
<1>8. s.error \in {"", "TooLarge", "Malformed"} /\ (s.phase = "error" => s.error # "")
  BY DEF ChunkStates, ChunkRecords
<1>9. d = IF s.phase = "error" THEN Result(s.error, <<>>)
          ELSE IF s.phase # "done" THEN Result("TruncatedBody", <<>>)
          ELSE Result("", s.body)
  BY <1>4, <1>6
<1>10. CASE s.phase = "error"
  <2>1. d.error = s.error
    BY <1>9, <1>10 DEF Result
  <2>2. ~(n = Len(Sent(r)) /\ r.size <= MaxBody)
    <3> SUFFICES ASSUME n = Len(Sent(r)), r.size <= MaxBody PROVE FALSE
      OBVIOUS
    <3>1. s = ChunkState("done", 0, Bytes(r.size)) \/ r.size > MaxBody
      BY <1>5, <1>7
    <3>2. ChunkState("done", 0, Bytes(r.size)).phase # "error"
      BY DEF ChunkState
    <3>3. r.size \in Nat /\ MaxBody \in Nat
      BY ResponseParts, HttpAssumption
    <3> QED BY <1>10, <3>1, <3>2, <3>3
  <2> QED BY <1>8, <1>10, <2>1, <2>2
<1>11. CASE s.phase # "error" /\ s.phase # "done"
  <2>1. d.error = "TruncatedBody"
    BY <1>9, <1>11 DEF Result
  <2>2. n # Len(Sent(r))
    <3>1. ChunkState("done", 0, Bytes(r.size)).phase = "done"
      BY DEF ChunkState
    <3>2. m # full + 1
      BY <1>7, <1>11, <3>1
    <3> QED BY <1>5, <3>2
  <2> QED BY <2>1, <2>2
<1>12. CASE s.phase = "done"
  <2>0. d = Result("", s.body)
    BY <1>9, <1>12
  <2>1. d.error = "" /\ d.body = s.body
    <3>1. Result("", s.body).error = "" /\ Result("", s.body).body = s.body
      BY DEF Result
    <3> QED BY <2>0, <3>1, Zenon
  <2>2. m = full + 1
    <3>1. ~(m <= full)
      BY <1>7, <1>12
    <3>2. m <= full + 1
      BY <1>5, Zenon
    <3> QED BY <3>1, <3>2
  <2>3. s = ChunkState("done", 0, Bytes(r.size))
    BY <1>7, <1>12, <2>2
  <2>4. s.body = Bytes(r.size)
    BY <2>3 DEF ChunkState
  <2> QED BY <2>1, <2>4
<1> QED BY <1>10, <1>11, <1>12

(* Whether all of r is there and within the limits. *)
MustAccept(r, n) ==
  /\ n = Len(Sent(r)) /\ r.head <= MaxHeaders /\ r.size <= MaxBody
  /\ r.framing \in {"length", "chunked", "close"}

(* What parse_response must say of the first n units of r. *)
ParsedWell(r, n, parsed) ==
  /\ parsed.error # "ok"
  /\ parsed.error = "" => IF r.framing = "close" THEN IsPrefix(parsed.body, Body(r))
                          ELSE parsed.body = Body(r)
  /\ MustAccept(r, n) => parsed.error = ""

(* A result that refuses. *)
LEMMA RefusedWell ==
  ASSUME NEW r, NEW n, ~ MustAccept(r, n),
         NEW e \in {"IncompleteHeaders", "TooLarge", "Malformed", "Unsupported", "TruncatedBody"},
         NEW p, p = Result(e, <<>>)
  PROVE  ParsedWell(r, n, p)
<1>1. p.error = e
  BY DEF Result
<1> QED BY <1>1 DEF ParsedWell

(* A result that accepts. *)
LEMMA AcceptedWell ==
  ASSUME NEW r, NEW n, NEW b, NEW p, p = Result("", b),
         IF r.framing = "close" THEN IsPrefix(b, Body(r)) ELSE b = Body(r)
  PROVE  ParsedWell(r, n, p)
<1>1. p.error = "" /\ p.body = b
  BY DEF Result
<1> HIDE DEF IsPrefix, Body
<1> QED BY <1>1 DEF ParsedWell

(* It says so, of every part of every response. *)
LEMMA ParseIsRight ==
  ASSUME NEW r \in Responses, NEW n \in Nat, n <= Len(Sent(r)),
         NEW raw, raw = SubSeq(Sent(r), 1, n)
  PROVE  ParsedWell(r, n, ParseResponse(r, raw))
<1> SUFFICES ASSUME NEW p, p = ParseResponse(r, raw),
                    NEW rest, rest = SubSeq(raw, r.head + 1, Len(raw))
             PROVE  ParsedWell(r, n, p)
  OBVIOUS
<1>1. r.head \in Nat /\ r.size \in Nat /\ MaxBody \in Nat /\ MaxHeaders \in Nat
  BY ResponseParts, HttpAssumption
<1>2. PICK f \in Seq(HttpUnits) : f = FlattenSeq(Pieces(r))
  BY SentUnits
<1>3. Len(f) \in Nat /\ Sent(r) \in Seq(HttpUnits)
      /\ Len(Sent(r)) = r.head + Len(f) + (IF r.framing = "chunked" THEN 1 ELSE 0)
  BY <1>2, SentUnits
<1>4. Len(raw) = n
  <2>1. 0 <= n /\ 0 \in Nat
    OBVIOUS
  <2>2. Len(SubSeq(Sent(r), 0 + 1, n)) = n - 0
    BY <1>3, <2>1, PartOf
  <2> QED BY <2>2
<1>5. Body(r) = Bytes(r.size)
  BY DEF Body, Bytes
<1>6. CASE n < r.head
  <2>1. p = Result("IncompleteHeaders", <<>>)
    BY <1>4, <1>6 DEF ParseResponse
  <2>2. n # Len(Sent(r))
    BY <1>1, <1>3, <1>6
  <2>3. ~ MustAccept(r, n)
    BY <2>2 DEF MustAccept
  <2> QED BY <2>1, <2>3, RefusedWell
<1>7. CASE ~(n < r.head) /\ r.head > MaxHeaders
  <2>1. p = Result("TooLarge", <<>>)
    BY <1>4, <1>7 DEF ParseResponse
  <2>2. ~(r.head <= MaxHeaders)
    BY <1>1, <1>7
  <2>3. ~ MustAccept(r, n)
    BY <2>2 DEF MustAccept
  <2> QED BY <2>1, <2>3, RefusedWell
<1>8. CASE ~(n < r.head) /\ ~(r.head > MaxHeaders)
  <2>0. r.head <= n
    BY <1>1, <1>8
  <2>1. CASE r.framing \in {"bad", "both", "conflict"}
    <3>1. p = Result("Malformed", <<>>)
      BY <1>4, <1>8, <2>1 DEF ParseResponse
    <3>2. ~ MustAccept(r, n)
      BY <2>1 DEF MustAccept
    <3> QED BY <3>1, <3>2, RefusedWell
  <2>2. CASE r.framing = "coded"
    <3>1. p = Result("Unsupported", <<>>)
      BY <1>4, <1>8, <2>2 DEF ParseResponse
    <3>2. ~ MustAccept(r, n)
      BY <2>2 DEF MustAccept
    <3> QED BY <3>1, <3>2, RefusedWell
  <2>3. CASE r.framing = "chunked"
    <3>1. p = DecodeChunked(rest)
      BY <1>4, <1>8, <2>3 DEF ParseResponse
    <3>2. /\ p.error \in {"", "TooLarge", "Malformed", "TruncatedBody"}
          /\ p.error = "" => p.body = Bytes(r.size)
          /\ n = Len(Sent(r)) /\ r.size <= MaxBody => p.error = ""
      <4> QED BY <2>0, <2>3, <3>1, DecodedWhole
    <3> QED BY <1>5, <2>3, <3>2 DEF ParsedWell, MustAccept
  <2>4. CASE r.framing \in {"length", "close"}
    <3>1. /\ rest \in Seq(HttpUnits) /\ Len(rest) = n - r.head /\ Begins(rest, f, Len(f))
      <4>1. RestIs(r, n, f, rest) /\ r.head <= n
        BY <1>2, <2>0 DEF RestIs
      <4>2. rest \in Seq(HttpUnits) /\ Len(rest) = n - r.head
        BY <4>1, RestUnits
      <4>3. Begins(rest, f, Len(f))
        BY <4>1, RestUnits
      <4> QED BY <4>2, <4>3
    <3>2. f = Bytes(r.size)
      BY <1>2, <2>4, PlainBody
    <3>3. Len(f) = r.size
      BY <1>1, <3>2, BytesFacts
    <3>4. Len(rest) \in Nat /\ Len(rest) <= r.size /\ (n = Len(Sent(r)) <=> Len(rest) = r.size)
      <4>1. r.framing # "chunked"
        BY <2>4
      <4>2. Len(Sent(r)) = r.head + r.size + 0
        BY <1>3, <3>3, <4>1
      <4>3. PICK k \in Int, h \in Nat, z \in Nat : k = Len(rest) /\ k = n - r.head /\ h = r.head /\ z = r.size
        BY <1>1, <3>1
      <4>4. h <= n /\ n <= h + z /\ k = n - h /\ (n = Len(Sent(r)) <=> n = h + z)
        <5>1. PICK l \in Nat : l = Len(Sent(r)) /\ n <= l
          BY <1>3
        <5>2. l = h + z + 0
          BY <4>2, <4>3, <5>1
        <5>3. l = h + z
          BY <5>2
        <5>4. h <= n /\ k = n - h
          BY <2>0, <4>3
        <5> QED BY <5>1, <5>3, <5>4
      <4>5. k \in Nat /\ k <= z /\ (n = h + z <=> k = z)
        BY <4>4
      <4> QED BY <4>3, <4>4, <4>5
    <3>5. \A i \in 1 .. Len(rest) : rest[i] = f[i]
      <4> SUFFICES ASSUME NEW i \in 1 .. Len(rest) PROVE rest[i] = f[i]
        OBVIOUS
      <4>1. i <= Len(f)
        <5>1. PICK k \in Nat, z \in Nat : k = Len(rest) /\ z = Len(f) /\ k <= z
          BY <1>1, <3>3, <3>4
        <5>2. i \in 1 .. k
          BY <5>1
        <5>3. i <= z
          BY <5>1, <5>2, Within
        <5> QED BY <5>1, <5>3
      <4> QED BY <3>1, <4>1 DEF Begins
    <3>6. CASE r.framing = "length" /\ r.size > MaxBody
      <4>1. p = Result("TooLarge", <<>>)
        BY <1>4, <1>8, <3>6 DEF ParseResponse
      <4>2. ~(r.size <= MaxBody)
        BY <1>1, <3>6
      <4>3. ~ MustAccept(r, n)
        BY <4>2 DEF MustAccept
      <4> QED BY <4>1, <4>3, RefusedWell
    <3>7. CASE r.framing = "length" /\ ~(r.size > MaxBody) /\ Len(rest) < r.size
      <4>1. p = Result("TruncatedBody", <<>>)
        BY <1>4, <1>8, <3>7 DEF ParseResponse
      <4>2. n # Len(Sent(r))
        BY <1>1, <3>4, <3>7
      <4>3. ~ MustAccept(r, n)
        BY <4>2 DEF MustAccept
      <4> QED BY <4>1, <4>3, RefusedWell
    <3>8. CASE r.framing = "length" /\ ~(r.size > MaxBody) /\ ~(Len(rest) < r.size)
      <4>1. p = Result("", SubSeq(rest, 1, r.size))
        BY <1>4, <1>8, <3>8 DEF ParseResponse
      <4>2. Len(rest) = r.size
        BY <1>1, <3>4, <3>8
      <4>3. rest = f /\ SubSeq(rest, 1, Len(rest)) = rest
        BY <3>1, <3>3, <3>5, <4>2, SameItems
      <4>4. SubSeq(rest, 1, r.size) = f
        BY <4>2, <4>3
      <4>5. p = Result("", Body(r))
        BY <1>5, <3>2, <4>1, <4>4
      <4> QED BY <3>8, <4>5, AcceptedWell
    <3>9. CASE r.framing = "close" /\ Len(rest) > MaxBody
      <4>1. p = Result("TooLarge", <<>>)
        BY <1>4, <1>8, <3>9 DEF ParseResponse
      <4>2. ~(r.size <= MaxBody)
        BY <1>1, <3>4, <3>9
      <4>3. ~ MustAccept(r, n)
        BY <4>2 DEF MustAccept
      <4> QED BY <4>1, <4>3, RefusedWell
    <3>10. CASE r.framing = "close" /\ ~(Len(rest) > MaxBody)
      <4>1. p = Result("", rest)
        BY <1>4, <1>8, <3>10 DEF ParseResponse
      <4>2. IsPrefix(rest, f)
        <5>1. Len(rest) <= Len(f)
          BY <3>3, <3>4
        <5> QED BY <3>1, <3>5, <5>1, PrefixItems
      <4>3. IsPrefix(rest, Body(r))
        BY <1>5, <3>2, <4>2
      <4> QED BY <3>10, <4>1, <4>3, AcceptedWell
    <3> QED BY <2>4, <3>6, <3>7, <3>8, <3>9, <3>10
  <2>5. r.framing \in Framings
    BY ResponseParts
  <2> QED BY <2>1, <2>2, <2>3, <2>4, <2>5 DEF Framings
<1> QED BY <1>6, <1>7, <1>8

-----------------------------------------------------------------------------
(* get. *)

(* Nothing is received at first. *)
LEMMA HttpFirst == HttpInit => HttpInv
<1> SUFFICES ASSUME HttpInit PROVE HttpInv
  OBVIOUS
<1>1. response \in Responses /\ received = 0 /\ status = "reading"
  BY DEF HttpInit
<1>2. Len(Sent(response)) \in Nat
  BY <1>1, SentUnits
<1>3. received \in 0 .. Len(Sent(response))
  BY <1>1, <1>2
<1>4. AcceptedIsWhole
  BY <1>1 DEF AcceptedIsWhole
<1> QED BY <1>1, <1>3, <1>4 DEF HttpInv

(* Every step keeps the invariant. *)
LEMMA HttpStep == HttpInv /\ [HttpNext]_httpVars => HttpInv'
<1> SUFFICES ASSUME HttpInv, [HttpNext]_httpVars PROVE HttpInv'
  OBVIOUS
<1>1. response \in Responses /\ received \in 0 .. Len(Sent(response)) /\ AcceptedIsWhole
  BY DEF HttpInv
<1>2. Len(Sent(response)) \in Nat
  BY <1>1, SentUnits
<1>3. CASE UNCHANGED httpVars
  BY <1>1, <1>3 DEF httpVars, HttpInv, AcceptedIsWhole
<1>4. ASSUME NEW n \in 1 .. MaxBody + MaxHeaders, Receive(n)
      PROVE  HttpInv'
  <2>1. response' = response /\ bodyRead' = bodyRead /\ received + n <= Len(Sent(response))
    BY <1>4 DEF Receive
  <2>2. n \in Nat /\ n > 0 /\ received \in Nat
    BY <1>1, <1>2, HttpAssumption
  <2>3. CASE status' = "TooLarge" /\ received' = received
    <3>1. received # Len(Sent(response))
      BY <1>2, <2>1, <2>2
    <3>2. AcceptedIsWhole'
      BY <2>1, <2>3, <3>1 DEF AcceptedIsWhole
    <3> QED BY <1>1, <2>1, <2>3, <3>2 DEF HttpInv
  <2>4. CASE status' = "reading" /\ received' = received + n
    <3>1. AcceptedIsWhole'
      BY <2>4 DEF AcceptedIsWhole
    <3>2. received' \in 0 .. Len(Sent(response))
      BY <1>2, <2>1, <2>2, <2>4
    <3> QED BY <1>1, <2>1, <3>1, <3>2 DEF HttpInv
  <2> QED BY <1>4, <2>3, <2>4 DEF Receive
<1>5. CASE EndOfStream
  <2>1. PICK p : p = ParseResponse(response, SubSeq(Sent(response), 1, received))
    OBVIOUS
  <2>2. /\ response' = response /\ received' = received /\ bodyRead' = p.body
        /\ status' = IF p.error # "" THEN p.error
                     ELSE IF response.code # 200 THEN "Status" ELSE "ok"
    BY <1>5, <2>1 DEF EndOfStream
  <2>3. received \in Nat /\ received <= Len(Sent(response))
    BY <1>1, <1>2
  <2>4. ParsedWell(response, received, p)
    BY <1>1, <2>1, <2>3, ParseIsRight
  <2>5. AcceptedIsWhole'
    BY <2>2, <2>4 DEF AcceptedIsWhole, ParsedWell, MustAccept
  <2> QED BY <1>1, <2>2, <2>5 DEF HttpInv
<1>6. CASE ReadFails
  <2>1. response' = response /\ received' = received /\ status' \in {"Timeout", "Io"}
    BY <1>6 DEF ReadFails
  <2>2. AcceptedIsWhole'
    BY <2>1 DEF AcceptedIsWhole
  <2> QED BY <1>1, <2>1, <2>2 DEF HttpInv
<1> QED BY <1>3, <1>4, <1>5, <1>6 DEF HttpNext

(* The invariant of one request: received never passes the end of the       *)
(* response, and AcceptedIsWhole.                                           *)
THEOREM HttpInvariant == HttpSpec => []HttpInv
BY HttpFirst, HttpStep, PTL DEF HttpSpec

(* get and parse_response accept a body only if it is the server's, whole,  *)
(* wherever the connection broke and however it was cut into chunks, and    *)
(* refuse no response that came whole and keeps within the limits           *)
(* (AcceptedIsWhole), for responses of every size.                          *)
THEOREM HttpAcceptsOnlyWholeBodies == HttpSpec => []AcceptedIsWhole
<1>1. HttpInv => AcceptedIsWhole
  BY DEF HttpInv
<1> QED BY <1>1, HttpInvariant, PTL

-----------------------------------------------------------------------------
(***************************************************************************)
(* WsClient: what next_event delivers is what the server's frames mean.    *)
(***************************************************************************)

(***************************************************************************)
(* The definitions of WsClient for a given sequence of frames.             *)
(***************************************************************************)

ByteNames == Nat \X Nat

PiecesIn(s, m) == [i \in 1 .. m |-> FrameBytes(s, i)]

(* The bytes of the first m frames, and where they end on the wire. *)
ReplyBytes == [k \in 1 .. Reply |-> <<0, k>>]
EndIn(s, m) == Reply + Len(FramesBytes(s, m))

-----------------------------------------------------------------------------
(* Joining. *)

(* One more piece. *)
LEMMA FlattenAppend ==
  ASSUME NEW U, NEW s \in Seq(Seq(U)), NEW b \in Seq(U)
  PROVE  FlattenSeq(s) \in Seq(U) /\ FlattenSeq(Append(s, b)) = FlattenSeq(s) \o b
<1> DEFINE t == Append(s, b)
           m == Len(s)
<1>1. t \in Seq(Seq(U)) /\ Len(t) = m + 1 /\ m \in Nat /\ t[m + 1] = b
  OBVIOUS
<1>2. \A i \in 1 .. m : t[i] = s[i]
  OBVIOUS
<1>3. PICK g \in [0 .. m -> Seq(U)] : Joins(g, s) /\ FlattenSeq(s) = g[m]
  BY FlattenJoins
<1>4. PICK h \in [0 .. m + 1 -> Seq(U)] : Joins(h, t) /\ FlattenSeq(t) = h[m + 1]
  <2>1. PICK h \in [0 .. Len(t) -> Seq(U)] : Joins(h, t) /\ FlattenSeq(t) = h[Len(t)]
    <3> HIDE DEF t
    <3> QED BY <1>1, FlattenJoins
  <2> HIDE DEF t
  <2> QED BY <1>1, <2>1
<1> HIDE DEF t
<1> DEFINE E == {i \in Nat : i <= m => h[i] = g[i]}
<1>5. 0 \in E
  BY <1>3, <1>4 DEF Joins
<1>6. ASSUME NEW i \in Nat, i \in E PROVE i + 1 \in E
  <2> SUFFICES ASSUME i + 1 <= m PROVE h[i + 1] = g[i + 1]
    OBVIOUS
  <2>1. i + 1 \in 1 .. m /\ i + 1 \in 1 .. Len(t) /\ (i + 1) - 1 = i /\ i <= m
    BY <1>1
  <2>2. h[i + 1] = h[i] \o t[i + 1]
    BY <1>4, <2>1 DEF Joins
  <2>3. g[i + 1] = g[i] \o s[i + 1]
    BY <1>3, <2>1 DEF Joins
  <2>4. h[i] = g[i]
    BY <1>6, <2>1
  <2> QED BY <1>2, <2>1, <2>2, <2>3, <2>4
<1>7. \A i \in Nat : i \in E
  <2> HIDE DEF E
  <2> QED BY <1>5, <1>6, SetInduction
<1>8. h[m] = g[m]
  <2>1. m \in E
    BY <1>1, <1>7
  <2>2. m <= m
    BY <1>1
  <2> QED BY <2>1, <2>2
<1>9. m + 1 \in 1 .. Len(t) /\ (m + 1) - 1 = m /\ m \in 0 .. m
  BY <1>1
<1>10. h[m + 1] = h[m] \o t[m + 1]
  BY <1>4, <1>9 DEF Joins
<1>11. g[m] \in Seq(U)
  BY <1>9
<1> QED BY <1>1, <1>3, <1>4, <1>8, <1>10, <1>11 DEF t

(* Nothing to join. *)
LEMMA FlattenEmpty == FlattenSeq(<<>>) = <<>>
BY DEF FlattenSeq

-----------------------------------------------------------------------------
(* Frames. *)

(* The parts of a frame, and the lengths of its header and of the whole. *)
LEMMA FrameFacts ==
  ASSUME NEW f \in Frames
  PROVE  /\ f.op \in {"text", "binary", "continuation", "close", "ping", "pong"}
         /\ f.fin \in BOOLEAN /\ f.len \in Nat /\ f.flaw \in {"none", "bits", "length"}
         /\ HeaderLen(f) \in Nat /\ HeaderLen(f) >= 2
         /\ FrameLen(f) \in Nat /\ FrameLen(f) = HeaderLen(f) + f.len /\ FrameLen(f) >= 2
<1>1. f \in [op : {"text", "binary", "continuation", "close", "ping", "pong"},
             fin : BOOLEAN, len : Nat, flaw : {"none", "bits", "length"}]
  BY ConfigAssumption
<1>2. /\ f.op \in {"text", "binary", "continuation", "close", "ping", "pong"}
      /\ f.fin \in BOOLEAN /\ f.len \in Nat /\ f.flaw \in {"none", "bits", "length"}
  BY <1>1
<1>3. HeaderLen(f) \in Nat /\ HeaderLen(f) >= 2
  BY DEF HeaderLen, MaxServerHeader
<1> QED BY <1>2, <1>3 DEF FrameLen

(* The bytes of a frame. *)
LEMMA FrameBytesFacts ==
  ASSUME NEW s \in Seq(Frames), NEW i \in 1 .. Len(s)
  PROVE  FrameBytes(s, i) \in Seq(ByteNames) /\ Len(FrameBytes(s, i)) = FrameLen(s[i])
<1>1. s[i] \in Frames /\ i \in Nat
  OBVIOUS
<1>2. FrameLen(s[i]) \in Nat
  BY <1>1, FrameFacts
<1>3. \A k \in Nat : <<i, k>> \in ByteNames
  BY <1>1 DEF ByteNames
<1> HIDE DEF ByteNames
<1> QED BY <1>2, <1>3 DEF FrameBytes

(* The bytes of one frame more. *)
LEMMA JoinedStep ==
  ASSUME NEW s \in Seq(Frames), NEW m \in Nat, m + 1 <= Len(s)
  PROVE  /\ FramesBytes(s, m) \in Seq(ByteNames)
         /\ FramesBytes(s, m + 1) = FramesBytes(s, m) \o FrameBytes(s, m + 1)
<1> HIDE DEF ByteNames
<1>1. \A i \in 1 .. m + 1 : FrameBytes(s, i) \in Seq(ByteNames)
  BY FrameBytesFacts
<1>2. PiecesIn(s, m) \in Seq(Seq(ByteNames)) /\ Len(PiecesIn(s, m)) = m
  BY <1>1 DEF PiecesIn
<1>3. m + 1 \in 1 .. m + 1
  OBVIOUS
<1>4. FrameBytes(s, m + 1) \in Seq(ByteNames)
  BY <1>1, <1>3
<1>5. Append(PiecesIn(s, m), FrameBytes(s, m + 1)) = PiecesIn(s, m + 1)
  <2> DEFINE a == PiecesIn(s, m)  b == PiecesIn(s, m + 1)  v == FrameBytes(s, m + 1)
  <2>1. b \in Seq(Seq(ByteNames)) /\ Len(b) = m + 1
    BY <1>1 DEF PiecesIn
  <2>2. \A i \in 1 .. m + 1 : b[i] = FrameBytes(s, i)
    BY DEF PiecesIn
  <2>3. \A i \in 1 .. m : a[i] = FrameBytes(s, i)
    BY DEF PiecesIn
  <2> HIDE DEF a, b, v
  <2>4. Append(a, v) \in Seq(Seq(ByteNames)) /\ Len(Append(a, v)) = m + 1
    BY <1>2, <1>4 DEF a, v
  <2>5. \A i \in 1 .. m + 1 : Append(a, v)[i] = IF i <= m THEN a[i] ELSE v
    BY <1>2, <1>4 DEF a, v
  <2>6. \A i \in 1 .. m + 1 : Append(a, v)[i] = b[i]
    <3> SUFFICES ASSUME NEW i \in 1 .. m + 1 PROVE Append(a, v)[i] = b[i]
      OBVIOUS
    <3>1. CASE i <= m
      <4>1. i \in 1 .. m
        BY <3>1
      <4> QED BY <2>2, <2>3, <2>5, <3>1, <4>1
    <3>2. CASE ~(i <= m)
      <4>1. i = m + 1
        BY <3>2
      <4> QED BY <2>2, <2>5, <3>2, <4>1 DEF v
    <3> QED BY <3>1, <3>2
  <2>7. Append(a, v) = b
    BY <2>1, <2>4, <2>6, SameItems
  <2> QED BY <2>7 DEF a, b, v
<1> QED BY <1>2, <1>4, <1>5, FlattenAppend DEF FramesBytes, PiecesIn

(* No frames, no bytes. *)
LEMMA JoinedNone == ASSUME NEW s PROVE FramesBytes(s, 0) = <<>>
<1>1. PiecesIn(s, 0) = <<>>
  BY DEF PiecesIn
<1> QED BY <1>1, FlattenEmpty DEF FramesBytes, PiecesIn

(* Where the frames lie. *)
LEMMA JoinedFacts ==
  ASSUME NEW s \in Seq(Frames), NEW m \in Nat, m <= Len(s)
  PROVE  /\ FramesBytes(s, m) \in Seq(ByteNames)
         /\ AtFront(FramesBytes(s, m), FramesBytes(s, Len(s)))
<1> DEFINE E == {d \in Nat : m + d <= Len(s) =>
                   FramesBytes(s, m + d) \in Seq(ByteNames) /\ AtFront(FramesBytes(s, m), FramesBytes(s, m + d))}
           Z == {k \in Nat : k <= Len(s) => FramesBytes(s, k) \in Seq(ByteNames)}
<1> HIDE DEF ByteNames
<1>1. 0 \in Z
  <2>1. <<>> \in Seq(ByteNames)
    OBVIOUS
  <2>2. FramesBytes(s, 0) = <<>>
    BY JoinedNone
  <2> QED BY <2>1, <2>2
<1>2. ASSUME NEW k \in Nat, k \in Z PROVE k + 1 \in Z
  <2> SUFFICES ASSUME k + 1 <= Len(s) PROVE FramesBytes(s, k + 1) \in Seq(ByteNames)
    OBVIOUS
  <2>1. /\ FramesBytes(s, k) \in Seq(ByteNames)
        /\ FramesBytes(s, k + 1) = FramesBytes(s, k) \o FrameBytes(s, k + 1)
    BY JoinedStep
  <2>2. FrameBytes(s, k + 1) \in Seq(ByteNames)
    BY FrameBytesFacts
  <2> QED BY <2>1, <2>2, JoinTwo
<1>3. \A k \in Nat : k \in Z
  <2> HIDE DEF Z
  <2> QED BY <1>1, <1>2, SetInduction
<1>4. \A k \in 0 .. Len(s) : FramesBytes(s, k) \in Seq(ByteNames)
  BY <1>3
<1>5. 0 \in E
  <2>1. m + 0 = m /\ m \in 0 .. Len(s)
    OBVIOUS
  <2>2. AtFront(FramesBytes(s, m), FramesBytes(s, m))
    BY <1>4, <2>1 DEF AtFront
  <2> QED BY <1>4, <2>1, <2>2
<1>6. ASSUME NEW d \in Nat, d \in E PROVE d + 1 \in E
  <2> SUFFICES ASSUME m + (d + 1) <= Len(s)
               PROVE  FramesBytes(s, m + (d + 1)) \in Seq(ByteNames) /\ AtFront(FramesBytes(s, m), FramesBytes(s, m + (d + 1)))
    OBVIOUS
  <2>1. /\ m + (d + 1) \in 0 .. Len(s) /\ m + d <= Len(s) /\ m + d \in Nat /\ (m + d) + 1 <= Len(s)
        /\ (m + d) + 1 = m + (d + 1) /\ m \in 0 .. Len(s) /\ m + d \in 0 .. Len(s)
        /\ (m + d) + 1 \in 1 .. Len(s)
    OBVIOUS
  <2>2. PICK a \in Seq(ByteNames), x \in Seq(ByteNames), y \in Seq(ByteNames) :
          a = FramesBytes(s, m) /\ x = FramesBytes(s, m + d) /\ y = FrameBytes(s, (m + d) + 1)
    BY <1>4, <2>1, FrameBytesFacts
  <2>3. FramesBytes(s, m + (d + 1)) = x \o y
    BY <2>1, <2>2, JoinedStep
  <2>4. AtFront(a, x)
    BY <1>6, <2>1, <2>2
  <2>5. Len(x \o y) = Len(x) + Len(y) /\ x \o y \in Seq(ByteNames)
    BY JoinTwo
  <2>6. \A i \in 1 .. Len(x) : (x \o y)[i] = x[i]
    OBVIOUS
  <2>7. AtFront(a, x \o y)
    <3>1. Len(a) <= Len(x) /\ \A i \in 1 .. Len(a) : x[i] = a[i]
      BY <2>4 DEF AtFront
    <3>2. Len(a) <= Len(x \o y)
      BY <2>5, <3>1
    <3>3. \A i \in 1 .. Len(a) : i \in 1 .. Len(x)
      BY <3>1
    <3>4. \A i \in 1 .. Len(a) : (x \o y)[i] = a[i]
      BY <2>6, <3>1, <3>3
    <3> QED BY <3>2, <3>4 DEF AtFront
  <2> QED BY <2>2, <2>3, <2>5, <2>7
<1>7. \A d \in Nat : d \in E
  <2> HIDE DEF E
  <2> QED BY <1>5, <1>6, SetInduction
<1>8. Len(s) - m \in Nat /\ m + (Len(s) - m) = Len(s) /\ m \in 0 .. Len(s)
  OBVIOUS
<1>9. AtFront(FramesBytes(s, m), FramesBytes(s, Len(s)))
  <2>1. Len(s) - m \in E
    BY <1>7, <1>8
  <2>2. Len(s) <= Len(s)
    OBVIOUS
  <2> QED BY <1>8, <2>1, <2>2
<1> QED BY <1>4, <1>8, <1>9

(* The wire: the reply, then frame by frame. *)
LEMMA WireFacts ==
  ASSUME NEW s \in Seq(Frames)
  PROVE  /\ WireOf(s) \in Seq(ByteNames) /\ Len(WireOf(s)) = EndIn(s, Len(s))
         /\ EndIn(s, 0) = Reply
         /\ \A m \in 0 .. Len(s) : EndIn(s, m) \in Nat /\ EndIn(s, m) <= Len(WireOf(s))
         /\ \A m \in 1 .. Len(s) : EndIn(s, m) = EndIn(s, m - 1) + FrameLen(s[m])
<1> HIDE DEF ByteNames
<1>1. Reply \in Nat
  BY ConfigAssumption
<1>2. ReplyBytes \in Seq(ByteNames) /\ Len(ReplyBytes) = Reply
  <2>1. \A k \in Nat : <<0, k>> \in ByteNames
    BY DEF ByteNames
  <2> QED BY <1>1, <2>1 DEF ReplyBytes
<1>3. PICK x \in Seq(ByteNames), y \in Seq(ByteNames) : x = ReplyBytes /\ y = FramesBytes(s, Len(s))
  <2>1. Len(s) \in Nat /\ Len(s) <= Len(s)
    OBVIOUS
  <2> QED BY <1>2, <2>1, JoinedFacts
<1>4. x \o y \in Seq(ByteNames) /\ Len(x \o y) = Len(x) + Len(y)
  BY JoinTwo
<1>5. WireOf(s) \in Seq(ByteNames) /\ Len(WireOf(s)) = EndIn(s, Len(s))
  BY <1>2, <1>3, <1>4 DEF WireOf, EndIn, ReplyBytes
<1>6. EndIn(s, 0) = Reply
  <2>1. Len(FramesBytes(s, 0)) = 0
    BY JoinedNone
  <2> QED BY <1>1, <2>1 DEF EndIn
<1>7. ASSUME NEW m \in 0 .. Len(s)
      PROVE  EndIn(s, m) \in Nat /\ EndIn(s, m) <= Len(WireOf(s))
  <2>1. m \in Nat /\ m <= Len(s)
    OBVIOUS
  <2>2. PICK z \in Seq(ByteNames) : z = FramesBytes(s, m) /\ AtFront(z, y)
    BY <1>3, <2>1, JoinedFacts
  <2>3. Len(z) <= Len(y)
    BY <2>2 DEF AtFront
  <2>4. EndIn(s, m) = Reply + Len(z) /\ Len(WireOf(s)) = Reply + Len(y)
    BY <1>2, <1>3, <1>4, <2>2 DEF EndIn, WireOf, ReplyBytes
  <2> QED BY <1>1, <2>3, <2>4
<1>8. ASSUME NEW m \in 1 .. Len(s)
      PROVE  EndIn(s, m) = EndIn(s, m - 1) + FrameLen(s[m])
  <2>1. m - 1 \in Nat /\ (m - 1) + 1 <= Len(s) /\ (m - 1) + 1 = m
    OBVIOUS
  <2>2. FramesBytes(s, m - 1) \in Seq(ByteNames) /\ FramesBytes(s, m) = FramesBytes(s, m - 1) \o FrameBytes(s, m)
    BY <2>1, JoinedStep
  <2>3. PICK a \in Seq(ByteNames), b \in Seq(ByteNames) :
          a = FramesBytes(s, m - 1) /\ b = FrameBytes(s, m) /\ Len(b) = FrameLen(s[m])
    BY <2>2, FrameBytesFacts
  <2>4. Len(a \o b) = Len(a) + Len(b) /\ Len(a) \in Nat /\ Len(b) \in Nat
    BY JoinTwo
  <2>5. EndIn(s, m) = Reply + Len(a \o b) /\ EndIn(s, m - 1) = Reply + Len(a)
    BY <2>2, <2>3 DEF EndIn
  <2> QED BY <1>1, <2>3, <2>4, <2>5
<1> QED BY <1>5, <1>6, <1>7, <1>8

(* Byte k of frame m. *)
LEMMA WireByte ==
  ASSUME NEW s \in Seq(Frames), NEW m \in 1 .. Len(s), NEW k \in 1 .. FrameLen(s[m])
  PROVE  WireOf(s)[EndIn(s, m - 1) + k] = <<m, k>>
<1> HIDE DEF ByteNames
<1>1. Reply \in Nat /\ m \in Nat /\ m <= Len(s) /\ s[m] \in Frames
  BY ConfigAssumption
<1>2. m - 1 \in Nat /\ (m - 1) + 1 <= Len(s) /\ (m - 1) + 1 = m
  OBVIOUS
<1>3. PICK a \in Seq(ByteNames), b \in Seq(ByteNames) :
        a = FramesBytes(s, m - 1) /\ b = FrameBytes(s, m) /\ Len(b) = FrameLen(s[m])
  BY <1>2, JoinedStep, FrameBytesFacts
<1>4. FramesBytes(s, m) = a \o b
  BY <1>2, <1>3, JoinedStep
<1>5. PICK x \in Seq(ByteNames), y \in Seq(ByteNames) : x = ReplyBytes /\ y = FramesBytes(s, Len(s)) /\ Len(x) = Reply
  <2>1. Len(s) \in Nat /\ Len(s) <= Len(s)
    OBVIOUS
  <2>2. ReplyBytes \in Seq(ByteNames) /\ Len(ReplyBytes) = Reply
    <3>1. \A j \in Nat : <<0, j>> \in ByteNames
      BY DEF ByteNames
    <3> QED BY <1>1, <3>1 DEF ReplyBytes
  <2> QED BY <2>1, <2>2, JoinedFacts
<1>6. AtFront(a \o b, y)
  BY <1>1, <1>4, <1>5, JoinedFacts
<1>7. Len(a \o b) = Len(a) + Len(b) /\ Len(a) \in Nat /\ Len(b) \in Nat /\ Len(y) \in Nat
  BY JoinTwo
<1>8. k \in 1 .. Len(b) /\ k \in Nat
  BY <1>1, <1>3, FrameFacts
<1>9. Len(a) + k \in 1 .. Len(a \o b) /\ Len(a) + k \in 1 .. Len(y)
  BY <1>6, <1>7, <1>8 DEF AtFront
<1>10. (a \o b)[Len(a) + k] = b[k]
  BY <1>7, <1>8, JoinTwoItems
<1>11. y[Len(a) + k] = b[k]
  BY <1>6, <1>9, <1>10 DEF AtFront
<1>12. (x \o y)[Len(x) + (Len(a) + k)] = y[Len(a) + k]
  <2>1. PICK j \in 1 .. Len(y) : j = Len(a) + k
    BY <1>9
  <2>2. (x \o y)[Len(x) + j] = y[j]
    BY JoinTwoItems
  <2> QED BY <2>1, <2>2
<1>13. b[k] = <<m, k>>
  BY <1>3 DEF FrameBytes
<1>14. EndIn(s, m - 1) + k = Len(x) + (Len(a) + k)
  BY <1>1, <1>3, <1>5, <1>7, <1>8 DEF EndIn
<1> QED BY <1>5, <1>11, <1>12, <1>13, <1>14 DEF WireOf, ReplyBytes

(* What the server sends later comes later. *)
LEMMA WireGrows ==
  ASSUME NEW s \in Seq(Frames), NEW f \in Frames, NEW t, t = Append(s, f)
  PROVE  /\ t \in Seq(Frames) /\ Len(t) = Len(s) + 1
         /\ \A i \in 1 .. Len(s) : t[i] = s[i]
         /\ \A m \in 0 .. Len(s) : EndIn(t, m) = EndIn(s, m)
         /\ AtFront(WireOf(s), WireOf(t))
<1> HIDE DEF ByteNames
<1>1. t \in Seq(Frames) /\ Len(t) = Len(s) + 1 /\ Len(s) \in Nat
  OBVIOUS
<1>2. \A i \in 1 .. Len(s) : t[i] = s[i]
  OBVIOUS
<1>3. ASSUME NEW m \in 0 .. Len(s) PROVE FramesBytes(t, m) = FramesBytes(s, m)
  <2>1. \A i \in 1 .. m : FrameBytes(t, i) = FrameBytes(s, i)
    BY <1>2 DEF FrameBytes
  <2>2. PiecesIn(t, m) = PiecesIn(s, m)
    BY <2>1 DEF PiecesIn
  <2> QED BY <2>2 DEF FramesBytes, PiecesIn
<1>4. Len(s) \in Nat /\ Len(s) <= Len(t) /\ Len(s) \in 0 .. Len(s)
  BY <1>1
<1>5. PICK x \in Seq(ByteNames), y \in Seq(ByteNames), z \in Seq(ByteNames) :
        x = ReplyBytes /\ y = FramesBytes(s, Len(s)) /\ z = FramesBytes(t, Len(t)) /\ AtFront(y, z)
  <2>1. FramesBytes(t, Len(s)) = FramesBytes(s, Len(s))
    BY <1>3, <1>4
  <2>2. FramesBytes(t, Len(s)) \in Seq(ByteNames) /\ AtFront(FramesBytes(t, Len(s)), FramesBytes(t, Len(t)))
    BY <1>1, <1>4, JoinedFacts
  <2>3. FramesBytes(t, Len(t)) \in Seq(ByteNames)
    <3>1. Len(t) \in Nat /\ Len(t) <= Len(t)
      BY <1>1
    <3> QED BY <1>1, <3>1, JoinedFacts
  <2>4. ReplyBytes \in Seq(ByteNames)
    <3>1. \A j \in Nat : <<0, j>> \in ByteNames
      BY DEF ByteNames
    <3>2. Reply \in Nat
      BY ConfigAssumption
    <3> QED BY <3>1, <3>2 DEF ReplyBytes
  <2> QED BY <2>1, <2>2, <2>3, <2>4
<1>6. AtFront(x \o y, x \o z)
  <2>1. Len(x \o y) = Len(x) + Len(y) /\ Len(x \o z) = Len(x) + Len(z)
        /\ Len(x) \in Nat /\ Len(y) \in Nat /\ Len(z) \in Nat
    BY JoinTwo
  <2>2. Len(y) <= Len(z) /\ \A i \in 1 .. Len(y) : z[i] = y[i]
    BY <1>5 DEF AtFront
  <2>3. Len(x \o y) <= Len(x \o z)
    BY <2>1, <2>2
  <2>4. ASSUME NEW i \in 1 .. Len(x \o y) PROVE (x \o z)[i] = (x \o y)[i]
    <3>1. CASE i <= Len(x)
      <4>1. i \in 1 .. Len(x)
        BY <2>1, <3>1
      <4> QED BY <2>1, <4>1, JoinTwoItems
    <3>2. CASE ~(i <= Len(x))
      <4>1. PICK j \in 1 .. Len(y) : i = Len(x) + j
        <5>1. i - Len(x) \in 1 .. Len(y) /\ i = Len(x) + (i - Len(x))
          BY <2>1, <3>2
        <5> QED BY <5>1
      <4>2. j \in 1 .. Len(z)
        BY <2>1, <2>2
      <4>3. (x \o y)[Len(x) + j] = y[j]
        BY <2>1, JoinTwoItems
      <4>4. (x \o z)[Len(x) + j] = z[j]
        BY <2>1, <4>2, JoinTwoItems
      <4> QED BY <2>2, <4>1, <4>3, <4>4
    <3> QED BY <3>1, <3>2
  <2> QED BY <2>3, <2>4 DEF AtFront
<1> QED BY <1>1, <1>2, <1>3, <1>5, <1>6 DEF EndIn, WireOf, ReplyBytes

-----------------------------------------------------------------------------
(* Listed. *)

(* What is listed is an item. *)
Listable(U, n, which, item) == \A i \in 1 .. n : i \in which => item[i] \in U

(* h is the list as it grows. *)
Lists(h, n, which, item) ==
  /\ h[0] = <<>>
  /\ \A i \in 1 .. n : h[i] = IF i \in which THEN Append(h[i - 1], item[i]) ELSE h[i - 1]

Listing(U, n, which, item) ==
  \E h \in [0 .. n -> Seq(U)] : Lists(h, n, which, item) /\ Listed(n, which, item) = h[n]

(* What Listed computes. *)
LEMMA ListedRuns ==
  ASSUME NEW U, NEW n \in Nat, NEW which, NEW item, Listable(U, n, which, item)
  PROVE  Listing(U, n, which, item)
<1> DEFINE P(f) == f = [i \in 0 .. n |-> IF i = 0 THEN <<>>
                                        ELSE IF i \in which THEN Append(f[i - 1], item[i]) ELSE f[i - 1]]
           list == CHOOSE f : P(f)
           G == [i \in 1 .. n |-> [x \in Seq(U) |-> IF i \in which THEN Append(x, item[i]) ELSE x]]
<1>1. G \in [1 .. n -> [Seq(U) -> Seq(U)]] /\ <<>> \in Seq(U)
  <2>1. ASSUME NEW i \in 1 .. n, NEW x \in Seq(U)
        PROVE  (IF i \in which THEN Append(x, item[i]) ELSE x) \in Seq(U)
    <3>1. CASE i \in which
      <4>1. item[i] \in U
        BY <3>1 DEF Listable
      <4> QED BY <3>1, <4>1
    <3> QED BY <3>1
  <2> QED BY <2>1
<1>2. PICK h \in [0 .. n -> Seq(U)] : IteratesTo(h, <<>>, n, G)
  <2> HIDE DEF G
  <2> QED BY <1>1, RecursionUpTo
<1>3. ASSUME NEW i \in 1 .. n
      PROVE  h[i] = IF i \in which THEN Append(h[i - 1], item[i]) ELSE h[i - 1]
  <2>1. i - 1 \in 0 .. n
    OBVIOUS
  <2>2. h[i - 1] \in Seq(U)
    BY <2>1
  <2>3. h[i] = G[i][h[i - 1]]
    BY <1>2 DEF IteratesTo
  <2> QED BY <2>2, <2>3
<1>4. h[0] = <<>>
  BY <1>2 DEF IteratesTo
<1>5. P(h)
  <2>1. ASSUME NEW i \in 0 .. n
        PROVE  h[i] = IF i = 0 THEN <<>>
                      ELSE IF i \in which THEN Append(h[i - 1], item[i]) ELSE h[i - 1]
    <3>1. CASE i = 0
      BY <1>4, <3>1
    <3>2. CASE i # 0
      <4>1. i \in 1 .. n
        BY <3>2
      <4> QED BY <1>3, <3>2, <4>1
    <3> QED BY <3>1, <3>2
  <2> QED BY <2>1
<1>6. P(list)
  <2> HIDE DEF P
  <2> QED BY <1>5
<1>7. Listed(n, which, item) = list[n]
  BY DEF Listed
<1>8. \A i \in 0 .. n : list[i] = IF i = 0 THEN <<>>
                        ELSE IF i \in which THEN Append(list[i - 1], item[i]) ELSE list[i - 1]
  <2> HIDE DEF list
  <2> QED BY <1>6
<1> HIDE DEF list, P, G
<1> DEFINE E == {i \in Nat : i <= n => list[i] = h[i]}
<1>9. 0 \in E
  BY <1>4, <1>8
<1>10. ASSUME NEW i \in Nat, i \in E PROVE i + 1 \in E
  <2> SUFFICES ASSUME i + 1 <= n PROVE list[i + 1] = h[i + 1]
    OBVIOUS
  <2>1. i + 1 \in 1 .. n /\ i + 1 \in 0 .. n /\ (i + 1) - 1 = i /\ i + 1 # 0
    OBVIOUS
  <2>2. list[i] = h[i]
    BY <1>10
  <2> QED BY <1>3, <1>8, <2>1, <2>2
<1>11. \A i \in Nat : i \in E
  <2> HIDE DEF E
  <2> QED BY <1>9, <1>10, SetInduction
<1>12. list[n] = h[n]
  BY <1>11
<1>13. Lists(h, n, which, item)
  BY <1>3, <1>4 DEF Lists
<1> QED BY <1>7, <1>12, <1>13 DEF Listing

(* The same items are listed alike. *)
LEMMA ListedSame ==
  ASSUME NEW U, NEW n \in Nat, NEW which, NEW item, Listable(U, n, which, item),
         NEW other, NEW thing,
         \A i \in 1 .. n : (i \in other <=> i \in which) /\ (i \in which => thing[i] = item[i])
  PROVE  Listed(n, other, thing) = Listed(n, which, item)
<1>1. Listable(U, n, other, thing)
  BY DEF Listable
<1>2. PICK h \in [0 .. n -> Seq(U)] : Lists(h, n, which, item) /\ Listed(n, which, item) = h[n]
  <2>1. Listing(U, n, which, item)
    BY ListedRuns
  <2> QED BY <2>1 DEF Listing
<1>3. PICK g \in [0 .. n -> Seq(U)] : Lists(g, n, other, thing) /\ Listed(n, other, thing) = g[n]
  <2>1. Listing(U, n, other, thing)
    BY <1>1, ListedRuns
  <2> QED BY <2>1 DEF Listing
<1> DEFINE E == {i \in Nat : i <= n => g[i] = h[i]}
<1>4. 0 \in E
  BY <1>2, <1>3 DEF Lists
<1>5. ASSUME NEW i \in Nat, i \in E PROVE i + 1 \in E
  <2> SUFFICES ASSUME i + 1 <= n PROVE g[i + 1] = h[i + 1]
    OBVIOUS
  <2>1. i + 1 \in 1 .. n /\ (i + 1) - 1 = i
    OBVIOUS
  <2>2. g[i] = h[i]
    BY <1>5
  <2>3. (i + 1 \in other <=> i + 1 \in which) /\ (i + 1 \in which => thing[i + 1] = item[i + 1])
    BY <2>1
  <2>4. h[i + 1] = IF i + 1 \in which THEN Append(h[i], item[i + 1]) ELSE h[i]
    BY <1>2, <2>1 DEF Lists
  <2>5. g[i + 1] = IF i + 1 \in other THEN Append(g[i], thing[i + 1]) ELSE g[i]
    BY <1>3, <2>1 DEF Lists
  <2> QED BY <2>2, <2>3, <2>4, <2>5
<1>6. \A i \in Nat : i \in E
  <2> HIDE DEF E
  <2> QED BY <1>4, <1>5, SetInduction
<1>7. g[n] = h[n]
  BY <1>6
<1> QED BY <1>2, <1>3, <1>7

OneMore(n, which, item) ==
  Listed(n + 1, which, item) =
    IF n + 1 \in which THEN Append(Listed(n, which, item), item[n + 1]) ELSE Listed(n, which, item)

(* One more. *)
LEMMA ListedStep ==
  ASSUME NEW U, NEW n \in Nat, NEW which, NEW item, Listable(U, n + 1, which, item)
  PROVE  /\ Listed(n, which, item) \in Seq(U)
         /\ OneMore(n, which, item)
<1>1. Listable(U, n, which, item) /\ n + 1 \in Nat
  BY DEF Listable
<1>2. PICK h \in [0 .. n -> Seq(U)] : Lists(h, n, which, item) /\ Listed(n, which, item) = h[n]
  <2>1. Listing(U, n, which, item)
    BY <1>1, ListedRuns
  <2> QED BY <2>1 DEF Listing
<1>3. PICK g \in [0 .. n + 1 -> Seq(U)] : Lists(g, n + 1, which, item) /\ Listed(n + 1, which, item) = g[n + 1]
  <2>1. Listing(U, n + 1, which, item)
    BY <1>1, ListedRuns
  <2> QED BY <2>1 DEF Listing
<1> DEFINE E == {i \in Nat : i <= n => g[i] = h[i]}
<1>4. 0 \in E
  BY <1>2, <1>3 DEF Lists
<1>5. ASSUME NEW i \in Nat, i \in E PROVE i + 1 \in E
  <2> SUFFICES ASSUME i + 1 <= n PROVE g[i + 1] = h[i + 1]
    OBVIOUS
  <2>1. i + 1 \in 1 .. n /\ i + 1 \in 1 .. n + 1 /\ (i + 1) - 1 = i
    OBVIOUS
  <2>2. g[i] = h[i]
    BY <1>5
  <2>4. h[i + 1] = IF i + 1 \in which THEN Append(h[i], item[i + 1]) ELSE h[i]
    BY <1>2, <2>1 DEF Lists
  <2>5. g[i + 1] = IF i + 1 \in which THEN Append(g[i], item[i + 1]) ELSE g[i]
    BY <1>3, <2>1 DEF Lists
  <2> QED BY <2>2, <2>4, <2>5
<1>6. \A i \in Nat : i \in E
  <2> HIDE DEF E
  <2> QED BY <1>4, <1>5, SetInduction
<1>7. g[n] = h[n]
  BY <1>6
<1>8. n + 1 \in 1 .. n + 1 /\ (n + 1) - 1 = n /\ n \in 0 .. n
  OBVIOUS
<1>9. g[n + 1] = IF n + 1 \in which THEN Append(g[n], item[n + 1]) ELSE g[n]
  BY <1>3, <1>8 DEF Lists
<1>10. h[n] \in Seq(U)
  BY <1>8
<1> QED BY <1>2, <1>3, <1>7, <1>9, <1>10 DEF OneMore

(* Nothing to list. *)
LEMMA ListedNone == ASSUME NEW which, NEW item PROVE Listed(0, which, item) = <<>>
<1>1. Listable({}, 0, which, item) /\ 0 \in Nat
  BY DEF Listable
<1>2. PICK h \in [0 .. 0 -> Seq({})] : Lists(h, 0, which, item) /\ Listed(0, which, item) = h[0]
  <2>1. Listing({}, 0, which, item)
    BY <1>1, ListedRuns
  <2> QED BY <2>1 DEF Listing
<1> QED BY <1>2 DEF Lists

(* A longer list begins with a shorter one, and is the same if nothing is added. *)
LEMMA ListedGrows ==
  ASSUME NEW U, NEW m \in Nat, NEW n \in Nat, m <= n, NEW which, NEW item,
         Listable(U, n, which, item)
  PROVE  /\ Listed(m, which, item) \in Seq(U) /\ Listed(n, which, item) \in Seq(U)
         /\ IsPrefix(Listed(m, which, item), Listed(n, which, item))
         /\ (\A i \in m + 1 .. n : i \notin which) => Listed(n, which, item) = Listed(m, which, item)
<1> DEFINE L(k) == Listed(k, which, item)
           E == {d \in Nat : m + d <= n =>
                   /\ L(m + d) \in Seq(U) /\ AtFront(L(m), L(m + d))
                   /\ (\A i \in m + 1 .. n : i \notin which) => L(m + d) = L(m)}
<1>1. ASSUME NEW k \in 0 .. n PROVE Listable(U, k, which, item) /\ k \in Nat
  BY DEF Listable
<1>2. ASSUME NEW k \in 0 .. n PROVE L(k) \in Seq(U)
  <2>1. PICK h \in [0 .. k -> Seq(U)] : Lists(h, k, which, item) /\ Listed(k, which, item) = h[k]
    <3>1. Listing(U, k, which, item)
      BY <1>1, ListedRuns
    <3> QED BY <3>1 DEF Listing
  <2>2. k \in 0 .. k
    OBVIOUS
  <2> QED BY <2>1, <2>2
<1>3. m \in 0 .. n /\ n \in 0 .. n
  OBVIOUS
<1>4. PICK x \in Seq(U) : x = L(m)
  BY <1>2, <1>3
<1>5. 0 \in E
  <2>1. m + 0 = m
    OBVIOUS
  <2>2. AtFront(x, x)
    BY DEF AtFront
  <2> QED BY <1>4, <2>1, <2>2
<1>6. ASSUME NEW d \in Nat, d \in E PROVE d + 1 \in E
  <2> SUFFICES ASSUME m + (d + 1) <= n
               PROVE  /\ L(m + (d + 1)) \in Seq(U) /\ AtFront(L(m), L(m + (d + 1)))
                      /\ (\A i \in m + 1 .. n : i \notin which) => L(m + (d + 1)) = L(m)
    OBVIOUS
  <2>1. m + (d + 1) \in 0 .. n /\ m + d \in 0 .. n /\ (m + d) + 1 = m + (d + 1) /\ m + d <= n /\ m + d \in Nat
        /\ m + (d + 1) \in m + 1 .. n /\ (m + d) + 1 \in 0 .. n
    OBVIOUS
  <2>2. PICK y \in Seq(U), z \in Seq(U) : y = L(m + d) /\ z = L(m + (d + 1))
    BY <1>2, <2>1 DEF Lists
  <2>3. AtFront(x, y) /\ ((\A i \in m + 1 .. n : i \notin which) => y = x)
    BY <1>4, <1>6, <2>1, <2>2
  <2>4. Listable(U, (m + d) + 1, which, item)
    BY <1>1, <2>1
  <2>5. z = IF m + (d + 1) \in which THEN Append(y, item[m + (d + 1)]) ELSE y
    <3>1. OneMore(m + d, which, item)
      BY <2>1, <2>4, ListedStep
    <3> QED BY <2>1, <2>2, <3>1 DEF OneMore
  <2>6. CASE m + (d + 1) \in which
    <3>1. item[m + (d + 1)] \in U
      <4>1. m + (d + 1) \in 1 .. (m + d) + 1
        BY <2>1
      <4> QED BY <2>4, <2>6, <4>1 DEF Listable
    <3>2. Len(z) = Len(y) + 1 /\ \A i \in 1 .. Len(y) : z[i] = y[i]
      BY <2>5, <2>6, <3>1
    <3>3. AtFront(x, z)
      <4>1. Len(x) \in Nat /\ Len(y) \in Nat
        OBVIOUS
      <4>2. Len(x) <= Len(y) /\ \A i \in 1 .. Len(x) : y[i] = x[i]
        BY <2>3 DEF AtFront
      <4>3. Len(x) <= Len(z)
        BY <3>2, <4>1, <4>2
      <4>4. \A i \in 1 .. Len(x) : i \in 1 .. Len(y)
        BY <4>1, <4>2
      <4> QED BY <3>2, <4>2, <4>3, <4>4 DEF AtFront
    <3>4. ~(\A i \in m + 1 .. n : i \notin which)
      BY <2>1, <2>6
    <3> QED BY <1>4, <2>2, <3>3, <3>4
  <2>7. CASE m + (d + 1) \notin which
    BY <1>4, <2>2, <2>3, <2>5, <2>7
  <2> QED BY <2>6, <2>7
<1>7. \A d \in Nat : d \in E
  <2> HIDE DEF E
  <2> QED BY <1>5, <1>6, SetInduction
<1>8. n - m \in Nat /\ m + (n - m) = n /\ n <= n
  OBVIOUS
<1>9. PICK y \in Seq(U) : y = L(n)
  BY <1>2, <1>3
<1>10. AtFront(x, y) /\ ((\A i \in m + 1 .. n : i \notin which) => y = x)
  <2>1. n - m \in E
    BY <1>7, <1>8
  <2> QED BY <1>4, <1>8, <1>9, <2>1
<1>11. IsPrefix(x, y)
  <2>1. Len(x) <= Len(y) /\ \A i \in 1 .. Len(x) : x[i] = y[i]
    BY <1>10 DEF AtFront
  <2> QED BY <2>1, PrefixItems
<1> QED BY <1>4, <1>9, <1>10, <1>11

-----------------------------------------------------------------------------
(* Messages. *)

(* The greatest element is the maximum. *)
LEMMA MaxIs ==
  ASSUME NEW S \in SUBSET Nat, NEW x \in S, \A y \in S : y <= x
  PROVE  Max(S) = x
<1>1. \E z \in S : \A y \in S : z >= y
  OBVIOUS
<1>2. Max(S) \in S /\ \A y \in S : Max(S) >= y
  BY <1>1 DEF Max
<1>3. Max(S) >= x /\ Max(S) <= x /\ x \in Nat /\ Max(S) \in Nat
  BY <1>2
<1> QED BY <1>3

(* A set of frames has a last one. *)
LEMMA MaxInside ==
  ASSUME NEW n \in Nat, NEW S \in SUBSET (1 .. n), S # {}
  PROVE  Max(S) \in S
<1> DEFINE R == {k \in Nat : k <= n /\ n - k \in S}
<1>1. R \in SUBSET Nat
  OBVIOUS
<1>2. R # {}
  <2>1. PICK y \in S : TRUE
    OBVIOUS
  <2>2. n - y \in Nat /\ n - (n - y) = y /\ n - y <= n
    OBVIOUS
  <2> QED BY <2>2
<1>3. PICK k \in R : \A y \in R : k <= y
  <2> HIDE DEF R
  <2> QED BY <1>1, <1>2, LeastNat
<1>4. \A y \in S : n - k >= y
  <2> SUFFICES ASSUME NEW y \in S PROVE n - k >= y
    OBVIOUS
  <2>1. n - y \in Nat /\ n - (n - y) = y /\ n - y <= n /\ y \in Nat
    OBVIOUS
  <2>2. n - y \in R
    BY <2>1
  <2>3. k <= n - y /\ k \in Nat
    BY <1>3, <2>2
  <2> QED BY <2>1, <2>3
<1>5. n - k \in S
  OBVIOUS
<1> QED BY <1>4, <1>5 DEF Max

(* The payload of a frame. *)
LEMMA FramePayloadFacts ==
  ASSUME NEW s \in Seq(Frames), NEW i \in 1 .. Len(s)
  PROVE  FramePayload(s, i) \in Seq(ByteNames) /\ Len(FramePayload(s, i)) = s[i].len
<1> HIDE DEF ByteNames
<1>1. PICK b \in Seq(ByteNames) : b = FrameBytes(s, i) /\ Len(b) = FrameLen(s[i])
  BY FrameBytesFacts
<1>2. s[i] \in Frames
  OBVIOUS
<1>3. PICK h \in Nat, m \in Nat : h = HeaderLen(s[i]) /\ m = FrameLen(s[i]) /\ m = h + s[i].len /\ s[i].len \in Nat
  BY <1>2, FrameFacts
<1>4. SubSeq(b, h + 1, m) \in Seq(ByteNames) /\ Len(SubSeq(b, h + 1, m)) = m - h
  BY <1>1, <1>3, PartOf
<1> QED BY <1>1, <1>3, <1>4 DEF FramePayload

(* The data frames, one frame further. *)
LEMMA DataStep ==
  ASSUME NEW s \in Seq(Frames), NEW i \in 1 .. Len(s)
  PROVE  /\ DataFrames(s, i) = IF s[i].op \in Control THEN DataFrames(s, i - 1) ELSE DataFrames(s, i - 1) \cup {i}
         /\ DataFrames(s, i) \subseteq 1 .. i
         /\ DataFrames(s, i - 1) \subseteq 1 .. i - 1
<1>1. 1 .. i = (1 .. i - 1) \cup {i}
  OBVIOUS
<1> QED BY <1>1 DEF DataFrames

(* Whether a message is unfinished, one frame further. *)
LEMMA InMessageStep ==
  ASSUME NEW s \in Seq(Frames), NEW i \in 1 .. Len(s)
  PROVE  /\ s[i].op \in Control => InMessage(s, i + 1) = InMessage(s, i)
         /\ s[i].op \notin Control => InMessage(s, i + 1) = (~ s[i].fin)
<1>1. (i + 1) - 1 = i
  OBVIOUS
<1>2. ASSUME s[i].op \in Control PROVE InMessage(s, i + 1) = InMessage(s, i)
  <2>1. DataFrames(s, i) = DataFrames(s, i - 1)
    BY <1>2, DataStep
  <2> QED BY <1>1, <2>1 DEF InMessage
<1>3. ASSUME s[i].op \notin Control PROVE InMessage(s, i + 1) = (~ s[i].fin)
  <2>1. DataFrames(s, i) = DataFrames(s, i - 1) \cup {i} /\ DataFrames(s, i) \subseteq 1 .. i
    BY <1>3, DataStep
  <2>2. PICK S \in SUBSET Nat : S = DataFrames(s, i)
    <3>1. \A y \in DataFrames(s, i) : y \in Nat
      BY <2>1
    <3> QED BY <3>1
  <2>3. i \in S /\ \A y \in S : y <= i
    BY <2>1, <2>2
  <2>4. Max(S) = i
    BY <2>3, MaxIs
  <2> QED BY <1>1, <2>2, <2>3, <2>4 DEF InMessage
<1> QED BY <1>2, <1>3

(* No message before the first frame. *)
LEMMA InMessageNone ==
  ASSUME NEW s PROVE InMessage(s, 1) = FALSE /\ FirstOf(s, 0) = 0
<1>1. 1 .. 0 = {} /\ 1 - 1 = 0
  OBVIOUS
<1>2. DataFrames(s, 0) = {}
  BY <1>1 DEF DataFrames
<1> QED BY <1>1, <1>2 DEF InMessage, FirstOf

Firsts(s, i) == {j \in DataFrames(s, i) : s[j].op # "continuation"}

(* Where a message begins, one frame further. *)
LEMMA FirstStep ==
  ASSUME NEW s \in Seq(Frames), NEW i \in 1 .. Len(s)
  PROVE  /\ s[i].op \in Control \/ s[i].op = "continuation" => FirstOf(s, i) = FirstOf(s, i - 1)
         /\ s[i].op \notin Control /\ s[i].op # "continuation" => FirstOf(s, i) = i
<1>1. ASSUME s[i].op \in Control \/ s[i].op = "continuation" PROVE FirstOf(s, i) = FirstOf(s, i - 1)
  <2>1. Firsts(s, i) = Firsts(s, i - 1)
    BY <1>1, DataStep DEF Firsts
  <2> QED BY <2>1 DEF FirstOf, Firsts
<1>2. ASSUME s[i].op \notin Control, s[i].op # "continuation" PROVE FirstOf(s, i) = i
  <2>1. DataFrames(s, i) = DataFrames(s, i - 1) \cup {i} /\ DataFrames(s, i) \subseteq 1 .. i
    BY <1>2, DataStep
  <2>2. PICK S \in SUBSET Nat : S = Firsts(s, i)
    <3>1. \A y \in Firsts(s, i) : y \in Nat
      BY <2>1 DEF Firsts
    <3> QED BY <3>1
  <2>3. i \in S /\ \A y \in S : y <= i
    BY <1>2, <2>1, <2>2 DEF Firsts
  <2>4. Max(S) = i /\ S # {}
    BY <2>3, MaxIs
  <2> QED BY <2>2, <2>4 DEF FirstOf, Firsts
<1> QED BY <1>1, <1>2

(* The first frame of a message is at or before any frame of it. *)
LEMMA FirstFacts ==
  ASSUME NEW s \in Seq(Frames), NEW i \in 0 .. Len(s)
  PROVE  FirstOf(s, i) \in 0 .. i
<1> DEFINE E == {k \in Nat : k <= Len(s) => FirstOf(s, k) \in 0 .. k}
<1>1. 0 \in E
  <2>1. FirstOf(s, 0) = 0
    BY InMessageNone
  <2>2. 0 \in 0 .. 0
    OBVIOUS
  <2> QED BY <2>1, <2>2
<1>2. ASSUME NEW k \in Nat, k \in E PROVE k + 1 \in E
  <2> SUFFICES ASSUME k + 1 <= Len(s) PROVE FirstOf(s, k + 1) \in 0 .. k + 1
    OBVIOUS
  <2>1. k + 1 \in 1 .. Len(s) /\ (k + 1) - 1 = k
    OBVIOUS
  <2>2. FirstOf(s, k + 1) = FirstOf(s, k) \/ FirstOf(s, k + 1) = k + 1
    BY <2>1, FirstStep
  <2>3. FirstOf(s, k) \in 0 .. k
    BY <1>2
  <2> QED BY <2>2, <2>3
<1>3. \A k \in Nat : k \in E
  <2> HIDE DEF E
  <2> QED BY <1>1, <1>2, SetInduction
<1> QED BY <1>3

(* The payloads that are joined. *)
MessagePieces(s, i) ==
  [k \in 1 .. i |-> IF k \in DataFrames(s, i) /\ k >= FirstOf(s, i) THEN FramePayload(s, k) ELSE <<>>]

(* What the message of frame i is joined from. *)
LEMMA PiecesFacts ==
  ASSUME NEW s \in Seq(Frames), NEW i \in 0 .. Len(s)
  PROVE  MessagePieces(s, i) \in Seq(Seq(ByteNames)) /\ Len(MessagePieces(s, i)) = i
<1> HIDE DEF ByteNames
<1>1. \A k \in 1 .. i : FramePayload(s, k) \in Seq(ByteNames)
  BY FramePayloadFacts
<1>2. <<>> \in Seq(ByteNames)
  OBVIOUS
<1>3. \A k \in 1 .. i : (IF k \in DataFrames(s, i) /\ k >= FirstOf(s, i) THEN FramePayload(s, k) ELSE <<>>) \in Seq(ByteNames)
  BY <1>1, <1>2
<1> QED BY <1>3 DEF MessagePieces

(* Joining nothing but empty pieces. *)
LEMMA FlattenBlank ==
  ASSUME NEW U, NEW s \in Seq(Seq(U)), \A k \in 1 .. Len(s) : s[k] = <<>>
  PROVE  FlattenSeq(s) = <<>>
<1>1. PICK h \in [0 .. Len(s) -> Seq(U)] : Joins(h, s) /\ FlattenSeq(s) = h[Len(s)]
  BY FlattenJoins
<1> DEFINE E == {k \in Nat : k <= Len(s) => h[k] = <<>>}
<1>2. 0 \in E
  BY <1>1 DEF Joins
<1>3. ASSUME NEW k \in Nat, k \in E PROVE k + 1 \in E
  <2> SUFFICES ASSUME k + 1 <= Len(s) PROVE h[k + 1] = <<>>
    OBVIOUS
  <2>1. k + 1 \in 1 .. Len(s) /\ (k + 1) - 1 = k
    OBVIOUS
  <2>2. h[k + 1] = h[k] \o s[k + 1] /\ h[k] = <<>> /\ s[k + 1] = <<>>
    <3>1. h[k + 1] = h[k] \o s[k + 1]
      BY <1>1, <2>1 DEF Joins
    <3>2. k <= Len(s)
      OBVIOUS
    <3>3. h[k] = <<>>
      BY <1>3, <3>2
    <3> QED BY <2>1, <3>1, <3>3
  <2>3. <<>> \o <<>> = <<>>
    OBVIOUS
  <2> QED BY <2>2, <2>3
<1>4. \A k \in Nat : k \in E
  <2> HIDE DEF E
  <2> QED BY <1>2, <1>3, SetInduction
<1>5. Len(s) \in Nat /\ Len(s) <= Len(s)
  OBVIOUS
<1> QED BY <1>1, <1>4, <1>5

(* One piece more. *)
LEMMA PiecesStep ==
  ASSUME NEW s \in Seq(Frames), NEW i \in 1 .. Len(s), NEW a \in Seq(Seq(ByteNames)),
         NEW v \in Seq(ByteNames), Len(a) = i - 1,
         \A k \in 1 .. i - 1 : MessagePieces(s, i)[k] = a[k],
         MessagePieces(s, i)[i] = v
  PROVE  PayloadsUpTo(s, i) = FlattenSeq(a) \o v
<1> HIDE DEF ByteNames
<1>1. i \in 0 .. Len(s)
  OBVIOUS
<1>2. PICK b \in Seq(Seq(ByteNames)) : b = MessagePieces(s, i) /\ Len(b) = i
  BY <1>1, PiecesFacts
<1>3. Append(a, v) \in Seq(Seq(ByteNames)) /\ Len(Append(a, v)) = i
  OBVIOUS
<1>4. \A k \in 1 .. i : Append(a, v)[k] = IF k <= i - 1 THEN a[k] ELSE v
  OBVIOUS
<1>5. ASSUME NEW k \in 1 .. i PROVE b[k] = Append(a, v)[k]
  <2>1. CASE k <= i - 1
    <3>1. k \in 1 .. i - 1
      BY <2>1
    <3> QED BY <1>2, <1>4, <2>1, <3>1
  <2>2. CASE ~(k <= i - 1)
    <3>1. k = i
      BY <2>2
    <3> QED BY <1>2, <1>4, <2>2, <3>1
  <2> QED BY <2>1, <2>2
<1>6. b = Append(a, v)
  BY <1>2, <1>3, <1>5, SameItems
<1>7. PayloadsUpTo(s, i) = FlattenSeq(b)
  BY <1>2 DEF PayloadsUpTo, MessagePieces
<1> QED BY <1>6, <1>7, FlattenAppend

(* The message so far, one frame further. *)
LEMMA PayloadsStep ==
  ASSUME NEW s \in Seq(Frames), NEW i \in 1 .. Len(s)
  PROVE  /\ s[i].op \in Control => PayloadsUpTo(s, i) = PayloadsUpTo(s, i - 1)
         /\ s[i].op = "continuation" => PayloadsUpTo(s, i) = PayloadsUpTo(s, i - 1) \o FramePayload(s, i)
         /\ s[i].op \in {"text", "binary"} => PayloadsUpTo(s, i) = FramePayload(s, i)
         /\ PayloadsUpTo(s, i) \in Seq(ByteNames) /\ PayloadsUpTo(s, i - 1) \in Seq(ByteNames)
<1> HIDE DEF ByteNames
<1>1. i - 1 \in 0 .. Len(s) /\ i \in 0 .. Len(s) /\ i \in 1 .. i /\ i \in Nat
  OBVIOUS
<1>2. PICK a \in Seq(Seq(ByteNames)) : a = MessagePieces(s, i - 1) /\ Len(a) = i - 1
  BY <1>1, PiecesFacts
<1>3. PICK b \in Seq(Seq(ByteNames)) : b = MessagePieces(s, i) /\ Len(b) = i
  BY <1>1, PiecesFacts
<1>4. /\ PayloadsUpTo(s, i - 1) = FlattenSeq(a) /\ FlattenSeq(a) \in Seq(ByteNames)
      /\ PayloadsUpTo(s, i) = FlattenSeq(b) /\ FlattenSeq(b) \in Seq(ByteNames)
  <2>1. PayloadsUpTo(s, i - 1) = FlattenSeq(a) /\ PayloadsUpTo(s, i) = FlattenSeq(b)
    BY <1>2, <1>3 DEF PayloadsUpTo, MessagePieces
  <2>2. <<>> \in Seq(ByteNames)
    OBVIOUS
  <2> QED BY <2>1, <2>2, FlattenAppend
<1>5. PICK v \in Seq(ByteNames) : v = FramePayload(s, i)
  BY FramePayloadFacts
<1>6. <<>> \in Seq(ByteNames)
  OBVIOUS
<1>7. \A k \in 1 .. i - 1 : k \in 1 .. i /\ k # i /\ k < i
  OBVIOUS
<1>8. ASSUME s[i].op \in Control PROVE PayloadsUpTo(s, i) = PayloadsUpTo(s, i - 1)
  <2>1. DataFrames(s, i) = DataFrames(s, i - 1) /\ FirstOf(s, i) = FirstOf(s, i - 1)
    BY <1>8, DataStep, FirstStep
  <2>2. \A k \in 1 .. i - 1 : MessagePieces(s, i)[k] = a[k]
    BY <1>2, <1>7, <2>1 DEF MessagePieces
  <2>3. i \notin DataFrames(s, i)
    BY <1>8 DEF DataFrames
  <2>4. MessagePieces(s, i)[i] = <<>>
    BY <1>1, <2>3 DEF MessagePieces
  <2>5. PayloadsUpTo(s, i) = FlattenSeq(a) \o <<>>
    BY <1>2, <1>6, <2>2, <2>4, PiecesStep
  <2>6. \A x \in Seq(ByteNames) : x \o <<>> = x
    OBVIOUS
  <2> QED BY <1>4, <2>5, <2>6
<1>9. ASSUME s[i].op = "continuation" PROVE PayloadsUpTo(s, i) = PayloadsUpTo(s, i - 1) \o v
  <2>1. DataFrames(s, i) = DataFrames(s, i - 1) \cup {i} /\ FirstOf(s, i) = FirstOf(s, i - 1)
    BY <1>9, DataStep, FirstStep DEF Control
  <2>2. \A k \in 1 .. i - 1 : MessagePieces(s, i)[k] = a[k]
    BY <1>2, <1>7, <2>1 DEF MessagePieces
  <2>3. i \in DataFrames(s, i) /\ i >= FirstOf(s, i)
    <3>1. FirstOf(s, i) \in 0 .. i
      BY <1>1, FirstFacts
    <3> QED BY <2>1, <3>1
  <2>4. MessagePieces(s, i)[i] = v
    BY <1>1, <1>5, <2>3 DEF MessagePieces
  <2>5. PayloadsUpTo(s, i) = FlattenSeq(a) \o v
    BY <1>2, <2>2, <2>4, PiecesStep
  <2> QED BY <1>4, <2>5
<1>10. ASSUME s[i].op \in {"text", "binary"} PROVE PayloadsUpTo(s, i) = v
  <2>1. DataFrames(s, i) = DataFrames(s, i - 1) \cup {i} /\ FirstOf(s, i) = i
    BY <1>10, DataStep, FirstStep DEF Control
  <2>2. PICK c : c = [k \in 1 .. i - 1 |-> <<>>]
    OBVIOUS
  <2>3. c \in Seq(Seq(ByteNames)) /\ Len(c) = i - 1
    <3>1. i - 1 \in Nat
      OBVIOUS
    <3>2. c \in [1 .. i - 1 -> Seq(ByteNames)]
      BY <1>6, <2>2
    <3> QED BY <3>1, <3>2
  <2>4. \A k \in 1 .. i - 1 : MessagePieces(s, i)[k] = c[k]
    BY <1>7, <2>1, <2>2 DEF MessagePieces
  <2>5. MessagePieces(s, i)[i] = v
    BY <1>1, <1>5, <2>1 DEF MessagePieces
  <2>6. PayloadsUpTo(s, i) = FlattenSeq(c) \o v
    BY <2>3, <2>4, <2>5, PiecesStep
  <2>7. FlattenSeq(c) = <<>>
    <3>1. \A k \in 1 .. Len(c) : c[k] = <<>>
      BY <2>2, <2>3
    <3> QED BY <2>3, <3>1, FlattenBlank
  <2>8. <<>> \o v = v
    OBVIOUS
  <2> QED BY <2>6, <2>7, <2>8
<1> QED BY <1>4, <1>5, <1>8, <1>9, <1>10

-----------------------------------------------------------------------------
(* What later frames do not change. *)

Extends(t, s) ==
  /\ s \in Seq(Frames) /\ t \in Seq(Frames)
  /\ Len(s) <= Len(t) /\ \A i \in 1 .. Len(s) : t[i] = s[i]

(* Frames sent later do not change the messages of the frames before. *)
LEMMA SameMessages ==
  ASSUME NEW s, NEW t, Extends(t, s), NEW i \in 0 .. Len(s)
  PROVE  /\ DataFrames(t, i) = DataFrames(s, i)
         /\ FirstOf(t, i) = FirstOf(s, i)
         /\ InMessage(t, i + 1) = InMessage(s, i + 1)
         /\ PayloadsUpTo(t, i) = PayloadsUpTo(s, i)
         /\ \A k \in 1 .. i : FramePayload(t, k) = FramePayload(s, k)
<1>1. s \in Seq(Frames) /\ Len(s) \in Nat /\ \A k \in 1 .. i : k \in 1 .. Len(s) /\ t[k] = s[k]
  BY DEF Extends
<1>2. DataFrames(t, i) = DataFrames(s, i)
  BY <1>1 DEF DataFrames
<1>3. DataFrames(s, i) \subseteq 1 .. i
  BY DEF DataFrames
<1>4. Firsts(t, i) = Firsts(s, i)
  BY <1>1, <1>2, <1>3 DEF Firsts
<1>5. FirstOf(t, i) = FirstOf(s, i)
  BY <1>4 DEF FirstOf, Firsts
<1>6. \A k \in 1 .. i : FramePayload(t, k) = FramePayload(s, k)
  BY <1>1 DEF FramePayload, FrameBytes
<1>7. PayloadsUpTo(t, i) = PayloadsUpTo(s, i)
  <2>1. MessagePieces(t, i) = MessagePieces(s, i)
    BY <1>2, <1>5, <1>6 DEF MessagePieces
  <2> QED BY <2>1 DEF PayloadsUpTo, MessagePieces
<1>8. InMessage(t, i + 1) = InMessage(s, i + 1)
  <2>1. (i + 1) - 1 = i
    OBVIOUS
  <2>2. CASE DataFrames(s, i) = {}
    BY <1>2, <2>1, <2>2 DEF InMessage
  <2>3. CASE DataFrames(s, i) # {}
    <3>1. Max(DataFrames(s, i)) \in DataFrames(s, i)
      BY <1>1, <1>3, <2>3, MaxInside
    <3>2. t[Max(DataFrames(s, i))] = s[Max(DataFrames(s, i))]
      BY <1>1, <1>3, <3>1
    <3> QED BY <1>2, <2>1, <3>2 DEF InMessage
  <2> QED BY <2>2, <2>3
<1> QED BY <1>2, <1>5, <1>6, <1>7, <1>8

(* None of the first n frames ends the connection. *)
Clean(s, n) == \A j \in 1 .. n : ~ EndsConnection(s, j)

(* Nor which of these frames are errors, end the connection or give an event. *)
LEMMA SameVerdicts ==
  ASSUME NEW s, NEW t, Extends(t, s), NEW i \in 1 .. Len(s)
  PROVE  /\ IsError(t, i) = IsError(s, i)
         /\ EndsConnection(t, i) = EndsConnection(s, i)
         /\ Completes(t, i) = Completes(s, i)
<1>1. t[i] = s[i] /\ i \in 0 .. Len(s) /\ i - 1 \in 0 .. Len(s) /\ (i - 1) + 1 = i
  BY DEF Extends
<1>2. InMessage(t, i) = InMessage(s, i) /\ PayloadsUpTo(t, i) = PayloadsUpTo(s, i)
  BY <1>1, SameMessages
<1>3. IsError(t, i) = IsError(s, i)
  BY <1>1, <1>2 DEF IsError
<1> QED BY <1>1, <1>3 DEF EndsConnection, Completes

(* An unfinished message was begun by a frame that says its kind. *)
LEMMA FirstIsThere ==
  ASSUME NEW s \in Seq(Frames), NEW n \in 0 .. Len(s), Clean(s, n), InMessage(s, n + 1)
  PROVE  FirstOf(s, n) \in 1 .. n /\ s[FirstOf(s, n)].op \in {"text", "binary"}
<1> DEFINE There(k) == FirstOf(s, k) \in 1 .. k /\ s[FirstOf(s, k)].op \in {"text", "binary"}
           E == {k \in Nat : k <= n => (InMessage(s, k + 1) => There(k))}
<1>1. 0 \in E
  <2>1. ~ InMessage(s, 1)
    BY InMessageNone
  <2>2. 0 + 1 = 1
    OBVIOUS
  <2> QED BY <2>1, <2>2
<1>2. ASSUME NEW k \in Nat, k \in E PROVE k + 1 \in E
  <2> SUFFICES ASSUME k + 1 <= n, InMessage(s, (k + 1) + 1) PROVE There(k + 1)
    OBVIOUS
  <2>1. k + 1 \in 1 .. Len(s) /\ (k + 1) - 1 = k /\ k <= n /\ k + 1 \in 1 .. n
    OBVIOUS
  <2>2. InMessage(s, k + 1) => There(k)
    BY <1>2, <2>1
  <2>3. PICK f \in Frames : f = s[k + 1]
    BY <2>1
  <2>4. f.op \in {"text", "binary", "continuation", "close", "ping", "pong"}
    BY FrameFacts
  <2>5. ~ IsError(s, k + 1)
    BY <2>1 DEF Clean, EndsConnection
  <2>6. CASE f.op \in Control
    <3>1. InMessage(s, k + 1) /\ FirstOf(s, k + 1) = FirstOf(s, k)
      BY <2>1, <2>3, <2>6, InMessageStep, FirstStep
    <3> QED BY <2>2, <3>1
  <2>7. CASE f.op = "continuation"
    <3>1. InMessage(s, k + 1)
      BY <2>3, <2>5, <2>7 DEF IsError
    <3>2. FirstOf(s, k + 1) = FirstOf(s, k)
      BY <2>1, <2>3, <2>7, FirstStep
    <3> QED BY <2>2, <3>1, <3>2
  <2>8. CASE f.op \in {"text", "binary"}
    <3>1. FirstOf(s, k + 1) = k + 1
      BY <2>1, <2>3, <2>8, FirstStep DEF Control
    <3> QED BY <2>3, <2>8, <3>1
  <2> QED BY <2>4, <2>6, <2>7, <2>8 DEF Control
<1>3. \A k \in Nat : k \in E
  <2> HIDE DEF E
  <2> QED BY <1>1, <1>2, SetInduction
<1>4. n \in Nat /\ n <= n
  OBVIOUS
<1> QED BY <1>3, <1>4

WsEvents == [op : {"text", "binary", "close", "ping", "pong"}, payload : Seq(ByteNames)]

(* The frames that give an event. *)
Giving(s) == {i \in Meant(s) : Completes(s, i)}

(* A frame gives an event if no frame before it ended the connection. *)
LEMMA GivingIs ==
  ASSUME NEW s \in Seq(Frames), NEW i \in 1 .. Len(s)
  PROVE  i \in Giving(s) <=> Clean(s, i - 1) /\ Completes(s, i)
BY DEF Giving, Meant, Clean

(* What an event is. *)
LEMMA EventFacts ==
  ASSUME NEW s \in Seq(Frames), NEW i \in 1 .. Len(s), Clean(s, i - 1), Completes(s, i)
  PROVE  /\ EventOf(s, i) \in WsEvents
         /\ s[i].op \notin Control => FirstOf(s, i) \in 1 .. i
<1> HIDE DEF ByteNames
<1>1. PICK f \in Frames : f = s[i]
  OBVIOUS
<1>2. f.op \in {"text", "binary", "continuation", "close", "ping", "pong"} /\ f.len \in Nat
  BY FrameFacts
<1>3. PICK v \in Seq(ByteNames), p \in Seq(ByteNames) : v = FramePayload(s, i) /\ p = PayloadsUpTo(s, i)
  BY FramePayloadFacts, PayloadsStep
<1>4. ~ IsError(s, i)
  BY DEF Completes
<1>5. CASE f.op \in Control
  <2>1. SubSeq(v, 3, f.len) \in Seq(ByteNames)
    <3>1. Len(v) = f.len
      BY <1>1, <1>3, FramePayloadFacts
    <3>2. CASE f.len >= 2
      <4>1. PICK m \in Nat : m = 2
        OBVIOUS
      <4>2. SubSeq(v, m + 1, f.len) \in Seq(ByteNames)
        BY <1>2, <3>1, <3>2, <4>1, PartOf
      <4> QED BY <4>1, <4>2
    <3>3. CASE ~(f.len >= 2)
      <4>1. 3 > f.len
        BY <1>2, <3>3
      <4> QED BY <1>2, <4>1
    <3> QED BY <3>2, <3>3
  <2>2. EventOf(s, i) = [op |-> f.op, payload |-> IF f.op = "close" THEN SubSeq(v, 3, f.len) ELSE v]
    BY <1>1, <1>3, <1>5 DEF EventOf
  <2>3. f.op \in {"text", "binary", "close", "ping", "pong"}
    BY <1>5 DEF Control
  <2> QED BY <1>1, <1>5, <2>1, <2>2, <2>3 DEF WsEvents
<1>6. CASE f.op \notin Control
  <2>1. FirstOf(s, i) \in 1 .. i /\ s[FirstOf(s, i)].op \in {"text", "binary"}
    <3>1. CASE f.op = "continuation"
      <4>1. InMessage(s, i)
        BY <1>1, <1>4, <3>1 DEF IsError
      <4>2. i - 1 \in 0 .. Len(s) /\ (i - 1) + 1 = i
        OBVIOUS
      <4>3. FirstOf(s, i - 1) \in 1 .. i - 1 /\ s[FirstOf(s, i - 1)].op \in {"text", "binary"}
        BY <4>1, <4>2, FirstIsThere
      <4>4. FirstOf(s, i) = FirstOf(s, i - 1)
        BY <1>1, <3>1, FirstStep
      <4> QED BY <4>3, <4>4
    <3>2. CASE f.op # "continuation"
      <4>1. FirstOf(s, i) = i /\ f.op \in {"text", "binary"}
        BY <1>1, <1>2, <1>6, <3>2, FirstStep DEF Control
      <4> QED BY <1>1, <4>1
    <3> QED BY <3>1, <3>2
  <2>2. EventOf(s, i) = [op |-> s[FirstOf(s, i)].op, payload |-> p]
    <3>1. f.op # "close"
      BY <1>6 DEF Control
    <3> QED BY <1>1, <1>3, <1>6, <3>1 DEF EventOf
  <2>3. EventOf(s, i) \in WsEvents
    <3>1. PICK o \in {"text", "binary"} : o = s[FirstOf(s, i)].op
      BY <2>1
    <3> QED BY <2>2, <3>1 DEF WsEvents
  <2> QED BY <2>1, <2>3
<1> QED BY <1>5, <1>6

ItemsOf(s) == [i \in 1 .. Len(s) |-> EventOf(s, i)]

(* The events of the frames that give one are events. *)
LEMMA GivingListable ==
  ASSUME NEW s \in Seq(Frames), NEW n \in 0 .. Len(s)
  PROVE  Listable(WsEvents, n, Giving(s), ItemsOf(s))
<1> SUFFICES ASSUME NEW i \in 1 .. n, i \in Giving(s) PROVE ItemsOf(s)[i] \in WsEvents
  BY DEF Listable
<1>1. i \in 1 .. Len(s)
  OBVIOUS
<1>2. Clean(s, i - 1) /\ Completes(s, i)
  BY <1>1, GivingIs
<1> QED BY <1>1, <1>2, EventFacts DEF ItemsOf

(* The events of the first n frames. *)
LEMMA EventsFacts ==
  ASSUME NEW s \in Seq(Frames), NEW n \in 0 .. Len(s)
  PROVE  /\ EventsUpTo(s, n) \in Seq(WsEvents) /\ EventsUpTo(s, Len(s)) \in Seq(WsEvents)
         /\ EventsUpTo(s, 0) = <<>>
         /\ IsPrefix(EventsUpTo(s, n), EventsUpTo(s, Len(s)))
         /\ (\A i \in n + 1 .. Len(s) : i \notin Giving(s)) => EventsUpTo(s, Len(s)) = EventsUpTo(s, n)
<1>1. \A k : EventsUpTo(s, k) = Listed(k, Giving(s), ItemsOf(s))
  BY DEF EventsUpTo, Giving, ItemsOf
<1>2. n \in Nat /\ Len(s) \in Nat /\ n <= Len(s) /\ Len(s) \in 0 .. Len(s)
  OBVIOUS
<1>3. Listable(WsEvents, Len(s), Giving(s), ItemsOf(s))
  BY <1>2, GivingListable
<1> HIDE DEF WsEvents, EventsUpTo
<1>4. /\ Listed(n, Giving(s), ItemsOf(s)) \in Seq(WsEvents)
      /\ Listed(Len(s), Giving(s), ItemsOf(s)) \in Seq(WsEvents)
      /\ IsPrefix(Listed(n, Giving(s), ItemsOf(s)), Listed(Len(s), Giving(s), ItemsOf(s)))
      /\ (\A i \in n + 1 .. Len(s) : i \notin Giving(s)) =>
           Listed(Len(s), Giving(s), ItemsOf(s)) = Listed(n, Giving(s), ItemsOf(s))
  BY <1>2, <1>3, ListedGrows
<1>5. Listed(0, Giving(s), ItemsOf(s)) = <<>>
  BY ListedNone
<1> QED BY <1>1, <1>4, <1>5

(* One frame further. *)
LEMMA EventsStep ==
  ASSUME NEW s \in Seq(Frames), NEW i \in 1 .. Len(s), Clean(s, i - 1)
  PROVE  EventsUpTo(s, i) = IF Completes(s, i) THEN Append(EventsUpTo(s, i - 1), EventOf(s, i))
                            ELSE EventsUpTo(s, i - 1)
<1>1. \A k : EventsUpTo(s, k) = Listed(k, Giving(s), ItemsOf(s))
  BY DEF EventsUpTo, Giving, ItemsOf
<1>2. PICK m \in Nat : m = i - 1 /\ m + 1 = i /\ m + 1 \in 0 .. Len(s)
  <2>1. i - 1 \in Nat /\ (i - 1) + 1 = i /\ (i - 1) + 1 \in 0 .. Len(s)
    OBVIOUS
  <2> QED BY <2>1
<1>3. Listable(WsEvents, m + 1, Giving(s), ItemsOf(s))
  BY <1>2, GivingListable
<1>4. Listed(m + 1, Giving(s), ItemsOf(s)) =
        IF m + 1 \in Giving(s) THEN Append(Listed(m, Giving(s), ItemsOf(s)), ItemsOf(s)[m + 1])
        ELSE Listed(m, Giving(s), ItemsOf(s))
  <2>1. OneMore(m, Giving(s), ItemsOf(s))
    BY <1>2, <1>3, ListedStep
  <2> QED BY <2>1 DEF OneMore
<1>5. i \in Giving(s) <=> Completes(s, i)
  BY GivingIs
<1>6. ItemsOf(s)[i] = EventOf(s, i)
  BY DEF ItemsOf
<1> HIDE DEF ItemsOf, EventsUpTo
<1> QED BY <1>1, <1>2, <1>4, <1>5, <1>6

(* Frames sent later do not change the events of the frames before. *)
LEMMA EventsSame ==
  ASSUME NEW s, NEW t, Extends(t, s), NEW n \in 0 .. Len(s)
  PROVE  EventsUpTo(t, n) = EventsUpTo(s, n) /\ Clean(t, n) = Clean(s, n)
<1>1. s \in Seq(Frames) /\ t \in Seq(Frames) /\ Len(s) <= Len(t) /\ \A i \in 1 .. Len(s) : t[i] = s[i]
  BY DEF Extends
<1>2. \A i \in 1 .. n : i \in 1 .. Len(s) /\ i \in 1 .. Len(t)
  BY <1>1
<1>3. \A k \in 0 .. n : Clean(t, k) = Clean(s, k)
  <2>1. \A j \in 1 .. n : EndsConnection(t, j) = EndsConnection(s, j)
    BY <1>2, SameVerdicts
  <2> QED BY <2>1 DEF Clean
<1>4. ASSUME NEW i \in 1 .. n
      PROVE  (i \in Giving(t) <=> i \in Giving(s)) /\ (i \in Giving(s) => ItemsOf(t)[i] = ItemsOf(s)[i])
  <2>1. i \in 1 .. Len(s) /\ i \in 1 .. Len(t) /\ i - 1 \in 0 .. n /\ i \in 0 .. Len(s)
    BY <1>2
  <2>2. Completes(t, i) = Completes(s, i)
    BY <2>1, SameVerdicts
  <2>3. i \in Giving(t) <=> i \in Giving(s)
    BY <1>1, <1>3, <2>1, <2>2, GivingIs
  <2>4. ASSUME i \in Giving(s) PROVE EventOf(t, i) = EventOf(s, i)
    <3>1. Clean(s, i - 1) /\ Completes(s, i)
      BY <1>1, <2>1, <2>4, GivingIs
    <3>2. s[i].op \notin Control => FirstOf(s, i) \in 1 .. i
      BY <1>1, <2>1, <3>1, EventFacts
    <3>3. i \in 1 .. i
      OBVIOUS
    <3>4. FramePayload(t, i) = FramePayload(s, i) /\ PayloadsUpTo(t, i) = PayloadsUpTo(s, i) /\ FirstOf(t, i) = FirstOf(s, i)
      BY <2>1, <3>3, SameMessages
    <3>5. s[i].op \notin Control => t[FirstOf(s, i)] = s[FirstOf(s, i)]
      <4> SUFFICES ASSUME s[i].op \notin Control PROVE t[FirstOf(s, i)] = s[FirstOf(s, i)]
        OBVIOUS
      <4>1. PICK j \in 1 .. i : j = FirstOf(s, i)
        BY <3>2
      <4>2. j \in 1 .. Len(s)
        BY <1>1, <2>1
      <4> QED BY <1>1, <4>1, <4>2
    <3>6. t[i] = s[i]
      BY <1>1, <2>1
    <3> QED BY <3>4, <3>5, <3>6 DEF EventOf, Control
  <2> QED BY <2>1, <2>3, <2>4 DEF ItemsOf
<1>5. Listable(WsEvents, n, Giving(s), ItemsOf(s)) /\ n \in Nat
  BY <1>1, GivingListable
<1>6. Listed(n, Giving(t), ItemsOf(t)) = Listed(n, Giving(s), ItemsOf(s))
  BY <1>4, <1>5, ListedSame
<1>7. n \in 0 .. n
  OBVIOUS
<1> QED BY <1>3, <1>6, <1>7 DEF EventsUpTo, Giving, ItemsOf

(* The payloads of the pings, one event further. *)
LEMMA PingsStep ==
  ASSUME NEW e \in Seq(WsEvents), NEW x \in WsEvents
  PROVE  /\ PingPayloads(e) \in Seq(Seq(ByteNames))
         /\ PingPayloads(Append(e, x)) =
              IF x.op = "ping" THEN Append(PingPayloads(e), x.payload) ELSE PingPayloads(e)
<1> HIDE DEF ByteNames
<1> DEFINE W(d) == {i \in 1 .. Len(d) : d[i].op = "ping"}
           I(d) == [i \in 1 .. Len(d) |-> d[i].payload]
           n == Len(e)
<1>1. \A z \in WsEvents : z.payload \in Seq(ByteNames)
  BY DEF WsEvents
<1>2. PICK d \in Seq(WsEvents) : d = Append(e, x) /\ Len(d) = n + 1 /\ d[n + 1] = x
  <2>1. Append(e, x) \in Seq(WsEvents) /\ Len(Append(e, x)) = n + 1 /\ Append(e, x)[n + 1] = x
    BY DEF WsEvents
  <2> QED BY <2>1
<1> HIDE DEF WsEvents
<1>3. n \in Nat /\ \A i \in 1 .. n : d[i] = e[i] /\ i \in 1 .. Len(d)
  BY <1>2
<1>4. PingPayloads(e) = Listed(n, W(e), I(e)) /\ PingPayloads(d) = Listed(n + 1, W(d), I(d))
  BY <1>2 DEF PingPayloads
<1>5. Listable(Seq(ByteNames), n + 1, W(d), I(d))
  BY <1>1, <1>2 DEF Listable
<1>6. Listable(Seq(ByteNames), n, W(e), I(e))
  BY <1>1 DEF Listable
<1>7. \A i \in 1 .. n : (i \in W(d) <=> i \in W(e)) /\ (i \in W(e) => I(d)[i] = I(e)[i])
  BY <1>3
<1>8. (n + 1 \in W(d) <=> x.op = "ping") /\ I(d)[n + 1] = x.payload
  BY <1>2, <1>3
<1> HIDE DEF W, I
<1>9. Listed(n, W(d), I(d)) = Listed(n, W(e), I(e))
  BY <1>3, <1>6, <1>7, ListedSame
<1>10. /\ Listed(n, W(d), I(d)) \in Seq(Seq(ByteNames))
       /\ Listed(n + 1, W(d), I(d)) =
            IF n + 1 \in W(d) THEN Append(Listed(n, W(d), I(d)), I(d)[n + 1]) ELSE Listed(n, W(d), I(d))
  <2>1. Listed(n, W(d), I(d)) \in Seq(Seq(ByteNames)) /\ OneMore(n, W(d), I(d))
    BY <1>3, <1>5, ListedStep
  <2> QED BY <2>1 DEF OneMore
<1> QED BY <1>2, <1>4, <1>8, <1>9, <1>10

(* No events, no pings. *)
LEMMA PingsNone == PingPayloads(<<>>) = <<>>
<1>1. Len(<<>>) = 0
  OBVIOUS
<1> QED BY <1>1, ListedNone DEF PingPayloads

-----------------------------------------------------------------------------
(* Parts of sequences. *)

(* x is items m + 1 to n of w. *)
IsPart(x, w, m, n) == Len(x) = n - m /\ \A i \in 1 .. n - m : x[i] = w[m + i]

(* A subsequence is the part of w that begins after m and ends at n. *)
LEMMA PartIs ==
  ASSUME NEW U, NEW w \in Seq(U), NEW m \in Nat, NEW n \in Nat, m <= n, n <= Len(w)
  PROVE  SubSeq(w, m + 1, n) \in Seq(U) /\ IsPart(SubSeq(w, m + 1, n), w, m, n)
BY PartOf DEF IsPart

(* A part without its first k items. *)
LEMMA PartOfPart ==
  ASSUME NEW U, NEW w \in Seq(U), NEW a \in Nat, NEW b \in Nat, a <= b, b <= Len(w),
         NEW k \in Nat, a + k <= b
  PROVE  SubSeq(SubSeq(w, a + 1, b), k + 1, b - a) = SubSeq(w, (a + k) + 1, b)
<1>1. PICK x \in Seq(U) : x = SubSeq(w, a + 1, b) /\ IsPart(x, w, a, b)
  BY PartIs
<1>2. b - a \in Nat /\ k <= b - a /\ a + k \in Nat /\ b - a <= Len(x)
  BY <1>1 DEF IsPart
<1>3. PICK y \in Seq(U) : y = SubSeq(x, k + 1, b - a) /\ IsPart(y, x, k, b - a)
  BY <1>1, <1>2, PartIs
<1>4. PICK z \in Seq(U) : z = SubSeq(w, (a + k) + 1, b) /\ IsPart(z, w, a + k, b)
  BY <1>2, PartIs
<1>5. (b - a) - k = b - (a + k)
  OBVIOUS
<1>6. ASSUME NEW i \in 1 .. Len(y) PROVE y[i] = z[i]
  <2>1. Len(y) = (b - a) - k
    BY <1>3 DEF IsPart
  <2>2. i \in Nat /\ 1 <= i /\ i <= (b - a) - k
    BY <2>1
  <2>3. i \in 1 .. (b - a) - k /\ k + i \in 1 .. b - a
    BY <2>2
  <2>4. a + (k + i) = (a + k) + i /\ i \in 1 .. b - (a + k)
    BY <1>5, <2>2
  <2>5. y[i] = x[k + i] /\ x[k + i] = w[a + (k + i)]
    BY <1>1, <1>3, <2>3 DEF IsPart
  <2>6. z[i] = w[(a + k) + i]
    BY <1>4, <2>4 DEF IsPart
  <2> QED BY <2>4, <2>5, <2>6
<1>7. Len(y) = Len(z)
  BY <1>3, <1>4, <1>5 DEF IsPart
<1>8. y = z
  BY <1>6, <1>7, SameItems
<1> QED BY <1>1, <1>3, <1>4, <1>8

(* Two parts that meet. *)
LEMMA PartsMeet ==
  ASSUME NEW U, NEW w \in Seq(U), NEW a \in Nat, NEW b \in Nat, NEW c \in Nat, a <= b, b <= c, c <= Len(w)
  PROVE  SubSeq(w, a + 1, b) \o SubSeq(w, b + 1, c) = SubSeq(w, a + 1, c)
<1>1. PICK x \in Seq(U) : x = SubSeq(w, a + 1, b) /\ IsPart(x, w, a, b)
  <2>1. b <= Len(w)
    OBVIOUS
  <2>2. SubSeq(w, a + 1, b) \in Seq(U) /\ IsPart(SubSeq(w, a + 1, b), w, a, b)
    BY <2>1, PartIs
  <2> QED BY <2>2
<1>2. PICK y \in Seq(U) : y = SubSeq(w, b + 1, c) /\ IsPart(y, w, b, c)
  <2>1. SubSeq(w, b + 1, c) \in Seq(U) /\ IsPart(SubSeq(w, b + 1, c), w, b, c)
    BY PartIs
  <2> QED BY <2>1
<1>3. PICK z \in Seq(U) : z = SubSeq(w, a + 1, c) /\ IsPart(z, w, a, c)
  <2>1. a <= c
    OBVIOUS
  <2>2. SubSeq(w, a + 1, c) \in Seq(U) /\ IsPart(SubSeq(w, a + 1, c), w, a, c)
    BY <2>1, PartIs
  <2> QED BY <2>2
<1> USE DEF IsPart
<1>4. PICK v \in Seq(U) : v = x \o y /\ Len(v) = c - a
  <2>1. x \o y \in Seq(U) /\ Len(x \o y) = Len(x) + Len(y)
    BY JoinTwo
  <2>2. (b - a) + (c - b) = c - a
    OBVIOUS
  <2>3. Len(x) = b - a /\ Len(y) = c - b
    BY <1>1, <1>2
  <2>4. Len(x \o y) = c - a
    BY <2>1, <2>2, <2>3
  <2> HIDE DEF IsPart
  <2> QED BY <2>1, <2>4
<1>5. PICK m \in Nat : m = Len(x)
  OBVIOUS
<1>6. /\ \A i \in 1 .. m : v[i] = x[i]
      /\ \A i \in 1 .. Len(y) : v[m + i] = y[i]
  BY <1>4, <1>5, JoinTwoItems
<1>7. ASSUME NEW i \in 1 .. Len(v) PROVE v[i] = z[i]
  <2>1. i \in 1 .. c - a
    BY <1>4
  <2>2. CASE i <= m
    <3>1. i \in 1 .. m /\ i \in 1 .. b - a
      BY <1>1, <1>5, <2>1, <2>2
    <3> QED BY <1>1, <1>3, <1>6, <2>1, <3>1
  <2>3. CASE ~(i <= m)
    <3>1. PICK j \in 1 .. Len(y) : i = m + j
      <4>1. i - m \in 1 .. Len(y) /\ i = m + (i - m)
        BY <1>1, <1>2, <1>5, <2>1, <2>3
      <4> QED BY <4>1
    <3>2. j \in 1 .. c - b /\ a + i = b + j
      BY <1>1, <1>2, <1>5, <3>1
    <3>3. v[i] = y[j]
      BY <1>6, <3>1
    <3>4. z[i] = w[b + j]
      BY <1>3, <2>1, <3>2
    <3> QED BY <1>2, <3>2, <3>3, <3>4
  <2> QED BY <2>2, <2>3
<1>8. Len(v) = Len(z)
  BY <1>3, <1>4
<1>9. v = z
  BY <1>7, <1>8, SameItems
<1> QED BY <1>1, <1>2, <1>3, <1>4, <1>9

(* What is added at the end is added at the end of a part that reaches it. *)
LEMMA PartThenMore ==
  ASSUME NEW U, NEW w \in Seq(U), NEW y \in Seq(U), NEW a \in Nat, a <= Len(w)
  PROVE  SubSeq(w \o y, a + 1, Len(w \o y)) = SubSeq(w, a + 1, Len(w)) \o y
<1>1. PICK v \in Seq(U), m \in Nat : v = w \o y /\ m = Len(w) /\ Len(v) = m + Len(y)
  <2>1. w \o y \in Seq(U) /\ Len(w \o y) = Len(w) + Len(y) /\ Len(w) \in Nat
    BY JoinTwo
  <2> QED BY <2>1
<1>2. /\ \A i \in 1 .. m : v[i] = w[i]
      /\ \A i \in 1 .. Len(y) : v[m + i] = y[i]
  BY <1>1, JoinTwoItems
<1>3. Len(y) \in Nat /\ Len(v) \in Nat /\ m <= Len(v) /\ Len(v) <= Len(v) /\ a <= m
  BY <1>1
<1>4. SubSeq(v, a + 1, m) \o SubSeq(v, m + 1, Len(v)) = SubSeq(v, a + 1, Len(v))
  BY <1>3, PartsMeet
<1>5. SubSeq(v, a + 1, m) = SubSeq(w, a + 1, m)
  <2>1. PICK x \in Seq(U) : x = SubSeq(v, a + 1, m) /\ IsPart(x, v, a, m)
    BY <1>3, PartIs
  <2>2. PICK z \in Seq(U) : z = SubSeq(w, a + 1, m) /\ IsPart(z, w, a, m)
    <3>1. m <= Len(w)
      BY <1>1
    <3>2. SubSeq(w, a + 1, m) \in Seq(U) /\ IsPart(SubSeq(w, a + 1, m), w, a, m)
      BY <1>3, <3>1, PartIs
    <3> QED BY <3>2
  <2> USE DEF IsPart
  <2>3. ASSUME NEW i \in 1 .. Len(x) PROVE x[i] = z[i]
    <3>1. i \in 1 .. m - a /\ a + i \in 1 .. m
      BY <1>3, <2>1
    <3> QED BY <1>2, <2>1, <2>2, <3>1
  <2>4. x = z
    BY <2>1, <2>2, <2>3, SameItems
  <2> QED BY <2>1, <2>2, <2>4
<1>6. SubSeq(v, m + 1, Len(v)) = y
  <2>1. PICK x \in Seq(U) : x = SubSeq(v, m + 1, Len(v)) /\ IsPart(x, v, m, Len(v))
    BY <1>3, PartIs
  <2>2. Len(v) - m = Len(y)
    BY <1>1, <1>3
  <2>3. Len(x) = Len(y) /\ \A i \in 1 .. Len(x) : x[i] = y[i]
    BY <1>2, <2>1, <2>2 DEF IsPart
  <2>4. x = y
    BY <2>1, <2>3, SameItems
  <2> QED BY <2>1, <2>4
<1> QED BY <1>1, <1>4, <1>5, <1>6

(* A part of what a longer sequence begins with. *)
LEMMA PartOfFront ==
  ASSUME NEW U, NEW w \in Seq(U), NEW v \in Seq(U), AtFront(w, v),
         NEW a \in Nat, NEW b \in Nat, a <= b, b <= Len(w)
  PROVE  SubSeq(v, a + 1, b) = SubSeq(w, a + 1, b) /\ b <= Len(v)
<1>1. Len(w) <= Len(v) /\ \A j \in 1 .. Len(w) : v[j] = w[j]
  BY DEF AtFront
<1>2. b <= Len(v)
  BY <1>1
<1>3. PICK x \in Seq(U) : x = SubSeq(v, a + 1, b) /\ IsPart(x, v, a, b)
  BY <1>2, PartIs
<1>4. PICK z \in Seq(U) : z = SubSeq(w, a + 1, b) /\ IsPart(z, w, a, b)
  BY PartIs
<1> USE DEF IsPart
<1>5. ASSUME NEW i \in 1 .. Len(x) PROVE x[i] = z[i]
  <2>1. i \in 1 .. b - a /\ a + i \in 1 .. Len(w)
    <3>1. i \in 1 .. b - a
      BY <1>3
    <3>2. PICK q \in Nat : q = Len(w) /\ b <= q
      OBVIOUS
    <3>3. a + i \in 1 .. q
      BY <3>1, <3>2
    <3> QED BY <3>1, <3>2, <3>3
  <2> QED BY <1>1, <1>3, <1>4, <2>1
<1>6. x = z
  BY <1>3, <1>4, <1>5, SameItems
<1> QED BY <1>2, <1>3, <1>4, <1>6

-----------------------------------------------------------------------------
(***************************************************************************)
(* The inductive invariant.  The reader has taken n whole frames off the   *)
(* wire, none of which ends the connection: what it holds are the bytes    *)
(* from frame n + 1 on, what it delivered is what these frames mean, and   *)
(* the fragments it keeps are the message that is unfinished after them.   *)
(***************************************************************************)

(* What is held is the wire from the end of frame n on. *)
HoldsFrom(s, n, av, tk) ==
  /\ n \in 0 .. Len(s) /\ tk \in 0 .. Len(WireOf(s)) /\ EndIn(s, n) <= tk
  /\ av = SubSeq(WireOf(s), EndIn(s, n) + 1, tk)

(* The reassembly buffer is that of the message unfinished after frame n. *)
Assembles(s, n, fr, ms) ==
  /\ fr # "" <=> InMessage(s, n + 1)
  /\ fr # "" => fr = s[FirstOf(s, n)].op /\ ms = PayloadsUpTo(s, n)

Reading(s, n, av, tk, ev, fr, ms) ==
  /\ HoldsFrom(s, n, av, tk) /\ Clean(s, n)
  /\ ev = EventsUpTo(s, n)
  /\ Assembles(s, n, fr, ms)

(* Frame n + 1 is not there yet. *)
LacksFrame(s, n, tk) == n < Len(s) => tk - EndIn(s, n) < FrameLen(s[n + 1])

Ended(s, n, ev, wh, pr) ==
  /\ n \in 0 .. Len(s) /\ ev = EventsUpTo(s, n)
  /\ wh = "closed" => pr = "closed" /\ n = Len(s) /\ Clean(s, n)
  /\ wh = "protocol" => n < Len(s) /\ Clean(s, n) /\ IsError(s, n + 1)
  /\ wh = "close" => n > 0 /\ Clean(s, n - 1) /\ EndsConnection(s, n) /\ Last(ev).op = "close"

(* The pings are answered up to the last event. *)
Answers(p, ev, q) ==
  /\ q \in {"connect", "drain", "fill"} => p = PingPayloads(ev)
  /\ q = "pong" => ev # <<>> /\ PingPayloads(ev) = Append(p, Last(ev).payload)
  /\ q = "ended" => IsPrefix(p, PingPayloads(ev))

WsTypes ==
  /\ sent \in Seq(Frames) /\ Len(sent) <= MaxFrames
  /\ peer \in {"open", "closed"}
  /\ taken \in 0 .. Len(Wire)
  /\ pc \in {"connect", "drain", "pong", "fill", "ended"}
  /\ why \in {"", "reply", "protocol", "close", "closed", "dropped"}
  /\ buf \in Seq(ByteNames) /\ Len(buf) <= Buffer
  /\ start \in 0 .. Len(buf)
  /\ fragment \in {"", "text", "binary"}
  /\ message \in Seq(ByteNames) /\ Len(message) <= MaxMessage
  /\ events \in Seq(WsEvents) /\ pongs \in Seq(Seq(ByteNames))

Progress ==
  /\ pc = "connect" => /\ taken <= Reply /\ buf = <<>> /\ start = 0
                       /\ fragment = "" /\ events = <<>>
  /\ pc \in {"drain", "pong", "fill"} =>
       \E n \in 0 .. Len(sent) :
         /\ Reading(sent, n, Available, taken, events, fragment, message)
         /\ pc = "fill" => LacksFrame(sent, n, taken)
  /\ IF pc = "ended" THEN \E n \in 0 .. Len(sent) : Ended(sent, n, events, why, peer)
     ELSE why = ""

WsInv == WsTypes /\ Answers(pongs, events, pc) /\ Progress

-----------------------------------------------------------------------------
(* What is held. *)

(* The held bytes begin with the header of the next frame. *)
LEMMA HoldsAhead ==
  ASSUME NEW s \in Seq(Frames), NEW n, NEW av, NEW tk, HoldsFrom(s, n, av, tk)
  PROVE  /\ av \in Seq(ByteNames) /\ n \in Nat /\ tk \in Nat /\ EndIn(s, n) \in Nat
         /\ Len(av) = tk - EndIn(s, n) /\ IsPart(av, WireOf(s), EndIn(s, n), tk)
         /\ n = Len(s) => Len(av) = 0
         /\ Len(av) > 0 => n + 1 \in 1 .. Len(s) /\ av[1] = <<n + 1, 1>>
<1> HIDE DEF ByteNames
<1>1. n \in 0 .. Len(s) /\ tk \in 0 .. Len(WireOf(s)) /\ EndIn(s, n) <= tk
      /\ av = SubSeq(WireOf(s), EndIn(s, n) + 1, tk) /\ n \in Nat /\ Len(s) \in Nat
  BY DEF HoldsFrom
<1>2. /\ WireOf(s) \in Seq(ByteNames) /\ Len(WireOf(s)) = EndIn(s, Len(s))
      /\ EndIn(s, n) \in Nat
  BY <1>1, WireFacts
<1>3. PICK w \in Seq(ByteNames), e \in Nat : w = WireOf(s) /\ e = EndIn(s, n) /\ e <= tk /\ tk \in Nat /\ tk <= Len(w)
  BY <1>1, <1>2
<1>4. SubSeq(w, e + 1, tk) \in Seq(ByteNames) /\ IsPart(SubSeq(w, e + 1, tk), w, e, tk)
  BY <1>3, PartIs
<1>5. av \in Seq(ByteNames) /\ IsPart(av, w, e, tk) /\ Len(av) = tk - e
  BY <1>1, <1>3, <1>4 DEF IsPart
<1>6. n = Len(s) => Len(av) = 0
  BY <1>1, <1>2, <1>3, <1>5
<1>7. ASSUME Len(av) > 0 PROVE n + 1 \in 1 .. Len(s) /\ av[1] = <<n + 1, 1>>
  <2>1. n + 1 \in 1 .. Len(s) /\ (n + 1) - 1 = n
    <3>1. n # Len(s)
      BY <1>6, <1>7
    <3> QED BY <1>1, <3>1
  <2>2. s[n + 1] \in Frames
    BY <2>1
  <2>3. 1 \in 1 .. FrameLen(s[n + 1])
    BY <2>2, FrameFacts
  <2>4. WireOf(s)[EndIn(s, n) + 1] = <<n + 1, 1>>
    BY <2>1, <2>3, WireByte
  <2>5. 1 \in 1 .. tk - e
    BY <1>3, <1>5, <1>7
  <2>6. av[1] = w[e + 1]
    BY <1>5, <2>5 DEF IsPart
  <2> QED BY <1>3, <2>1, <2>4, <2>6
<1> QED BY <1>1, <1>3, <1>5, <1>6, <1>7

(* A frame that is there: its payload, and what follows it. *)
LEMMA HoldsFrame ==
  ASSUME NEW s \in Seq(Frames), NEW n, NEW av, NEW tk, HoldsFrom(s, n, av, tk),
         n + 1 \in 1 .. Len(s), Len(av) >= FrameLen(s[n + 1])
  PROVE  /\ SubSeq(av, HeaderLen(s[n + 1]) + 1, FrameLen(s[n + 1])) = FramePayload(s, n + 1)
         /\ HoldsFrom(s, n + 1, SubSeq(av, FrameLen(s[n + 1]) + 1, Len(av)), tk)
<1> HIDE DEF ByteNames
<1>1. /\ av \in Seq(ByteNames) /\ n \in Nat /\ tk \in Nat /\ EndIn(s, n) \in Nat
      /\ Len(av) = tk - EndIn(s, n) /\ IsPart(av, WireOf(s), EndIn(s, n), tk)
  BY HoldsAhead
<1>2. PICK m \in 1 .. Len(s) : m = n + 1 /\ m - 1 = n
  BY <1>1
<1>3. PICK f \in Frames : f = s[m]
  OBVIOUS
<1>4. PICK h \in Nat, l \in Nat : h = HeaderLen(f) /\ l = FrameLen(f) /\ h <= l
  <2>1. HeaderLen(f) \in Nat /\ FrameLen(f) \in Nat /\ FrameLen(f) = HeaderLen(f) + f.len /\ f.len \in Nat
    BY FrameFacts, Zenon
  <2>2. PICK p \in Nat, q \in Nat : p = HeaderLen(f) /\ q = f.len
    BY <2>1
  <2>3. p + q \in Nat /\ p <= p + q
    OBVIOUS
  <2> QED BY <2>1, <2>2, <2>3
<1>5. PICK e \in Nat, w \in Seq(ByteNames) :
        e = EndIn(s, n) /\ w = WireOf(s) /\ EndIn(s, m) = e + l /\ e <= tk /\ tk <= Len(w)
        /\ tk \in 0 .. Len(w) /\ av = SubSeq(w, e + 1, tk)
  <2>1. /\ WireOf(s) \in Seq(ByteNames)
        /\ \A k \in 1 .. Len(s) : EndIn(s, k) = EndIn(s, k - 1) + FrameLen(s[k])
    BY WireFacts
  <2>2. EndIn(s, m) = EndIn(s, n) + l
    BY <1>2, <1>3, <1>4, <2>1
  <2>3. tk \in 0 .. Len(WireOf(s)) /\ EndIn(s, n) <= tk /\ av = SubSeq(WireOf(s), EndIn(s, n) + 1, tk)
    BY DEF HoldsFrom
  <2>4. tk <= Len(WireOf(s))
    BY <2>1, <2>3
  <2> QED BY <1>1, <2>1, <2>2, <2>3, <2>4
<1>6. Len(av) = tk - e /\ l <= Len(av) /\ e + l <= tk
  <2>1. Len(av) = tk - e /\ Len(av) >= l
    BY <1>1, <1>2, <1>3, <1>4, <1>5
  <2>2. PICK u \in Nat : u = tk
    BY <1>1
  <2>3. u - e >= l
    BY <2>1, <2>2
  <2>4. e + l <= u /\ l <= u - e
    BY <2>3
  <2> QED BY <2>1, <2>2, <2>4
<1>7. PICK b \in Seq(ByteNames) : b = FrameBytes(s, m) /\ Len(b) = l
  BY <1>3, <1>4, FrameBytesFacts
<1>8. \A k \in 1 .. l : av[k] = b[k]
  <2> SUFFICES ASSUME NEW k \in 1 .. l PROVE av[k] = b[k]
    OBVIOUS
  <2>1. k \in 1 .. tk - e
    BY <1>6
  <2>2. av[k] = w[e + k]
    BY <1>1, <1>5, <2>1 DEF IsPart
  <2>3. k \in 1 .. FrameLen(s[m])
    BY <1>3, <1>4
  <2>4. WireOf(s)[EndIn(s, m - 1) + k] = <<m, k>>
    BY <2>3, WireByte
  <2>5. b[k] = <<m, k>>
    BY <1>7, <2>3 DEF FrameBytes
  <2> QED BY <1>2, <1>5, <2>2, <2>4, <2>5
<1>9. AtFront(b, av)
  BY <1>6, <1>7, <1>8 DEF AtFront
<1>10. SubSeq(av, h + 1, l) = SubSeq(b, h + 1, l)
  <2>1. l <= Len(b) /\ b \in Seq(ByteNames)
    BY <1>4, <1>7
  <2>2. h \in Nat /\ l \in Nat /\ h <= l
    BY <1>4
  <2>3. av \in Seq(ByteNames)
    BY <1>1
  <2> QED BY <1>9, <2>1, <2>2, <2>3, PartOfFront
<1>11. SubSeq(av, h + 1, l) = FramePayload(s, m)
  BY <1>3, <1>4, <1>7, <1>10 DEF FramePayload
<1>12. SubSeq(av, l + 1, Len(av)) = SubSeq(w, (e + l) + 1, tk)
  <2>1. SubSeq(SubSeq(w, e + 1, tk), l + 1, tk - e) = SubSeq(w, (e + l) + 1, tk)
    <3>1. e \in Nat /\ tk \in Nat /\ l \in Nat /\ w \in Seq(ByteNames)
      BY <1>1, <1>4, <1>5
    <3>2. e <= tk /\ tk <= Len(w) /\ e + l <= tk
      BY <1>5, <1>6
    <3> QED BY <3>1, <3>2, PartOfPart
  <2> QED BY <1>5, <1>6, <2>1
<1>13. HoldsFrom(s, m, SubSeq(av, l + 1, Len(av)), tk)
  <2>1. m \in 0 .. Len(s)
    OBVIOUS
  <2> QED BY <1>5, <1>6, <1>12, <2>1 DEF HoldsFrom
<1> QED BY <1>2, <1>3, <1>4, <1>11, <1>13

(* What the reader has done stays right when the server sends more. *)
LEMMA ReadingGrows ==
  ASSUME NEW s \in Seq(Frames), NEW f \in Frames, NEW t, t = Append(s, f),
         NEW n \in 0 .. Len(s), NEW av, NEW tk, NEW ev, NEW fr, NEW ms,
         Reading(s, n, av, tk, ev, fr, ms)
  PROVE  n \in 0 .. Len(t) /\ Reading(t, n, av, tk, ev, fr, ms) /\ (LacksFrame(s, n, tk) => LacksFrame(t, n, tk))
<1> HIDE DEF ByteNames
<1>1. /\ t \in Seq(Frames) /\ Len(t) = Len(s) + 1 /\ Len(s) \in Nat
      /\ \A i \in 1 .. Len(s) : t[i] = s[i]
      /\ \A m \in 0 .. Len(s) : EndIn(t, m) = EndIn(s, m)
      /\ AtFront(WireOf(s), WireOf(t))
  <2>1. Len(s) \in Nat
    OBVIOUS
  <2> QED BY <2>1, WireGrows
<1>2. Extends(t, s)
  BY <1>1 DEF Extends
<1>3. HoldsFrom(s, n, av, tk) /\ Clean(s, n) /\ ev = EventsUpTo(s, n) /\ Assembles(s, n, fr, ms)
  BY DEF Reading
<1>4. ev = EventsUpTo(t, n) /\ Clean(t, n)
  BY <1>2, <1>3, EventsSame
<1>5. Assembles(t, n, fr, ms)
  <2>1. /\ FirstOf(t, n) = FirstOf(s, n) /\ InMessage(t, n + 1) = InMessage(s, n + 1)
        /\ PayloadsUpTo(t, n) = PayloadsUpTo(s, n)
    BY <1>2, SameMessages
  <2>2. InMessage(s, n + 1) => FirstOf(s, n) \in 1 .. n
    BY <1>3, FirstIsThere
  <2>3. InMessage(s, n + 1) => t[FirstOf(s, n)] = s[FirstOf(s, n)]
    BY <1>1, <2>2
  <2> QED BY <1>3, <2>1, <2>3 DEF Assembles
<1>6. HoldsFrom(t, n, av, tk)
  <2>1. /\ tk \in 0 .. Len(WireOf(s)) /\ EndIn(s, n) <= tk /\ av = SubSeq(WireOf(s), EndIn(s, n) + 1, tk)
    BY <1>3 DEF HoldsFrom
  <2>2. PICK v \in Seq(ByteNames), w \in Seq(ByteNames), e \in Nat :
          v = WireOf(t) /\ w = WireOf(s) /\ e = EndIn(s, n) /\ AtFront(w, v)
    BY <1>1, WireFacts
  <2>3. tk \in Nat /\ tk <= Len(w) /\ e <= tk
    BY <2>1, <2>2
  <2>4. SubSeq(v, e + 1, tk) = SubSeq(w, e + 1, tk) /\ tk <= Len(v)
    <3>1. PICK u \in Nat : u = tk
      BY <2>3
    <3>2. e <= u /\ u <= Len(w) /\ AtFront(w, v)
      BY <2>2, <2>3, <3>1
    <3>3. SubSeq(v, e + 1, u) = SubSeq(w, e + 1, u) /\ u <= Len(v)
      BY <3>2, PartOfFront
    <3> QED BY <3>1, <3>3
  <2>5. tk \in 0 .. Len(v) /\ n \in 0 .. Len(t)
    BY <1>1, <2>3, <2>4
  <2>6. EndIn(t, n) = e
    BY <1>1, <2>2
  <2> QED BY <2>1, <2>2, <2>3, <2>4, <2>5, <2>6 DEF HoldsFrom
<1>7. ASSUME LacksFrame(s, n, tk) PROVE LacksFrame(t, n, tk)
  <2>1. EndIn(t, n) = EndIn(s, n)
    BY <1>1
  <2>2. CASE n < Len(s)
    <3>1. n + 1 \in 1 .. Len(s)
      BY <2>2
    <3> QED BY <1>1, <1>7, <2>1, <2>2, <3>1 DEF LacksFrame
  <2>3. CASE ~(n < Len(s))
    <3>1. n = Len(s) /\ n + 1 \in 1 .. Len(t)
      BY <1>1, <2>3
    <3>2. tk - EndIn(s, n) = 0
      BY <1>3, <3>1, HoldsAhead
    <3>3. t[n + 1] \in Frames
      BY <1>1, <3>1
    <3>4. FrameLen(t[n + 1]) \in Nat /\ FrameLen(t[n + 1]) >= 2
      BY <3>3, FrameFacts
    <3> QED BY <2>1, <3>2, <3>4 DEF LacksFrame
  <2> QED BY <2>2, <2>3
<1>8. n \in 0 .. Len(t)
  BY <1>1
<1> QED BY <1>3, <1>4, <1>5, <1>6, <1>7, <1>8 DEF Reading

(* A connection that ended stays as it is while the server sends more. *)
LEMMA EndedGrows ==
  ASSUME NEW s \in Seq(Frames), NEW f \in Frames, NEW t, t = Append(s, f),
         NEW n \in 0 .. Len(s), NEW ev, NEW wh, NEW pr, pr # "closed", Ended(s, n, ev, wh, pr)
  PROVE  n \in 0 .. Len(t) /\ Ended(t, n, ev, wh, pr)
<1>1. /\ t \in Seq(Frames) /\ Len(t) = Len(s) + 1 /\ Len(s) \in Nat
      /\ \A i \in 1 .. Len(s) : t[i] = s[i]
  BY WireGrows
<1>2. Extends(t, s)
  BY <1>1 DEF Extends
<1>3. EventsUpTo(t, n) = EventsUpTo(s, n) /\ Clean(t, n) = Clean(s, n)
  BY <1>2, EventsSame
<1>4. n < Len(s) => IsError(t, n + 1) = IsError(s, n + 1)
  <2>1. ASSUME n < Len(s) PROVE n + 1 \in 1 .. Len(s)
    BY <2>1
  <2> QED BY <1>2, <2>1, SameVerdicts
<1>5. n > 0 => Clean(t, n - 1) = Clean(s, n - 1) /\ EndsConnection(t, n) = EndsConnection(s, n)
  <2>1. ASSUME n > 0 PROVE n - 1 \in 0 .. Len(s) /\ n \in 1 .. Len(s)
    BY <2>1
  <2> QED BY <1>2, <2>1, EventsSame, SameVerdicts
<1>6. n \in 0 .. Len(t) /\ (n < Len(s) => n < Len(t))
  BY <1>1
<1> QED BY <1>3, <1>4, <1>5, <1>6 DEF Ended

(* What an ended connection has delivered. *)
LEMMA EndedMeans ==
  ASSUME NEW s \in Seq(Frames), NEW n \in 0 .. Len(s), NEW ev, NEW wh, NEW pr, Ended(s, n, ev, wh, pr)
  PROVE  /\ wh = "closed" => ev = EventsUpTo(s, Len(s)) /\ \A i \in Meant(s) : ~ EndsConnection(s, i)
         /\ wh = "protocol" => ev = EventsUpTo(s, Len(s)) /\ \E i \in Meant(s) : IsError(s, i)
         /\ wh = "close" => ev = EventsUpTo(s, Len(s)) /\ Last(ev).op = "close"
<1>0. ev = EventsUpTo(s, n) /\ Len(s) \in Nat
  BY DEF Ended
<1>1. ASSUME wh = "closed"
      PROVE  ev = EventsUpTo(s, Len(s)) /\ \A i \in Meant(s) : ~ EndsConnection(s, i)
  BY <1>0, <1>1 DEF Ended, Clean, Meant
<1>2. ASSUME wh = "protocol" PROVE ev = EventsUpTo(s, Len(s)) /\ \E i \in Meant(s) : IsError(s, i)
  <2>1. n + 1 \in 1 .. Len(s) /\ (n + 1) - 1 = n /\ Clean(s, n) /\ IsError(s, n + 1)
    BY <1>0, <1>2 DEF Ended
  <2>2. n + 1 \in Meant(s)
    BY <2>1 DEF Meant, Clean
  <2>3. ASSUME NEW i \in n + 1 .. Len(s) PROVE i \notin Giving(s)
    <3>1. i \in 1 .. Len(s)
      OBVIOUS
    <3>2. CASE i = n + 1
      BY <2>1, <3>2 DEF Giving, Completes
    <3>3. CASE i # n + 1
      <4>1. n + 1 \in 1 .. i - 1
        BY <3>3
      <4>2. ~ Clean(s, i - 1)
        BY <2>1, <4>1 DEF Clean, EndsConnection
      <4> QED BY <3>1, <4>2, GivingIs
    <3> QED BY <3>2, <3>3
  <2>4. EventsUpTo(s, Len(s)) = EventsUpTo(s, n)
    BY <2>3, EventsFacts
  <2> QED BY <1>0, <2>1, <2>2, <2>4
<1>3. ASSUME wh = "close" PROVE ev = EventsUpTo(s, Len(s)) /\ Last(ev).op = "close"
  <2>1. EndsConnection(s, n) /\ Last(ev).op = "close" /\ n > 0
    BY <1>3 DEF Ended
  <2>2. ASSUME NEW i \in n + 1 .. Len(s) PROVE i \notin Giving(s)
    <3>1. i \in 1 .. Len(s) /\ n \in 1 .. i - 1
      BY <2>1
    <3>2. ~ Clean(s, i - 1)
      BY <2>1, <3>1 DEF Clean
    <3> QED BY <3>1, <3>2, GivingIs
  <2>3. EventsUpTo(s, Len(s)) = EventsUpTo(s, n)
    BY <2>2, EventsFacts
  <2> QED BY <1>0, <2>1, <2>3
<1> QED BY <1>1, <1>2, <1>3

-----------------------------------------------------------------------------
(* The frame at the front. *)

(* Nothing held: no frame.  Otherwise the reader looks at frame n + 1. *)
LEMMA LooksAtNext ==
  ASSUME WsTypes, NEW n \in 0 .. Len(sent), HoldsFrom(sent, n, Available, taken), Len(Available) >= 2
  PROVE  /\ n + 1 \in 1 .. Len(sent) /\ sent[n + 1] \in Frames
         /\ AtFrame /\ NextFrame = sent[n + 1]
<1>1. sent \in Seq(Frames)
  BY DEF WsTypes
<1>2. Available \in Seq(ByteNames) /\ Len(Available) > 0
      /\ (Len(Available) > 0 => n + 1 \in 1 .. Len(sent) /\ Available[1] = <<n + 1, 1>>)
  <2>1. Available \in Seq(ByteNames)
    BY <1>1, HoldsAhead
  <2>2. Len(Available) \in Nat
    BY <2>1
  <2>3. Len(Available) > 0
    BY <2>2
  <2> QED BY <1>1, <2>1, <2>3, HoldsAhead
<1>3. Available[1][1] = n + 1 /\ Available[1][2] = 1
  BY <1>2
<1> QED BY <1>1, <1>2, <1>3 DEF AtFrame, NextFrame

(* What a frame that is taken is. *)
LEMMA FrameThere ==
  ASSUME WsTypes, HasFrame, NEW n \in 0 .. Len(sent), HoldsFrom(sent, n, Available, taken)
  PROVE  /\ n + 1 \in 1 .. Len(sent) /\ sent[n + 1] \in Frames /\ NextFrame = sent[n + 1]
         /\ Available \in Seq(ByteNames) /\ Len(Available) >= FrameLen(sent[n + 1])
         /\ sent[n + 1].flaw = "none" /\ sent[n + 1].len <= MaxFrame
         /\ sent[n + 1].op \in Control => sent[n + 1].fin /\ sent[n + 1].len < Short
         /\ Payload = FramePayload(sent, n + 1)
<1>1. sent \in Seq(Frames)
  BY DEF WsTypes
<1>2. Available \in Seq(ByteNames) /\ Len(Available) \in Nat
  <2>1. Available \in Seq(ByteNames)
    BY <1>1, HoldsAhead
  <2> QED BY <2>1
<1>3. ~ BadHeader /\ Len(Available) >= 2 /\ ~(Len(Available) < FrameLen(NextFrame))
  BY DEF HasFrame, NeedsMore
<1>4. n + 1 \in 1 .. Len(sent) /\ sent[n + 1] \in Frames /\ AtFrame /\ NextFrame = sent[n + 1]
  BY <1>3, LooksAtNext
<1>5. PICK f \in Frames : f = sent[n + 1]
  BY <1>4
<1>6. /\ HeaderLen(f) \in Nat /\ FrameLen(f) \in Nat /\ FrameLen(f) = HeaderLen(f) + f.len /\ f.len \in Nat
      /\ f.flaw \in {"none", "bits", "length"}
  BY FrameFacts
<1>7. Len(Available) >= FrameLen(f) /\ Len(Available) >= HeaderLen(f)
  BY <1>2, <1>3, <1>4, <1>5, <1>6
<1>8. /\ f.flaw # "bits" /\ f.flaw # "length" /\ ~(f.len > MaxFrame)
      /\ f.op \in Control => f.fin /\ ~(f.len >= Short)
  BY <1>3, <1>4, <1>5, <1>7 DEF BadHeader
<1>9. MaxFrame \in Nat /\ Short \in Nat
  BY ConfigAssumption
<1>10. f.flaw = "none" /\ f.len <= MaxFrame /\ (f.op \in Control => f.fin /\ f.len < Short)
  BY <1>6, <1>8, <1>9
<1>11. Payload = FramePayload(sent, n + 1)
  BY <1>1, <1>4, <1>5, <1>7, HoldsFrame DEF Payload
<1> QED BY <1>2, <1>4, <1>5, <1>7, <1>10, <1>11

(* Consuming a frame leaves the bytes after it. *)
LEMMA ConsumeFacts ==
  ASSUME WsTypes, HasFrame, NEW n \in 0 .. Len(sent), HoldsFrom(sent, n, Available, taken), Consume
  PROVE  /\ sent' = sent /\ peer' = peer /\ taken' = taken /\ buf' = buf
         /\ start' \in 0 .. Len(buf)
         /\ HoldsFrom(sent, n + 1, Available', taken)
<1>1. /\ n + 1 \in 1 .. Len(sent) /\ sent[n + 1] \in Frames /\ NextFrame = sent[n + 1]
      /\ Available \in Seq(ByteNames) /\ Len(Available) >= FrameLen(sent[n + 1])
  BY FrameThere
<1>2. PICK l \in Nat : l = FrameLen(sent[n + 1])
  BY <1>1, FrameFacts
<1>3. sent' = sent /\ peer' = peer /\ taken' = taken /\ buf' = buf /\ start' = start + l
  BY <1>1, <1>2 DEF Consume, server
<1>4. sent \in Seq(Frames) /\ start \in Nat /\ start <= Len(buf) /\ Len(buf) \in Nat /\ buf \in Seq(ByteNames)
  <2>1. sent \in Seq(Frames) /\ start \in 0 .. Len(buf) /\ buf \in Seq(ByteNames)
    BY DEF WsTypes
  <2>2. Len(buf) \in Nat
    BY <2>1
  <2> QED BY <2>1, <2>2
<1> HIDE DEF ByteNames
<1>5. Len(Available) = Len(buf) - start
  <2>1. Len(buf) <= Len(buf)
    BY <1>4
  <2>2. IsPart(Available, buf, start, Len(buf))
    BY <1>4, <2>1, PartIs DEF Available
  <2> QED BY <2>2 DEF IsPart
<1>6. start + l <= Len(buf) /\ start + l \in 0 .. Len(buf)
  BY <1>1, <1>2, <1>4, <1>5
<1>7. Available' = SubSeq(buf, (start + l) + 1, Len(buf))
  BY <1>3 DEF Available
<1>8. SubSeq(SubSeq(buf, start + 1, Len(buf)), l + 1, Len(buf) - start) = SubSeq(buf, (start + l) + 1, Len(buf))
  <2>1. Len(buf) <= Len(buf)
    BY <1>4
  <2> QED BY <1>4, <1>6, <2>1, PartOfPart
<1>9. Available' = SubSeq(Available, l + 1, Len(Available))
  BY <1>5, <1>7, <1>8 DEF Available
<1>10. HoldsFrom(sent, n + 1, SubSeq(Available, l + 1, Len(Available)), taken)
  BY <1>1, <1>2, <1>4, HoldsFrame
<1> QED BY <1>3, <1>6, <1>9, <1>10

(* Types of what a step changes after it consumed a frame. *)
Outcome(fr, ms, ev, p, q, wh) ==
  /\ q \in {"connect", "drain", "pong", "fill", "ended"}
  /\ wh \in {"", "reply", "protocol", "close", "closed", "dropped"}
  /\ fr \in {"", "text", "binary"}
  /\ ms \in Seq(ByteNames) /\ Len(ms) <= MaxMessage
  /\ ev \in Seq(WsEvents) /\ p \in Seq(Seq(ByteNames))

(* While the connection is read. *)
LEMMA InProgress ==
  ASSUME WsInv, pc \in {"drain", "pong", "fill"}
  PROVE  /\ WsTypes /\ why = ""
         /\ \E n \in 0 .. Len(sent) :
              /\ Reading(sent, n, Available, taken, events, fragment, message)
              /\ pc = "fill" => LacksFrame(sent, n, taken)
BY DEF WsInv, Progress

(* The reader is about to take frame m. *)
Facing(m) ==
  /\ m \in 1 .. Len(sent) /\ sent \in Seq(Frames)
  /\ HoldsFrom(sent, m - 1, Available, taken) /\ Clean(sent, m - 1)
  /\ events = EventsUpTo(sent, m - 1) /\ events \in Seq(WsEvents)
  /\ Assembles(sent, m - 1, fragment, message)
  /\ sent[m] \in Frames /\ NextFrame = sent[m]
  /\ sent[m].flaw = "none" /\ sent[m].len <= MaxFrame
  /\ sent[m].op \in Control => sent[m].fin /\ sent[m].len < Short
  /\ Payload = FramePayload(sent, m)

(* A reader that holds a whole frame with a good header is about to take it. *)
LEMMA FacesFrame ==
  ASSUME WsInv, HasFrame
  PROVE  WsTypes /\ why = "" /\ pc = "drain" /\ \E m \in 1 .. Len(sent) : Facing(m)
<1>1. pc = "drain"
  BY DEF HasFrame
<1>2. WsTypes /\ why = "" /\ sent \in Seq(Frames) /\ events \in Seq(WsEvents)
  BY <1>1, InProgress DEF WsTypes
<1>3. PICK n \in 0 .. Len(sent) : Reading(sent, n, Available, taken, events, fragment, message)
  BY <1>1, InProgress
<1>4. HoldsFrom(sent, n, Available, taken) /\ Clean(sent, n) /\ events = EventsUpTo(sent, n)
      /\ Assembles(sent, n, fragment, message)
  BY <1>3 DEF Reading
<1>5. PICK m \in 1 .. Len(sent) : m = n + 1 /\ m - 1 = n
  <2>1. n + 1 \in 1 .. Len(sent)
    BY <1>2, <1>4, FrameThere
  <2>2. (n + 1) - 1 = n
    OBVIOUS
  <2> QED BY <2>1, <2>2
<1>6. /\ sent[m] \in Frames /\ NextFrame = sent[m]
      /\ sent[m].flaw = "none" /\ sent[m].len <= MaxFrame
      /\ sent[m].op \in Control => sent[m].fin /\ sent[m].len < Short
      /\ Payload = FramePayload(sent, m)
  BY <1>2, <1>4, <1>5, FrameThere
<1>7. Facing(m)
  BY <1>2, <1>4, <1>5, <1>6 DEF Facing
<1> QED BY <1>1, <1>2, <1>7

(* The invariant after a frame that does not end the connection. *)
LEMMA GoesOn ==
  ASSUME WsInv, HasFrame, NEW m \in 1 .. Len(sent), Facing(m), Consume,
         Outcome(fragment', message', events', pongs', pc', why'),
         ~ EndsConnection(sent, m),
         events' = EventsUpTo(sent, m),
         Assembles(sent, m, fragment', message'),
         pc' \in {"drain", "pong"}, why' = why, Answers(pongs', events', pc')
  PROVE  WsInv'
<1>1. WsTypes /\ why = ""
  BY FacesFrame
<1>2. HoldsFrom(sent, m - 1, Available, taken) /\ Clean(sent, m - 1) /\ m - 1 \in 0 .. Len(sent) /\ (m - 1) + 1 = m
  BY DEF Facing
<1>3. /\ sent' = sent /\ peer' = peer /\ taken' = taken /\ buf' = buf
      /\ start' \in 0 .. Len(buf)
      /\ HoldsFrom(sent, m, Available', taken)
  BY <1>1, <1>2, ConsumeFacts
<1>4. WsTypes'
  BY <1>1, <1>3 DEF WsTypes, Outcome, Wire
<1>5. Clean(sent, m)
  <2>1. \A j \in 1 .. m : j \in 1 .. m - 1 \/ j = m
    OBVIOUS
  <2> QED BY <1>2, <2>1 DEF Clean
<1>6. m \in 0 .. Len(sent)
  BY <1>3 DEF HoldsFrom
<1>7. Reading(sent', m, Available', taken', events', fragment', message')
  BY <1>3, <1>5 DEF Reading
<1>8. Progress'
  BY <1>1, <1>3, <1>6, <1>7 DEF Progress
<1> QED BY <1>4, <1>8 DEF WsInv

(* The invariant after the end. *)
LEMMA ComesToAnEnd ==
  ASSUME WsTypes', NEW m \in 0 .. Len(sent'), Ended(sent', m, events', why', peer'),
         pc' = "ended", IsPrefix(pongs', PingPayloads(events'))
  PROVE  WsInv'
<1>1. Progress'
  BY DEF Progress
<1>2. Answers(pongs', events', pc')
  BY DEF Answers
<1> QED BY <1>1, <1>2 DEF WsInv

(* A sequence begins with itself, and so does one that has an item more. *)
LEMMA BeginsWithItself ==
  ASSUME NEW U, NEW x \in Seq(U), NEW e \in U
  PROVE  IsPrefix(x, Append(x, e))
<1>1. Append(x, e) \in Seq(U) /\ Len(x) <= Len(Append(x, e)) /\ \A i \in 1 .. Len(x) : x[i] = Append(x, e)[i]
  OBVIOUS
<1> QED BY <1>1, PrefixItems

(* A sequence begins with itself. *)
LEMMA PrefixOfItself ==
  ASSUME NEW U, NEW x \in Seq(U)
  PROVE  IsPrefix(x, x)
<1>1. Len(x) <= Len(x) /\ \A i \in 1 .. Len(x) : x[i] = x[i]
  OBVIOUS
<1> QED BY <1>1, PrefixItems

(* What the session knows of the events and the pongs. *)
LEMMA SessionFacts ==
  ASSUME WsTypes, Answers(pongs, events, pc)
  PROVE  /\ events \in Seq(WsEvents) /\ pongs \in Seq(Seq(ByteNames))
         /\ pc \in {"connect", "drain", "fill"} => pongs = PingPayloads(events)
         /\ IsPrefix(pongs, PingPayloads(events))
<1>1. /\ events \in Seq(WsEvents) /\ pongs \in Seq(Seq(ByteNames))
      /\ pc \in {"connect", "drain", "pong", "fill", "ended"}
  BY DEF WsTypes
<1> HIDE DEF ByteNames
<1>2. CASE pc \in {"connect", "drain", "fill"}
  <2>1. pongs = PingPayloads(events)
    BY <1>2 DEF Answers
  <2>2. IsPrefix(pongs, pongs)
    BY <1>1, PrefixOfItself
  <2> QED BY <1>1, <2>1, <2>2
<1>3. CASE pc = "pong"
  <2>1. events # <<>> /\ PingPayloads(events) = Append(pongs, Last(events).payload)
    BY <1>3 DEF Answers
  <2>2. Last(events) \in WsEvents
    <3>1. Len(events) \in Nat /\ Len(events) # 0
      BY <1>1, <2>1
    <3>2. Len(events) \in 1 .. Len(events)
      BY <3>1
    <3> QED BY <1>1, <3>2 DEF Last
  <2>3. Last(events).payload \in Seq(ByteNames)
    BY <2>2 DEF WsEvents
  <2>4. IsPrefix(pongs, Append(pongs, Last(events).payload))
    BY <1>1, <2>3, BeginsWithItself
  <2> QED BY <1>1, <1>3, <2>1, <2>4
<1>4. CASE pc = "ended"
  BY <1>1, <1>4 DEF Answers
<1> QED BY <1>1, <1>2, <1>3, <1>4

(* One more event. *)
LEMMA OneEventMore ==
  ASSUME NEW e \in Seq(WsEvents), NEW x \in WsEvents
  PROVE  Append(e, x) \in Seq(WsEvents) /\ Append(e, x) # <<>> /\ Last(Append(e, x)) = x
<1>1. Append(e, x) \in Seq(WsEvents) /\ Len(Append(e, x)) = Len(e) + 1 /\ Append(e, x)[Len(e) + 1] = x
      /\ Len(e) \in Nat
  OBVIOUS
<1>2. Append(e, x) # <<>>
  BY <1>1
<1> QED BY <1>1, <1>2 DEF Last

-----------------------------------------------------------------------------
(* The steps. *)

(* A control frame between the fragments of a message leaves the message alone. *)
LEMMA PingOrPongStep == WsInv /\ PingOrPong => WsInv'
<1> SUFFICES ASSUME WsInv, PingOrPong PROVE WsInv'
  OBVIOUS
<1> HIDE DEF ByteNames
<1>1. HasFrame /\ pc = "drain" /\ Consume
  BY DEF PingOrPong, HasFrame
<1>2. PICK m \in 1 .. Len(sent) : Facing(m)
  BY <1>1, FacesFrame
<1>3. WsTypes /\ why = "" /\ Answers(pongs, events, pc) /\ sent \in Seq(Frames)
  BY <1>1, FacesFrame DEF WsInv, WsTypes
<1>4. /\ HoldsFrom(sent, m - 1, Available, taken) /\ Clean(sent, m - 1)
      /\ events = EventsUpTo(sent, m - 1) /\ Assembles(sent, m - 1, fragment, message)
      /\ (m - 1) + 1 = m
  BY <1>2 DEF Facing
<1>6. PICK f \in Frames : /\ f = sent[m] /\ NextFrame = f /\ f.flaw = "none" /\ f.len <= MaxFrame
                          /\ f.op \in Control => f.fin /\ f.len < Short
                          /\ Payload = FramePayload(sent, m)
  BY <1>2 DEF Facing
<1>7. f.op \in {"ping", "pong"} /\ f.op \in Control /\ f.op # "close" /\ f.op # "continuation"
      /\ f.op \notin {"text", "binary"} /\ f.len \in Nat /\ MaxFrame \in Nat /\ Short \in Nat
  BY <1>6, FrameFacts, ConfigAssumption DEF PingOrPong, Control
<1>8. ~ IsError(sent, m)
  BY <1>6, <1>7 DEF IsError
<1>9. ~ EndsConnection(sent, m) /\ Completes(sent, m)
  BY <1>6, <1>7, <1>8 DEF EndsConnection, Completes
<1>10. EventOf(sent, m) = [op |-> f.op, payload |-> Payload]
  BY <1>6, <1>7 DEF EventOf
<1>11. EventOf(sent, m) \in WsEvents
  BY <1>3, <1>4, <1>9, EventFacts
<1>12. events' = Append(events, EventOf(sent, m)) /\ UNCHANGED <<why, fragment, message, pongs>>
       /\ pc' = IF f.op = "ping" THEN "pong" ELSE "drain"
  BY <1>6, <1>10 DEF PingOrPong, Deliver
<1>13. EventsUpTo(sent, m) = Append(events, EventOf(sent, m))
  BY <1>3, <1>4, <1>9, EventsStep
<1>14. Assembles(sent, m, fragment', message')
  <2>1. InMessage(sent, m + 1) = InMessage(sent, m)
    BY <1>3, <1>6, <1>7, InMessageStep
  <2>2. FirstOf(sent, m) = FirstOf(sent, m - 1) /\ PayloadsUpTo(sent, m) = PayloadsUpTo(sent, m - 1)
    BY <1>3, <1>6, <1>7, FirstStep, PayloadsStep
  <2> QED BY <1>4, <1>12, <2>1, <2>2 DEF Assembles
<1>15. events \in Seq(WsEvents) /\ pongs = PingPayloads(events) /\ pongs \in Seq(Seq(ByteNames))
  BY <1>1, <1>3, SessionFacts
<1>16. events' \in Seq(WsEvents) /\ events' # <<>> /\ Last(events') = EventOf(sent, m)
  BY <1>11, <1>12, <1>15, OneEventMore
<1>17. PingPayloads(events') = IF f.op = "ping" THEN Append(pongs, EventOf(sent, m).payload) ELSE pongs
  <2>1. EventOf(sent, m).op = f.op
    BY <1>10
  <2> QED BY <1>11, <1>12, <1>15, <2>1, PingsStep
<1>18. Answers(pongs', events', pc')
  BY <1>12, <1>16, <1>17 DEF Answers
<1>19. Outcome(fragment', message', events', pongs', pc', why')
  BY <1>3, <1>12, <1>15, <1>16 DEF Outcome, WsTypes
<1>20. pc' \in {"drain", "pong"}
  BY <1>12
<1> QED BY <1>1, <1>2, <1>9, <1>12, <1>13, <1>14, <1>18, <1>19, <1>20, GoesOn

(* A message in one frame is delivered as it is. *)
LEMMA WholeStep == WsInv /\ Whole => WsInv'
<1> SUFFICES ASSUME WsInv, Whole PROVE WsInv'
  OBVIOUS
<1> HIDE DEF ByteNames
<1>1. HasFrame /\ Consume /\ fragment = ""
  BY DEF Whole
<1>2. PICK m \in 1 .. Len(sent) : Facing(m)
  BY <1>1, FacesFrame
<1>3. WsTypes /\ why = "" /\ pc = "drain" /\ Answers(pongs, events, pc) /\ sent \in Seq(Frames)
  BY <1>1, FacesFrame DEF WsInv, WsTypes
<1>4. /\ Clean(sent, m - 1)
      /\ events = EventsUpTo(sent, m - 1) /\ Assembles(sent, m - 1, fragment, message)
      /\ (m - 1) + 1 = m
  BY <1>2 DEF Facing
<1>6. PICK f \in Frames : /\ f = sent[m] /\ NextFrame = f /\ f.flaw = "none" /\ f.len <= MaxFrame
                          /\ Payload = FramePayload(sent, m)
  BY <1>2 DEF Facing
<1>7. f.op \in {"text", "binary"} /\ f.fin /\ f.op \notin Control /\ f.op # "close" /\ f.op # "continuation"
      /\ f.len \in Nat /\ MaxFrame \in Nat
  BY <1>6, FrameFacts, ConfigAssumption DEF Whole, Control
<1>8. ~ InMessage(sent, m)
  BY <1>1, <1>4 DEF Assembles
<1>9. ~ IsError(sent, m)
  BY <1>6, <1>7, <1>8 DEF IsError
<1>10. ~ EndsConnection(sent, m) /\ Completes(sent, m)
  BY <1>6, <1>7, <1>9 DEF EndsConnection, Completes
<1>11. FirstOf(sent, m) = m /\ PayloadsUpTo(sent, m) = FramePayload(sent, m)
  BY <1>3, <1>6, <1>7, FirstStep, PayloadsStep
<1>12. EventOf(sent, m) = [op |-> f.op, payload |-> Payload]
  BY <1>6, <1>7, <1>11 DEF EventOf
<1>13. EventOf(sent, m) \in WsEvents
  BY <1>3, <1>4, <1>10, EventFacts
<1>14. events' = Append(events, EventOf(sent, m)) /\ UNCHANGED <<pc, why, fragment, message, pongs>>
  BY <1>6, <1>12 DEF Whole, Deliver
<1>15. EventsUpTo(sent, m) = Append(events, EventOf(sent, m))
  BY <1>3, <1>4, <1>10, EventsStep
<1>16. Assembles(sent, m, fragment', message')
  <2>1. InMessage(sent, m + 1) = (~ f.fin)
    BY <1>3, <1>6, <1>7, InMessageStep
  <2> QED BY <1>1, <1>7, <1>14, <2>1 DEF Assembles
<1>17. events \in Seq(WsEvents) /\ pongs = PingPayloads(events) /\ pongs \in Seq(Seq(ByteNames))
  BY <1>3, SessionFacts
<1>18. events' \in Seq(WsEvents)
  BY <1>13, <1>14, <1>17, OneEventMore
<1>19. PingPayloads(events') = pongs
  <2>1. EventOf(sent, m).op # "ping"
    BY <1>7, <1>12
  <2> QED BY <1>13, <1>14, <1>17, <2>1, PingsStep
<1>20. Answers(pongs', events', pc')
  BY <1>3, <1>14, <1>19 DEF Answers
<1>21. Outcome(fragment', message', events', pongs', pc', why')
  BY <1>3, <1>14, <1>17, <1>18 DEF Outcome, WsTypes
<1> QED BY <1>1, <1>2, <1>3, <1>10, <1>14, <1>15, <1>16, <1>20, <1>21, GoesOn

(* Consuming a frame, for a step that ends the connection. *)
LEMMA EndTypes ==
  ASSUME WsInv, HasFrame, Consume, NEW m \in 1 .. Len(sent), Facing(m),
         Outcome(fragment', message', events', pongs', pc', why')
  PROVE  WsTypes' /\ sent' = sent /\ peer' = peer
<1>1. WsTypes
  BY FacesFrame
<1>2. HoldsFrom(sent, m - 1, Available, taken) /\ m - 1 \in 0 .. Len(sent)
  BY DEF Facing
<1>3. /\ sent' = sent /\ peer' = peer /\ taken' = taken /\ buf' = buf
      /\ start' \in 0 .. Len(buf)
  BY <1>1, <1>2, ConsumeFacts
<1> QED BY <1>1, <1>3 DEF WsTypes, Outcome, Wire

(* Frame m - 1. *)
LEMMA OneBefore ==
  ASSUME NEW k \in Nat, NEW m \in 1 .. k
  PROVE  m - 1 \in 0 .. k /\ (m - 1) + 1 = m /\ m - 1 < k
OBVIOUS

Kept(fr, ms) == fr \in {"", "text", "binary"} /\ ms \in Seq(ByteNames) /\ Len(ms) <= MaxMessage

(* A frame that is an error ends the connection where it is. *)
LEMMA ErrorEnds ==
  ASSUME WsInv, HasFrame, Consume, NEW m \in 1 .. Len(sent), Facing(m), IsError(sent, m),
         pc' = "ended", why' = "protocol", UNCHANGED <<events, pongs>>,
         Kept(fragment', message')
  PROVE  WsInv'
<1> HIDE DEF ByteNames
<1>1. WsTypes /\ pc = "drain" /\ Answers(pongs, events, pc)
  BY FacesFrame DEF WsInv
<1>2. events \in Seq(WsEvents) /\ pongs \in Seq(Seq(ByteNames)) /\ IsPrefix(pongs, PingPayloads(events))
  BY <1>1, SessionFacts
<1>3. Outcome(fragment', message', events', pongs', pc', why')
  BY <1>2 DEF Outcome, Kept
<1>4. WsTypes' /\ sent' = sent /\ peer' = peer
  BY <1>3, EndTypes
<1>5. m - 1 \in 0 .. Len(sent) /\ (m - 1) + 1 = m /\ m - 1 < Len(sent)
  <2>1. sent \in Seq(Frames)
    BY <1>1 DEF WsTypes
  <2>2. Len(sent) \in Nat
    BY <2>1
  <2> QED BY <2>2, OneBefore
<1>6. Ended(sent', m - 1, events', why', peer')
  BY <1>4, <1>5 DEF Ended, Facing
<1> QED BY <1>2, <1>4, <1>5, <1>6, ComesToAnEnd

(* A close frame is the last event, and ends the connection. *)
LEMMA CloseStep == WsInv /\ Close => WsInv'
<1> SUFFICES ASSUME WsInv, Close PROVE WsInv'
  OBVIOUS
<1> HIDE DEF ByteNames
<1>1. HasFrame /\ Consume /\ UNCHANGED <<fragment, message, pongs>>
  BY DEF Close
<1>2. PICK m \in 1 .. Len(sent) : Facing(m)
  BY <1>1, FacesFrame
<1>3. WsTypes /\ why = "" /\ pc = "drain" /\ Answers(pongs, events, pc) /\ sent \in Seq(Frames)
  BY <1>1, FacesFrame DEF WsInv, WsTypes
<1>4. Clean(sent, m - 1) /\ events = EventsUpTo(sent, m - 1) /\ m \in 0 .. Len(sent) /\ m > 0
  BY <1>2 DEF Facing
<1>5. PICK f \in Frames : /\ f = sent[m] /\ NextFrame = f /\ f.flaw = "none" /\ f.len <= MaxFrame
                          /\ f.op \in Control => f.fin /\ f.len < Short
                          /\ Payload = FramePayload(sent, m)
  BY <1>2 DEF Facing
<1>6. f.op = "close" /\ f.op \in Control /\ f.op # "continuation"
      /\ f.op \notin {"text", "binary"} /\ f.len \in Nat /\ MaxFrame \in Nat /\ Short \in Nat
  BY <1>5, FrameFacts, ConfigAssumption DEF Close, Control
<1>7. Kept(fragment', message')
  BY <1>1, <1>3 DEF WsTypes, Kept
<1>8. CASE f.len = 1
  <2>1. pc' = "ended" /\ why' = "protocol" /\ UNCHANGED <<events, pongs>>
    BY <1>1, <1>5, <1>8 DEF Close, End
  <2>2. IsError(sent, m)
    BY <1>5, <1>6, <1>8 DEF IsError
  <2> QED BY <1>1, <1>2, <1>7, <2>1, <2>2, ErrorEnds
<1>9. CASE f.len # 1
  <2>1. ~ IsError(sent, m)
    BY <1>5, <1>6, <1>9 DEF IsError
  <2>2. EndsConnection(sent, m) /\ Completes(sent, m)
    BY <1>5, <1>6, <2>1 DEF EndsConnection, Completes
  <2>3. EventOf(sent, m) = [op |-> "close", payload |-> SubSeq(Payload, 3, f.len)]
    BY <1>5, <1>6 DEF EventOf
  <2>4. EventOf(sent, m) \in WsEvents
    BY <1>3, <1>4, <2>2, EventFacts
  <2>5. pc' = "ended" /\ why' = "close" /\ events' = Append(events, EventOf(sent, m))
    BY <1>5, <1>9, <2>3 DEF Close, End, Deliver
  <2>6. EventsUpTo(sent, m) = Append(events, EventOf(sent, m))
    BY <1>3, <1>4, <2>2, EventsStep
  <2>7. events \in Seq(WsEvents) /\ pongs = PingPayloads(events) /\ pongs \in Seq(Seq(ByteNames))
    BY <1>3, SessionFacts
  <2>8. events' \in Seq(WsEvents) /\ Last(events') = EventOf(sent, m)
    BY <2>4, <2>5, <2>7, OneEventMore
  <2>9. PingPayloads(events') = pongs
    <3>1. EventOf(sent, m).op # "ping"
      BY <2>3
    <3> QED BY <2>4, <2>5, <2>7, <3>1, PingsStep
  <2>10. Outcome(fragment', message', events', pongs', pc', why')
    BY <1>1, <1>7, <2>5, <2>7, <2>8 DEF Outcome, Kept
  <2>11. WsTypes' /\ sent' = sent /\ peer' = peer
    BY <1>1, <1>2, <2>10, EndTypes
  <2>12. Last(events').op = "close"
    BY <2>3, <2>8
  <2>13. Ended(sent', m, events', why', peer')
    BY <1>4, <2>2, <2>5, <2>6, <2>11, <2>12 DEF Ended
  <2>14. IsPrefix(pongs', PingPayloads(events'))
    <3>1. IsPrefix(pongs, pongs)
      BY <2>7, PrefixOfItself
    <3> QED BY <1>1, <2>9, <3>1
  <2> QED BY <1>4, <2>5, <2>11, <2>13, <2>14, ComesToAnEnd
<1> QED BY <1>8, <1>9

(* A fragment out of place is an error of the frame that is next. *)
LEMMA UnexpectedFragmentStep == WsInv /\ UnexpectedFragment => WsInv'
<1> SUFFICES ASSUME WsInv, UnexpectedFragment PROVE WsInv'
  OBVIOUS
<1> HIDE DEF ByteNames
<1>1. HasFrame /\ Consume /\ UNCHANGED <<fragment, message, events, pongs>> /\ pc' = "ended" /\ why' = "protocol"
  BY DEF UnexpectedFragment, End
<1>2. PICK m \in 1 .. Len(sent) : Facing(m)
  BY <1>1, FacesFrame
<1>3. WsTypes
  BY <1>1, FacesFrame
<1>4. Assembles(sent, m - 1, fragment, message) /\ (m - 1) + 1 = m /\ sent[m] \in Frames /\ NextFrame = sent[m]
  BY <1>2 DEF Facing
<1>5. sent[m].op \in {"text", "binary", "continuation", "close", "ping", "pong"}
  BY <1>4, FrameFacts
<1>6. sent[m].op \in {"text", "binary", "continuation"} /\ (sent[m].op = "continuation" <=> fragment = "")
  BY <1>4, <1>5 DEF UnexpectedFragment, Control
<1>7. fragment # "" <=> InMessage(sent, m)
  BY <1>4 DEF Assembles
<1>8. IsError(sent, m)
  BY <1>6, <1>7 DEF IsError
<1>9. Kept(fragment', message')
  BY <1>1, <1>3 DEF WsTypes, Kept
<1> QED BY <1>1, <1>2, <1>8, <1>9, ErrorEnds

(* A fragment is added to the message, delivered or refused as too long. *)
LEMMA FragmentStep == WsInv /\ Fragment => WsInv'
<1> SUFFICES ASSUME WsInv, Fragment PROVE WsInv'
  OBVIOUS
<1> HIDE DEF ByteNames
<1>1. HasFrame /\ Consume /\ UNCHANGED pongs
  BY DEF Fragment
<1>2. PICK m \in 1 .. Len(sent) : Facing(m)
  BY <1>1, FacesFrame
<1>3. WsTypes /\ why = "" /\ pc = "drain" /\ Answers(pongs, events, pc) /\ sent \in Seq(Frames)
  BY <1>1, FacesFrame DEF WsInv, WsTypes
<1>4. /\ Clean(sent, m - 1)
      /\ events = EventsUpTo(sent, m - 1) /\ Assembles(sent, m - 1, fragment, message)
      /\ (m - 1) + 1 = m
  BY <1>2 DEF Facing
<1>5. PICK f \in Frames : /\ f = sent[m] /\ NextFrame = f /\ f.flaw = "none" /\ f.len <= MaxFrame
                          /\ Payload = FramePayload(sent, m)
  BY <1>2 DEF Facing
<1>6. /\ f.op \in {"text", "binary", "continuation"} /\ f.op \notin Control /\ f.op # "close"
      /\ f.len \in Nat /\ MaxFrame \in Nat /\ MaxMessage \in Nat /\ f.fin \in BOOLEAN
  BY <1>5, FrameFacts, ConfigAssumption DEF Fragment, Control
<1>7. IF f.op = "continuation" THEN fragment # "" ELSE ~ f.fin /\ fragment = ""
  BY <1>5 DEF Fragment
<1>8. fragment # "" <=> InMessage(sent, m)
  BY <1>4 DEF Assembles
<1>9. PICK v \in Seq(ByteNames) : v = Payload /\ Len(v) = f.len
  BY <1>3, <1>5, FramePayloadFacts
<1> DEFINE kind == IF f.op = "continuation" THEN fragment ELSE f.op
<1>10. kind \in {"text", "binary"}
  BY <1>3, <1>6, <1>7 DEF WsTypes
<1>11. /\ Held \in Seq(ByteNames) /\ Len(Held) <= MaxMessage /\ Held \o v = PayloadsUpTo(sent, m)
       /\ kind = sent[FirstOf(sent, m)].op
  <2>1. message \in Seq(ByteNames) /\ Len(message) <= MaxMessage
    BY <1>3 DEF WsTypes
  <2>2. CASE f.op = "continuation"
    <3>1. Held = message /\ message = PayloadsUpTo(sent, m - 1) /\ fragment = sent[FirstOf(sent, m - 1)].op
      BY <1>4, <1>5, <1>7, <2>2 DEF Held, Assembles
    <3>2. PayloadsUpTo(sent, m) = PayloadsUpTo(sent, m - 1) \o FramePayload(sent, m) /\ FirstOf(sent, m) = FirstOf(sent, m - 1)
      BY <1>3, <1>5, <2>2, PayloadsStep, FirstStep
    <3> QED BY <1>5, <1>9, <2>1, <2>2, <3>1, <3>2
  <2>3. CASE f.op # "continuation"
    <3>1. Held = <<>> /\ Len(<<>>) = 0 /\ <<>> \in Seq(ByteNames)
      BY <1>5, <2>3 DEF Held
    <3>2. f.op \in {"text", "binary"}
      BY <1>6, <2>3
    <3>3. PayloadsUpTo(sent, m) = v /\ FirstOf(sent, m) = m
      BY <1>3, <1>5, <1>6, <1>9, <2>3, <3>2, PayloadsStep, FirstStep
    <3>4. <<>> \o v = v
      BY <1>9
    <3> QED BY <1>5, <1>6, <2>3, <3>1, <3>3, <3>4
  <2> QED BY <2>2, <2>3
<1> HIDE DEF kind
<1>12. PICK whole \in Seq(ByteNames) :
         whole = Held \o v /\ whole = PayloadsUpTo(sent, m) /\ Len(whole) = Len(Held) + f.len
  <2>1. Held \in Seq(ByteNames) /\ v \in Seq(ByteNames) /\ Len(v) = f.len
    BY <1>9, <1>11
  <2>2. Held \o v \in Seq(ByteNames) /\ Len(Held \o v) = Len(Held) + Len(v)
    BY <2>1, JoinTwo
  <2> QED BY <1>11, <2>1, <2>2
<1>13. Len(Held) \in Nat /\ Len(whole) \in Nat
  BY <1>11, <1>12
<1>14. IF Len(Held) + f.len > MaxMessage
       THEN /\ pc' = "ended" /\ why' = "protocol"
            /\ message' = Held /\ fragment' = kind /\ UNCHANGED events
       ELSE /\ message' = whole
            /\ fragment' = IF f.fin THEN "" ELSE kind
            /\ events' = IF f.fin THEN Append(events, [op |-> kind, payload |-> whole]) ELSE events
            /\ UNCHANGED <<pc, why>>
  BY <1>5, <1>9, <1>12 DEF Fragment, End, Deliver, kind
<1>15. CASE Len(Held) + f.len > MaxMessage
  <2>1. IsError(sent, m)
    BY <1>5, <1>6, <1>7, <1>12, <1>15 DEF IsError
  <2>2. Kept(fragment', message') /\ pc' = "ended" /\ why' = "protocol" /\ UNCHANGED <<events, pongs>>
    BY <1>1, <1>10, <1>11, <1>14, <1>15 DEF Kept
  <2> QED BY <1>1, <1>2, <2>1, <2>2, ErrorEnds
<1>16. CASE ~(Len(Held) + f.len > MaxMessage)
  <2>1. ~ IsError(sent, m)
    <3>1. ~(Len(PayloadsUpTo(sent, m)) > MaxMessage)
      BY <1>12, <1>16
    <3>2. ~(f.len > MaxFrame)
      BY <1>5, <1>6
    <3>3. f.op \in {"text", "binary"} => ~ InMessage(sent, m)
      BY <1>7, <1>8
    <3>4. f.op = "continuation" => InMessage(sent, m)
      BY <1>7, <1>8
    <3> QED BY <1>5, <1>6, <3>1, <3>2, <3>3, <3>4 DEF IsError
  <2>2. ~ EndsConnection(sent, m) /\ Completes(sent, m) = f.fin
    BY <1>5, <1>6, <2>1 DEF EndsConnection, Completes
  <2>3. EventOf(sent, m) = [op |-> kind, payload |-> whole]
    BY <1>5, <1>6, <1>11, <1>12 DEF EventOf
  <2>4. EventsUpTo(sent, m) = IF f.fin THEN Append(events, EventOf(sent, m)) ELSE events
    BY <1>3, <1>4, <2>2, EventsStep
  <2>5. events' = EventsUpTo(sent, m)
    <3>1. events' = IF f.fin THEN Append(events, EventOf(sent, m)) ELSE events
      BY <1>14, <1>16, <2>3
    <3> QED BY <2>4, <3>1
  <2>6. Assembles(sent, m, fragment', message')
    <3>1. InMessage(sent, m + 1) = (~ f.fin)
      BY <1>3, <1>5, <1>6, InMessageStep
    <3>2. kind # ""
      BY <1>10
    <3> QED BY <1>6, <1>11, <1>12, <1>14, <1>16, <3>1, <3>2 DEF Assembles
  <2>7. events \in Seq(WsEvents) /\ pongs = PingPayloads(events) /\ pongs \in Seq(Seq(ByteNames))
    BY <1>3, SessionFacts
  <2>8. [op |-> kind, payload |-> whole] \in WsEvents /\ kind # "ping"
    BY <1>10 DEF WsEvents
  <2>9. events' \in Seq(WsEvents) /\ PingPayloads(events') = pongs
    <3>1. PICK x \in WsEvents : x = [op |-> kind, payload |-> whole] /\ x.op # "ping"
      BY <2>8
    <3>2. Append(events, x) \in Seq(WsEvents) /\ PingPayloads(Append(events, x)) = pongs
      BY <2>7, <3>1, PingsStep, OneEventMore
    <3>3. events' = Append(events, x) \/ events' = events
      BY <1>14, <1>16, <3>1
    <3> QED BY <2>7, <3>2, <3>3
  <2>10. pc' = pc /\ why' = why /\ pongs' = pongs
    BY <1>1, <1>14, <1>16
  <2>11. Answers(pongs', events', pc')
    BY <1>3, <2>9, <2>10 DEF Answers
  <2>12. Len(message') <= MaxMessage /\ message' \in Seq(ByteNames) /\ fragment' \in {"", "text", "binary"}
    <3>1. message' = whole /\ fragment' = (IF f.fin THEN "" ELSE kind)
      BY <1>14, <1>16
    <3>2. Len(whole) <= MaxMessage
      BY <1>6, <1>12, <1>13, <1>16
    <3> QED BY <1>10, <1>12, <3>1, <3>2
  <2>13. Outcome(fragment', message', events', pongs', pc', why')
    BY <1>3, <2>7, <2>9, <2>10, <2>12 DEF Outcome, WsTypes
  <2> QED BY <1>1, <1>2, <1>3, <2>2, <2>5, <2>6, <2>10, <2>11, <2>13, GoesOn
<1> QED BY <1>15, <1>16

(* The reader goes to the socket only when the next frame is not all there. *)
LEMMA NoFrameStep == WsInv /\ NoFrame => WsInv'
<1> SUFFICES ASSUME WsInv, NoFrame PROVE WsInv'
  OBVIOUS
<1>1. pc = "drain" /\ NeedsMore /\ pc' = "fill" /\ UNCHANGED <<server, taken, why, reader, events, pongs>>
  BY DEF NoFrame
<1>2. WsTypes /\ why = "" /\ Answers(pongs, events, pc)
  BY <1>1, InProgress DEF WsInv
<1>3. PICK n \in 0 .. Len(sent) : Reading(sent, n, Available, taken, events, fragment, message)
  BY <1>1, InProgress
<1>4. WsTypes' /\ Available' = Available
  BY <1>1, <1>2 DEF WsTypes, Wire, server, reader, Available
<1>5. HoldsFrom(sent, n, Available, taken) /\ sent \in Seq(Frames)
  BY <1>2, <1>3 DEF Reading, WsTypes
<1>6. LacksFrame(sent, n, taken)
  <2> SUFFICES ASSUME n < Len(sent) PROVE taken - EndIn(sent, n) < FrameLen(sent[n + 1])
    BY DEF LacksFrame
  <2>1. Available \in Seq(ByteNames) /\ Len(Available) = taken - EndIn(sent, n)
    BY <1>5, HoldsAhead
  <2>2. Len(Available) \in Nat
    BY <2>1
  <2>3. CASE Len(Available) >= 2
    <3>1. Len(Available) < FrameLen(NextFrame)
      BY <1>1, <2>3 DEF NeedsMore
    <3>2. NextFrame = sent[n + 1]
      BY <1>2, <1>5, <2>3, LooksAtNext
    <3> QED BY <2>1, <3>1, <3>2
  <2>4. CASE ~(Len(Available) >= 2)
    <3>1. sent[n + 1] \in Frames
      BY <1>5
    <3>2. FrameLen(sent[n + 1]) \in Nat /\ FrameLen(sent[n + 1]) >= 2
      BY <3>1, FrameFacts
    <3> QED BY <2>1, <2>2, <2>4, <3>2
  <2> QED BY <2>3, <2>4
<1>7. Progress'
  BY <1>1, <1>2, <1>3, <1>4, <1>6 DEF Progress, server, reader
<1>8. Answers(pongs', events', pc')
  BY <1>1, <1>2 DEF Answers
<1> QED BY <1>4, <1>7, <1>8 DEF WsInv

(* The connection ends and nothing else changes. *)
LEMMA JustEnds ==
  ASSUME WsInv, UNCHANGED <<server, taken, reader, events, pongs>>, pc' = "ended",
         why' \in {"reply", "protocol", "dropped"},
         NEW m \in 0 .. Len(sent), Ended(sent, m, events, why', peer)
  PROVE  WsInv'
<1>1. WsTypes /\ Answers(pongs, events, pc)
  BY DEF WsInv
<1>2. WsTypes' /\ sent' = sent /\ events' = events /\ peer' = peer /\ pongs' = pongs
  BY <1>1 DEF WsTypes, Wire, server, reader
<1>3. IsPrefix(pongs, PingPayloads(events))
  BY <1>1, SessionFacts
<1> QED BY <1>2, <1>3, ComesToAnEnd

(* A header that parse_server_header refuses is that of the next frame. *)
LEMMA ProtocolErrorStep == WsInv /\ ProtocolError => WsInv'
<1> SUFFICES ASSUME WsInv, ProtocolError PROVE WsInv'
  OBVIOUS
<1>1. /\ pc = "drain" /\ BadHeader /\ pc' = "ended" /\ why' = "protocol"
      /\ UNCHANGED <<server, taken, reader, events, pongs>>
  BY DEF ProtocolError, End
<1>2. WsTypes
  BY <1>1, InProgress
<1>3. PICK n \in 0 .. Len(sent) : Reading(sent, n, Available, taken, events, fragment, message)
  BY <1>1, InProgress
<1>4. HoldsFrom(sent, n, Available, taken) /\ Clean(sent, n) /\ events = EventsUpTo(sent, n) /\ sent \in Seq(Frames)
  BY <1>2, <1>3 DEF Reading, WsTypes
<1>5. Len(Available) >= 2
  BY <1>1 DEF BadHeader
<1>6. n + 1 \in 1 .. Len(sent) /\ sent[n + 1] \in Frames /\ AtFrame /\ NextFrame = sent[n + 1]
  BY <1>2, <1>4, <1>5, LooksAtNext
<1>7. IsError(sent, n + 1)
  BY <1>1, <1>6 DEF BadHeader, IsError
<1>8. n < Len(sent)
  <2>1. Len(sent) \in Nat
    BY <1>4
  <2> QED BY <1>6, <2>1
<1>9. Ended(sent, n, events, why', peer)
  BY <1>1, <1>4, <1>7, <1>8 DEF Ended
<1> QED BY <1>1, <1>9, JustEnds

(* The pong answers the ping that was delivered last. *)
LEMMA SendPongStep == WsInv /\ SendPong => WsInv'
<1> SUFFICES ASSUME WsInv, SendPong PROVE WsInv'
  OBVIOUS
<1> HIDE DEF ByteNames
<1>1. /\ pc = "pong" /\ pongs' = Append(pongs, Last(events).payload) /\ pc' = "drain"
      /\ UNCHANGED <<server, taken, why, reader, events>>
  BY DEF SendPong
<1>2. WsTypes /\ why = "" /\ Answers(pongs, events, pc)
  BY <1>1, InProgress DEF WsInv
<1>3. PICK n \in 0 .. Len(sent) : Reading(sent, n, Available, taken, events, fragment, message)
  BY <1>1, InProgress
<1>4. pongs' = PingPayloads(events)
  BY <1>1, <1>2 DEF Answers
<1>5. pongs' \in Seq(Seq(ByteNames))
  <2>1. events \in Seq(WsEvents)
    BY <1>2 DEF WsTypes
  <2>2. <<>> \in Seq(ByteNames) /\ "pong" \in {"text", "binary", "close", "ping", "pong"}
    OBVIOUS
  <2>3. [op |-> "pong", payload |-> <<>>] \in WsEvents
    BY <2>2 DEF WsEvents
  <2> QED BY <1>4, <2>1, <2>3, PingsStep
<1>6. WsTypes' /\ Available' = Available
  BY <1>1, <1>2, <1>5 DEF WsTypes, Wire, server, reader, Available
<1>7. Progress'
  BY <1>1, <1>2, <1>3, <1>6 DEF Progress, server, reader
<1>8. Answers(pongs', events', pc')
  BY <1>1, <1>4 DEF Answers
<1> QED BY <1>6, <1>7, <1>8 DEF WsInv

(* A connection that fails keeps what it delivered. *)
LEMMA SendFailsStep == WsInv /\ (SendFails \/ DropConnection) => WsInv'
<1> SUFFICES ASSUME WsInv, SendFails \/ DropConnection PROVE WsInv'
  OBVIOUS
<1>1. /\ pc \in {"pong", "fill"} /\ pc' = "ended" /\ why' = "dropped"
      /\ UNCHANGED <<server, taken, reader, events, pongs>>
  BY DEF SendFails, DropConnection, End
<1>2. PICK n \in 0 .. Len(sent) : Reading(sent, n, Available, taken, events, fragment, message)
  BY <1>1, InProgress
<1>3. Ended(sent, n, events, why', peer)
  BY <1>1, <1>2 DEF Ended, Reading
<1> QED BY <1>1, <1>3, JustEnds

(* A connection that is refused delivered nothing. *)
LEMMA ConnectFailsStep == WsInv /\ ConnectFails => WsInv'
<1> SUFFICES ASSUME WsInv, ConnectFails PROVE WsInv'
  OBVIOUS
<1>1. /\ pc = "connect" /\ pc' = "ended" /\ why' = "reply"
      /\ UNCHANGED <<server, taken, reader, events, pongs>>
  BY DEF ConnectFails, End
<1>2. events = <<>> /\ sent \in Seq(Frames)
  BY <1>1 DEF WsInv, Progress, WsTypes
<1>3. 0 \in 0 .. Len(sent)
  <2>1. Len(sent) \in Nat
    BY <1>2
  <2> QED BY <2>1
<1>4. events = EventsUpTo(sent, 0)
  BY <1>2, <1>3, EventsFacts
<1>5. Ended(sent, 0, events, why', peer)
  BY <1>1, <1>3, <1>4 DEF Ended
<1> QED BY <1>1, <1>3, <1>5, JustEnds

(* A frame sent adds to the wire, and changes nothing that was taken from it. *)
LEMMA ServerSendsStep == WsInv /\ ServerSends => WsInv'
<1> SUFFICES ASSUME WsInv, ServerSends PROVE WsInv'
  OBVIOUS
<1>1. PICK f \in Frames : sent' = Append(sent, f)
  BY DEF ServerSends
<1>2. /\ peer = "open" /\ Len(sent) < MaxFrames
      /\ peer' = peer /\ taken' = taken /\ pc' = pc /\ why' = why /\ buf' = buf /\ start' = start
      /\ fragment' = fragment /\ message' = message /\ events' = events /\ pongs' = pongs
  BY DEF ServerSends, reader
<1>3. WsTypes /\ Progress /\ Answers(pongs, events, pc) /\ sent \in Seq(Frames)
  BY DEF WsInv, WsTypes
<1>4. /\ sent' \in Seq(Frames) /\ Len(sent') = Len(sent) + 1 /\ AtFront(WireOf(sent), WireOf(sent'))
  BY <1>1, <1>3, WireGrows
<1>5. Available' = Available
  BY <1>2 DEF Available
<1>6. taken \in 0 .. Len(WireOf(sent'))
  <2>1. PICK a \in Nat, b \in Nat : a = Len(WireOf(sent)) /\ b = Len(WireOf(sent'))
    <3>1. WireOf(sent) \in Seq(ByteNames) /\ WireOf(sent') \in Seq(ByteNames)
      BY <1>3, <1>4, WireFacts
    <3> QED BY <3>1
  <2>2. taken \in 0 .. a /\ a <= b
    BY <1>3, <1>4, <2>1 DEF AtFront, WsTypes, Wire
  <2>3. taken \in 0 .. b
    BY <2>1, <2>2
  <2> QED BY <2>1, <2>3
<1>7. WsTypes'
  <2>1. Len(sent') <= MaxFrames
    <3>1. Len(sent) \in Nat /\ MaxFrames \in Nat
      BY <1>3, ConfigAssumption
    <3> QED BY <1>2, <1>4, <3>1
  <2> QED BY <1>2, <1>3, <1>4, <1>6, <2>1 DEF WsTypes, Wire
<1>8. Progress'
  <2>1. CASE pc = "connect"
    BY <1>2, <1>3, <2>1 DEF Progress
  <2>2. CASE pc \in {"drain", "pong", "fill"}
    <3>1. PICK n \in 0 .. Len(sent) :
            /\ Reading(sent, n, Available, taken, events, fragment, message)
            /\ pc = "fill" => LacksFrame(sent, n, taken)
      BY <1>3, <2>2 DEF Progress
    <3>2. /\ n \in 0 .. Len(sent') /\ Reading(sent', n, Available, taken, events, fragment, message)
          /\ LacksFrame(sent, n, taken) => LacksFrame(sent', n, taken)
      BY <1>1, <1>3, <3>1, ReadingGrows
    <3>3. why = ""
      BY <1>3, <2>2 DEF Progress
    <3> QED BY <1>2, <1>5, <2>2, <3>1, <3>2, <3>3 DEF Progress
  <2>3. CASE pc = "ended"
    <3>1. PICK n \in 0 .. Len(sent) : Ended(sent, n, events, why, peer)
      BY <1>3, <2>3 DEF Progress
    <3>2. peer # "closed"
      BY <1>2
    <3>3. n \in 0 .. Len(sent') /\ Ended(sent', n, events, why, peer)
      BY <1>1, <1>3, <3>1, <3>2, EndedGrows
    <3> QED BY <1>2, <2>3, <3>3 DEF Progress
  <2> QED BY <1>3, <2>1, <2>2, <2>3 DEF WsTypes
<1>9. Answers(pongs', events', pc')
  BY <1>2, <1>3
<1> QED BY <1>7, <1>8, <1>9 DEF WsInv

(* The server closes the connection after the last frame. *)
LEMMA ServerClosesStep == WsInv /\ ServerCloses => WsInv'
<1> SUFFICES ASSUME WsInv, ServerCloses PROVE WsInv'
  OBVIOUS
<1>1. /\ peer = "open" /\ peer' = "closed"
      /\ sent' = sent /\ taken' = taken /\ pc' = pc /\ why' = why /\ buf' = buf /\ start' = start
      /\ fragment' = fragment /\ message' = message /\ events' = events /\ pongs' = pongs
  BY DEF ServerCloses, reader
<1>2. WsTypes /\ Progress /\ Answers(pongs, events, pc)
  BY DEF WsInv
<1>3. WsTypes' /\ Available' = Available
  BY <1>1, <1>2 DEF WsTypes, Wire, Available
<1>4. Progress'
  <2>1. CASE pc = "ended"
    <3>1. PICK n \in 0 .. Len(sent) : Ended(sent, n, events, why, peer)
      BY <1>2, <2>1 DEF Progress
    <3>2. Ended(sent, n, events, why, "closed")
      BY <1>1, <3>1 DEF Ended
    <3> QED BY <1>1, <2>1, <3>2 DEF Progress
  <2>2. CASE pc # "ended"
    BY <1>1, <1>2, <1>3, <2>2 DEF Progress
  <2> QED BY <2>1, <2>2
<1> QED BY <1>1, <1>2, <1>3, <1>4 DEF WsInv

(* A position of a sequence. *)
LEMMA InRange ==
  ASSUME NEW U, NEW x \in Seq(U), NEW a \in Nat, a <= Len(x)
  PROVE  a \in 0 .. Len(x)
OBVIOUS

(* Compaction moves what is held and loses nothing. *)
LEMMA CompactedFacts ==
  ASSUME WsTypes
  PROVE  /\ Compacted \in Seq(ByteNames) /\ Len(Compacted) <= Buffer
         /\ StartCompacted \in Nat /\ StartCompacted <= Len(Compacted)
         /\ SubSeq(Compacted, StartCompacted + 1, Len(Compacted)) = Available
<1> HIDE DEF ByteNames
<1>1. buf \in Seq(ByteNames) /\ start \in 0 .. Len(buf) /\ Len(buf) <= Buffer /\ Buffer \in Nat
  BY ConfigAssumption DEF WsTypes
<1>2. Len(buf) \in Nat /\ start \in Nat /\ start <= Len(buf) /\ Len(buf) <= Len(buf)
  <2>1. Len(buf) \in Nat
    BY <1>1
  <2> QED BY <1>1, <2>1
<1>3. Available \in Seq(ByteNames) /\ Len(Available) = Len(buf) - start
  <2>1. Available \in Seq(ByteNames) /\ IsPart(Available, buf, start, Len(buf))
    BY <1>1, <1>2, PartIs DEF Available
  <2> QED BY <2>1 DEF IsPart
<1>4. CASE Compacts
  <2>1. Compacted = Available /\ StartCompacted = 0
    BY <1>4 DEF Compacted, StartCompacted
  <2>2. SubSeq(Available, 1, Len(Available)) = Available
    BY <1>3, SameItems
  <2>3. Len(Available) \in Nat /\ 0 + 1 = 1 /\ Len(Available) <= Buffer /\ 0 <= Len(Available)
    BY <1>1, <1>2, <1>3
  <2> QED BY <1>3, <2>1, <2>2, <2>3
<1>5. CASE ~ Compacts
  <2>1. Compacted = buf /\ StartCompacted = start
    BY <1>5 DEF Compacted, StartCompacted
  <2> QED BY <1>1, <1>2, <2>1 DEF Available
<1> QED BY <1>4, <1>5

(* A fill that reads nothing. *)
LEMMA OnlyCompacts ==
  ASSUME WsTypes, buf' = Compacted, start' = StartCompacted,
         UNCHANGED <<server, taken, fragment, message, events, pongs>>,
         pc' \in {"connect", "drain", "pong", "fill", "ended"},
         why' \in {"", "reply", "protocol", "close", "closed", "dropped"}
  PROVE  WsTypes' /\ Available' = Available
<1>1. /\ Compacted \in Seq(ByteNames) /\ Len(Compacted) <= Buffer
      /\ StartCompacted \in Nat /\ StartCompacted <= Len(Compacted)
      /\ SubSeq(Compacted, StartCompacted + 1, Len(Compacted)) = Available
  BY CompactedFacts
<1>2. Available' = Available
  BY <1>1 DEF Available
<1>3. start' \in 0 .. Len(buf')
  <2>1. PICK c \in Seq(ByteNames), a \in Nat : c = Compacted /\ a = StartCompacted /\ a <= Len(c)
    BY <1>1
  <2>2. a \in 0 .. Len(c)
    BY <2>1, InRange
  <2> QED BY <2>1, <2>2
<1>4. WsTypes'
  BY <1>1, <1>3 DEF WsTypes, Wire, server
<1> QED BY <1>2, <1>4

(* A fill that reads nothing may still compact the buffer. *)
LEMMA FillNothingStep == WsInv /\ FillNothing => WsInv'
<1> SUFFICES ASSUME WsInv, FillNothing PROVE WsInv'
  OBVIOUS
<1>1. /\ pc = "fill" /\ pc' = "drain" /\ buf' = Compacted /\ start' = StartCompacted
      /\ UNCHANGED <<server, taken, why, fragment, message, events, pongs>>
  BY DEF FillNothing
<1>2. WsTypes /\ why = "" /\ Answers(pongs, events, pc)
  BY <1>1, InProgress DEF WsInv
<1>3. PICK n \in 0 .. Len(sent) : Reading(sent, n, Available, taken, events, fragment, message)
  BY <1>1, InProgress
<1>4. WsTypes' /\ Available' = Available
  BY <1>1, <1>2, OnlyCompacts
<1>5. Progress'
  BY <1>1, <1>2, <1>3, <1>4 DEF Progress, server
<1>6. Answers(pongs', events', pc')
  BY <1>1, <1>2 DEF Answers
<1> QED BY <1>4, <1>5, <1>6 DEF WsInv

(* At the end of the stream nothing whole is left in the buffer. *)
LEMMA FillClosedStep == WsInv /\ FillClosed => WsInv'
<1> SUFFICES ASSUME WsInv, FillClosed PROVE WsInv'
  OBVIOUS
<1>1. /\ pc = "fill" /\ Arrived = 0 /\ peer = "closed" /\ buf' = Compacted /\ start' = StartCompacted
      /\ pc' = "ended" /\ why' = "closed"
      /\ UNCHANGED <<server, taken, fragment, message, events, pongs>>
  BY DEF FillClosed, End
<1>2. WsTypes /\ Answers(pongs, events, pc) /\ sent \in Seq(Frames)
  BY <1>1, InProgress DEF WsInv, WsTypes
<1>3. PICK n \in 0 .. Len(sent) :
        Reading(sent, n, Available, taken, events, fragment, message) /\ LacksFrame(sent, n, taken)
  BY <1>1, InProgress
<1>4. WsTypes'
  BY <1>1, <1>2, OnlyCompacts
<1>5. Clean(sent, n) /\ events = EventsUpTo(sent, n)
  BY <1>3 DEF Reading
<1>6. n = Len(sent)
  <2> SUFFICES ASSUME n # Len(sent) PROVE FALSE
    OBVIOUS
  <2>1. Len(sent) \in Nat
    BY <1>2
  <2>2. n < Len(sent) /\ n + 1 \in 1 .. Len(sent) /\ n + 1 \in 0 .. Len(sent) /\ (n + 1) - 1 = n /\ n \in 0 .. Len(sent)
    BY <2>1
  <2>3. taken - EndIn(sent, n) < FrameLen(sent[n + 1])
    BY <1>3, <2>2 DEF LacksFrame
  <2>4. /\ EndIn(sent, n + 1) = EndIn(sent, n) + FrameLen(sent[n + 1])
        /\ EndIn(sent, n + 1) <= Len(WireOf(sent)) /\ EndIn(sent, n) \in Nat
    BY <1>2, <2>2, WireFacts
  <2>5. FrameLen(sent[n + 1]) \in Nat
    <3>1. sent[n + 1] \in Frames
      BY <1>2, <2>2
    <3> QED BY <3>1, FrameFacts
  <2>6. PICK l \in Nat : l = Len(WireOf(sent)) /\ taken \in 0 .. l /\ l - taken = 0
    <3>1. WireOf(sent) \in Seq(ByteNames)
      BY <1>2, WireFacts
    <3>2. Len(WireOf(sent)) \in Nat
      BY <3>1
    <3> QED BY <1>1, <1>2, <3>2 DEF WsTypes, Wire, Arrived
  <2> QED BY <2>3, <2>4, <2>5, <2>6
<1>7. Ended(sent', n, events', why', peer') /\ n \in 0 .. Len(sent')
  BY <1>1, <1>5, <1>6 DEF Ended, server
<1>8. IsPrefix(pongs', PingPayloads(events'))
  BY <1>1, <1>2, SessionFacts
<1> QED BY <1>1, <1>4, <1>7, <1>8, ComesToAnEnd

(* What a fill reads follows what is held on the wire. *)
LEMMA FillStep == WsInv /\ Fill => WsInv'
<1> SUFFICES ASSUME WsInv, Fill PROVE WsInv'
  OBVIOUS
<1> HIDE DEF ByteNames
<1>1. /\ pc = "fill" /\ pc' = "drain" /\ start' = StartCompacted
      /\ UNCHANGED <<server, why, fragment, message, events, pongs>>
  BY DEF Fill
<1>2. PICK k \in 1 .. Room : /\ k <= Arrived /\ taken' = taken + k
                             /\ buf' = Compacted \o SubSeq(Wire, taken + 1, taken + k)
  BY DEF Fill
<1>3. WsTypes /\ why = "" /\ Answers(pongs, events, pc) /\ sent \in Seq(Frames)
  BY <1>1, InProgress DEF WsInv, WsTypes
<1>4. PICK n \in 0 .. Len(sent) : Reading(sent, n, Available, taken, events, fragment, message)
  BY <1>1, InProgress
<1>5. PICK c \in Seq(ByteNames), a \in Nat :
        c = Compacted /\ a = StartCompacted /\ Len(c) <= Buffer /\ a <= Len(c)
        /\ SubSeq(c, a + 1, Len(c)) = Available
  BY <1>3, CompactedFacts
<1>6. PICK w \in Seq(ByteNames), e \in Nat :
        w = WireOf(sent) /\ e = EndIn(sent, n) /\ e <= taken /\ taken \in Nat /\ taken <= Len(w)
        /\ Available = SubSeq(w, e + 1, taken)
  <2>1. WireOf(sent) \in Seq(ByteNames) /\ EndIn(sent, n) \in Nat
    BY <1>3, <1>4, WireFacts
  <2>2. taken \in 0 .. Len(WireOf(sent)) /\ EndIn(sent, n) <= taken
        /\ Available = SubSeq(WireOf(sent), EndIn(sent, n) + 1, taken)
    BY <1>4 DEF Reading, HoldsFrom
  <2>3. taken \in Nat /\ taken <= Len(WireOf(sent))
    BY <2>1, <2>2
  <2> QED BY <2>1, <2>2, <2>3
<1>7. /\ k \in Nat /\ Len(c) \in Nat /\ Len(w) \in Nat /\ Buffer \in Nat
      /\ k <= Buffer - Len(c) /\ k <= Len(w) - taken
  <2>1. Len(c) \in Nat /\ Len(w) \in Nat /\ Buffer \in Nat
    BY ConfigAssumption
  <2>2. Room = Buffer - Len(c) /\ Arrived = Len(w) - taken
    BY <1>5, <1>6 DEF Room, Arrived, Wire
  <2> QED BY <1>2, <1>6, <2>1, <2>2
<1>8. PICK b \in Nat : b = taken + k /\ taken <= b /\ b <= Len(w) /\ e <= b
  BY <1>6, <1>7
<1>9. PICK y \in Seq(ByteNames) : y = SubSeq(w, taken + 1, b) /\ Len(y) = k
  <2>1. SubSeq(w, taken + 1, b) \in Seq(ByteNames) /\ IsPart(SubSeq(w, taken + 1, b), w, taken, b)
    BY <1>6, <1>8, PartIs
  <2>2. b - taken = k
    BY <1>6, <1>7, <1>8
  <2> QED BY <2>1, <2>2 DEF IsPart
<1>10. buf' = c \o y /\ taken' = b
  BY <1>2, <1>5, <1>6, <1>8, <1>9 DEF Wire
<1>11. buf' \in Seq(ByteNames) /\ Len(buf') = Len(c) + k
  BY <1>9, <1>10, JoinTwo
<1>12. Len(buf') <= Buffer /\ start' \in 0 .. Len(buf')
  BY <1>1, <1>5, <1>7, <1>11
<1>13. Available' = SubSeq(w, e + 1, b)
  <2>1. SubSeq(c \o y, a + 1, Len(c \o y)) = SubSeq(c, a + 1, Len(c)) \o y
    BY <1>5, PartThenMore
  <2>2. Available' = SubSeq(c \o y, a + 1, Len(c \o y))
    BY <1>1, <1>5, <1>10 DEF Available
  <2>3. SubSeq(w, e + 1, taken) \o SubSeq(w, taken + 1, b) = SubSeq(w, e + 1, b)
    <3>1. PICK u \in Nat : u = taken
      BY <1>6
    <3>2. e <= u /\ u <= b /\ b <= Len(w)
      BY <1>6, <1>8, <3>1
    <3>3. SubSeq(w, e + 1, u) \o SubSeq(w, u + 1, b) = SubSeq(w, e + 1, b)
      BY <3>2, PartsMeet
    <3> QED BY <3>1, <3>3
  <2> QED BY <1>5, <1>6, <1>9, <2>1, <2>2, <2>3
<1>14. taken' \in 0 .. Len(WireOf(sent))
  BY <1>6, <1>7, <1>8, <1>10
<1>15. sent' = sent /\ peer' = peer
  BY <1>1 DEF server
<1>16. WsTypes'
  BY <1>1, <1>3, <1>11, <1>12, <1>14, <1>15 DEF WsTypes, Wire
<1>17. Reading(sent, n, Available', taken', events, fragment, message)
  BY <1>4, <1>6, <1>8, <1>10, <1>13, <1>14 DEF Reading, HoldsFrom
<1>18. Progress'
  BY <1>1, <1>3, <1>15, <1>17 DEF Progress
<1>19. Answers(pongs', events', pc')
  BY <1>1, <1>3 DEF Answers
<1> QED BY <1>16, <1>18, <1>19 DEF WsInv

(* The bytes after the reply are the first that the reader holds. *)
LEMMA ReplyReadStep == WsInv /\ ReplyRead => WsInv'
<1> SUFFICES ASSUME WsInv, ReplyRead PROVE WsInv'
  OBVIOUS
<1> HIDE DEF ByteNames
<1>1. pc = "connect" /\ UNCHANGED <<server, why, start, fragment, message, events, pongs>>
  BY DEF ReplyRead
<1>2. /\ WsTypes /\ why = "" /\ Answers(pongs, events, pc) /\ sent \in Seq(Frames)
      /\ taken <= Reply /\ buf = <<>> /\ start = 0 /\ fragment = "" /\ events = <<>>
  BY <1>1 DEF WsInv, WsTypes, Progress
<1>3. PICK k \in 1 .. Chunk :
        /\ k <= Arrived /\ taken' = taken + k
        /\ IF taken' < Reply
           THEN UNCHANGED <<pc, buf>>
           ELSE LET leftover == SubSeq(Wire, Reply + 1, taken')
                    kept == IF Len(leftover) < Buffer THEN Len(leftover) ELSE Buffer
                IN pc' = "drain" /\ buf' = SubSeq(leftover, 1, kept)
  BY DEF ReplyRead
<1>4. /\ Chunk \in Nat /\ Buffer \in Nat /\ Reply \in Nat /\ Chunk <= Buffer
  BY ConfigAssumption
<1>5. PICK w \in Seq(ByteNames) : w = WireOf(sent) /\ Len(w) \in Nat /\ taken \in 0 .. Len(w) /\ w = Wire
  <2>1. WireOf(sent) \in Seq(ByteNames)
    BY <1>2, WireFacts
  <2>2. Len(WireOf(sent)) \in Nat
    BY <2>1
  <2> QED BY <1>2, <2>1, <2>2 DEF WsTypes, Wire
<1>6. PICK b \in Nat : b = taken + k /\ b <= Len(w) /\ b \in 0 .. Len(w) /\ b - Reply <= Chunk /\ taken' = b
  <2>1. Arrived = Len(w) - taken
    BY <1>5 DEF Arrived
  <2>2. taken + k \in Nat /\ taken + k <= Len(w) /\ taken + k \in 0 .. Len(w) /\ (taken + k) - Reply <= Chunk
    <3>1. PICK l \in Nat, p \in Nat : l = Len(w) /\ p = taken
      BY <1>5
    <3>2. k \in 1 .. Chunk /\ k <= l - p /\ p <= Reply
      BY <1>2, <1>3, <2>1, <3>1
    <3>3. p + k \in Nat /\ p + k <= l /\ p + k \in 0 .. l /\ (p + k) - Reply <= Chunk
      BY <1>4, <3>2
    <3> QED BY <3>1, <3>3
  <2> QED BY <1>3, <2>2
<1>7. sent' = sent /\ peer' = peer /\ start' = 0 /\ events' = <<>> /\ fragment' = "" /\ why' = ""
      /\ message' = message /\ pongs' = pongs
  BY <1>1, <1>2 DEF server
<1>8. CASE b < Reply
  <2>1. pc' = "connect" /\ buf' = <<>>
    BY <1>1, <1>2, <1>3, <1>6, <1>8
  <2>2. WsTypes'
    BY <1>2, <1>5, <1>6, <1>7, <2>1 DEF WsTypes, Wire
  <2>3. b <= Reply
    BY <1>4, <1>8
  <2>4. Progress'
    BY <1>6, <1>7, <2>1, <2>3 DEF Progress
  <2>5. Answers(pongs', events', pc')
    BY <1>1, <1>2, <1>7, <2>1 DEF Answers
  <2> QED BY <2>2, <2>4, <2>5 DEF WsInv
<1>9. CASE ~(b < Reply)
  <2>1. PICK x \in Seq(ByteNames) : x = SubSeq(w, Reply + 1, b) /\ Len(x) = b - Reply
    <3>1. Reply <= b
      BY <1>4, <1>9
    <3>2. SubSeq(w, Reply + 1, b) \in Seq(ByteNames) /\ IsPart(SubSeq(w, Reply + 1, b), w, Reply, b)
      BY <1>4, <1>5, <1>6, <3>1, PartIs
    <3> QED BY <3>2 DEF IsPart
  <2>2. Len(x) \in Nat /\ Len(x) <= Buffer
    <3>1. Len(x) \in Nat
      OBVIOUS
    <3>2. b - Reply <= Buffer
      BY <1>4, <1>6, <2>1
    <3> QED BY <2>1, <3>1, <3>2
  <2>3. (IF Len(x) < Buffer THEN Len(x) ELSE Buffer) = Len(x)
    BY <1>4, <2>2
  <2>4. SubSeq(x, 1, Len(x)) = x
    BY SameItems
  <2>5. pc' = "drain" /\ buf' = x
    <3>1. pc' = "drain" /\ buf' = SubSeq(x, 1, IF Len(x) < Buffer THEN Len(x) ELSE Buffer)
      BY <1>3, <1>5, <1>6, <1>9, <2>1
    <3> QED BY <2>3, <2>4, <3>1
  <2>6. Available' = x
    <3>1. 0 + 1 = 1
      OBVIOUS
    <3> QED BY <1>7, <2>4, <2>5, <3>1 DEF Available
  <2>7. 0 \in 0 .. Len(x)
    BY <2>2
  <2>8. WsTypes'
    BY <1>2, <1>5, <1>6, <1>7, <2>2, <2>5, <2>7 DEF WsTypes, Wire
  <2>9. 0 \in 0 .. Len(sent)
    <3>1. sent \in Seq(Frames)
      BY <1>2
    <3>2. Len(sent) \in Nat /\ 0 <= Len(sent)
      BY <3>1
    <3> QED BY <3>2
  <2>10. HoldsFrom(sent, 0, x, b)
    <3>1. EndIn(sent, 0) = Reply
      BY <1>2, WireFacts
    <3>2. Reply <= b
      BY <1>4, <1>9
    <3> QED BY <1>5, <1>6, <2>1, <2>9, <3>1, <3>2 DEF HoldsFrom
  <2>11. Clean(sent, 0)
    BY DEF Clean
  <2>12. EventsUpTo(sent, 0) = <<>>
    BY <1>2, <2>9, EventsFacts
  <2>13. Assembles(sent, 0, "", message)
    <3>1. ~ InMessage(sent, 1)
      BY InMessageNone
    <3>2. 0 + 1 = 1
      OBVIOUS
    <3> QED BY <3>1, <3>2 DEF Assembles
  <2>14. Reading(sent', 0, Available', taken', events', fragment', message')
    BY <1>6, <1>7, <2>6, <2>10, <2>11, <2>12, <2>13 DEF Reading
  <2>15. Progress'
    BY <1>7, <2>5, <2>9, <2>14 DEF Progress
  <2>16. Answers(pongs', events', pc')
    BY <1>1, <1>2, <1>7, <2>5 DEF Answers
  <2> QED BY <2>8, <2>15, <2>16 DEF WsInv
<1> QED BY <1>8, <1>9

(* A new connection. *)
LEMMA WsFirst == Init => WsInv
<1> SUFFICES ASSUME Init PROVE WsInv
  OBVIOUS
<1> HIDE DEF ByteNames
<1>1. /\ sent = <<>> /\ peer = "open" /\ taken = 0 /\ pc = "connect" /\ why = ""
      /\ buf = <<>> /\ start = 0 /\ fragment = "" /\ message = <<>> /\ events = <<>> /\ pongs = <<>>
  BY DEF Init
<1>2. /\ sent \in Seq(Frames) /\ buf \in Seq(ByteNames) /\ events \in Seq(WsEvents)
      /\ pongs \in Seq(Seq(ByteNames)) /\ Len(sent) = 0 /\ Len(buf) = 0
      /\ message \in Seq(ByteNames) /\ Len(message) = 0
  <2>1. \A U : <<>> \in Seq(U)
    OBVIOUS
  <2>2. Len(<<>>) = 0
    OBVIOUS
  <2> QED BY <1>1, <2>1, <2>2
<1>3. Reply \in Nat /\ Buffer \in Nat /\ MaxMessage \in Nat /\ MaxFrames \in Nat
  BY ConfigAssumption
<1>4. 0 \in 0 .. Len(WireOf(sent))
  <2>1. WireOf(sent) \in Seq(ByteNames)
    BY <1>2, WireFacts
  <2>2. Len(WireOf(sent)) \in Nat
    BY <2>1
  <2> QED BY <2>2
<1>6. Len(sent) <= MaxFrames /\ Len(buf) <= Buffer /\ Len(message) <= MaxMessage /\ start \in 0 .. Len(buf)
  <2>1. 0 <= MaxFrames /\ 0 <= Buffer /\ 0 <= MaxMessage /\ 0 \in 0 .. 0
    BY <1>3
  <2> QED BY <1>1, <1>2, <2>1
<1>7. WsTypes
  BY <1>1, <1>2, <1>4, <1>6 DEF WsTypes, Wire
<1>8. Progress
  <2>1. 0 <= Reply
    BY <1>3
  <2> QED BY <1>1, <2>1 DEF Progress
<1>9. Answers(pongs, events, pc)
  BY <1>1, PingsNone DEF Answers
<1> QED BY <1>7, <1>8, <1>9 DEF WsInv

(* Every step keeps the invariant. *)
LEMMA WsStep == WsInv /\ [Next]_vars => WsInv'
<1> SUFFICES ASSUME WsInv, [Next]_vars PROVE WsInv'
  OBVIOUS
<1>1. CASE Client
  BY <1>1, ReplyReadStep, NoFrameStep, ProtocolErrorStep, PingOrPongStep, CloseStep, WholeStep,
     UnexpectedFragmentStep, FragmentStep, SendPongStep, FillStep, FillNothingStep, FillClosedStep
     DEF Client
<1>2. CASE ServerSends \/ ServerCloses
  BY <1>2, ServerSendsStep, ServerClosesStep
<1>3. CASE ConnectFails \/ SendFails \/ DropConnection
  BY <1>3, ConnectFailsStep, SendFailsStep
<1>4. CASE UNCHANGED vars
  BY <1>4 DEF vars, WsInv, WsTypes, Progress, Wire, Available
<1> QED BY <1>1, <1>2, <1>3, <1>4 DEF Next

(***************************************************************************)
(* The reader's inductive invariant holds: after any reads, what was       *)
(* delivered is what a number of whole frames mean, and what is held       *)
(* begins where they end.                                                  *)
(***************************************************************************)
THEOREM WsInvariant == Spec => []WsInv
<1>1. Init => WsInv
  BY WsFirst
<1>2. WsInv /\ [Next]_vars => WsInv'
  BY WsStep
<1> QED BY <1>1, <1>2, PTL DEF Spec

(***************************************************************************)
(* The reader's buffer and reassembly buffer never outgrow their limits:   *)
(* spare never offers more room than capacity, and append refuses what     *)
(* would pass max_message (TypeOK of WsClient).                            *)
(***************************************************************************)
THEOREM WsTypeCorrect == Spec => []TypeOK
<1>1. WsInv => TypeOK
  BY DEF WsInv, WsTypes, TypeOK
<1> QED BY <1>1, WsInvariant, PTL

(***************************************************************************)
(* next_event delivers exactly the messages the server's frames mean, in   *)
(* order, and client.rs sends the pongs of the pings among them in order,  *)
(* however the bytes are cut into reads, wherever spare compacts the       *)
(* buffer and whatever control frames come between the fragments           *)
(* (EventsAreTheFrames), for every frame size, capacity and message limit. *)
(***************************************************************************)
THEOREM WsDeliversTheFrames == Spec => []EventsAreTheFrames
<1>1. WsInv => EventsAreTheFrames
  <2> SUFFICES ASSUME WsInv PROVE EventsAreTheFrames
    OBVIOUS
  <2>1. WsTypes /\ Progress /\ Answers(pongs, events, pc) /\ sent \in Seq(Frames)
        /\ pc \in {"connect", "drain", "pong", "fill", "ended"}
    BY DEF WsInv, WsTypes
  <2>2. IsPrefix(pongs, PingPayloads(events))
    BY <2>1, SessionFacts
  <2>3. PICK n \in 0 .. Len(sent) : events = EventsUpTo(sent, n)
    <3>1. CASE pc = "connect"
      <4>1. events = <<>>
        BY <2>1, <3>1 DEF Progress
      <4>2. 0 \in 0 .. Len(sent)
        <5>1. Len(sent) \in Nat
          BY <2>1
        <5> QED BY <5>1
      <4> QED BY <2>1, <4>1, <4>2, EventsFacts
    <3>2. CASE pc \in {"drain", "pong", "fill"}
      BY <2>1, <3>2 DEF Progress, Reading
    <3>3. CASE pc = "ended"
      BY <2>1, <3>3 DEF Progress, Ended
    <3> QED BY <2>1, <3>1, <3>2, <3>3
  <2>4. IsPrefix(EventsUpTo(sent, n), EventsUpTo(sent, Len(sent)))
    BY <2>1, EventsFacts
  <2> QED BY <2>2, <2>3, <2>4 DEF EventsAreTheFrames, MeantEvents
<1> QED BY <1>1, WsInvariant, PTL

(***************************************************************************)
(* fill reports the end of the stream only after every frame was           *)
(* delivered, next_event reports a protocol error only at a frame that     *)
(* breaks the protocol and after all frames before it, and a close event   *)
(* is the last (EndsWhereTheServerSays).                                   *)
(***************************************************************************)
THEOREM WsEndsWhereTheServerSays == Spec => []EndsWhereTheServerSays
<1>1. WsInv => EndsWhereTheServerSays
  <2> SUFFICES ASSUME WsInv PROVE EndsWhereTheServerSays
    OBVIOUS
  <2>1. Progress /\ sent \in Seq(Frames)
    BY DEF WsInv, WsTypes
  <2>2. CASE pc = "ended"
    <3>1. PICK n \in 0 .. Len(sent) : Ended(sent, n, events, why, peer)
      BY <2>1, <2>2 DEF Progress
    <3> QED BY <2>1, <3>1, EndedMeans DEF EndsWhereTheServerSays, MeantEvents
  <2>3. CASE pc # "ended"
    <3>1. why = ""
      BY <2>1, <2>3 DEF Progress
    <3> QED BY <3>1 DEF EndsWhereTheServerSays
  <2> QED BY <2>2, <2>3
<1> QED BY <1>1, WsInvariant, PTL

=============================================================================
