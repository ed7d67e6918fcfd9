------------------------------ MODULE NatLemmas ------------------------------
(***************************************************************************)
(* Natural numbers: least elements, induction and recursion, which the     *)
(* proofs about sequences rest on, and remainders, for counters that wrap  *)
(* (the positions of the rings) and for rounding (the token bucket's       *)
(* waits).                                                                 *)
(***************************************************************************)
EXTENDS Integers, WellFoundedInduction, TLAPS

(***************************************************************************)
(* Least elements, induction and recursion.                                *)
(***************************************************************************)

(* Every non-empty set of naturals has a least element. *)
LEMMA LeastNat ==
  ASSUME NEW T \in SUBSET Nat, T # {}
  PROVE  \E x \in T : \A y \in T : x <= y
<1>1. IsWellFoundedOn(OpToRel(<, Nat), Nat)
  BY NatLessThanWellFounded
<1>2. PICK x \in T : \A y \in T : ~(<<y, x>> \in OpToRel(<, Nat))
  BY <1>1, WFMin
<1>3. \A y \in T : ~(y < x)
  BY <1>2 DEF OpToRel
<1> QED
  BY <1>3

(* Induction, for a set of naturals. *)
LEMMA SetInduction ==
  ASSUME NEW S, 0 \in S, \A n \in Nat : n \in S => n + 1 \in S
  PROVE  \A n \in Nat : n \in S
<1> SUFFICES ASSUME Nat \ S # {} PROVE FALSE
  OBVIOUS
<1>1. PICK m \in Nat \ S : \A y \in Nat \ S : m <= y
  BY LeastNat
<1>2. m # 0
  BY <1>1
<1>3. m - 1 \in Nat /\ m - 1 \in S
  BY <1>1, <1>2
<1>4. (m - 1) + 1 = m
  BY <1>1
<1> QED
  BY <1>1, <1>3, <1>4

(* f is the iteration of G from a. *)
Iterates(f, a, G) == f[0] = a /\ \A n \in Nat : f[n + 1] = G[n][f[n]]

(* Every recursion over the naturals defines a function.  The step G is a *)
(* function, not an operator, so that the lemma can be instantiated.       *)
LEMMA Recursion ==
  ASSUME NEW T, NEW a, a \in T, NEW G, G \in [Nat -> [T -> T]]
  PROVE  \E f \in [Nat -> T] : Iterates(f, a, G)
<1> DEFINE Partial(n, f) == /\ f[0] = a
                            /\ \A k \in 0 .. n - 1 : f[k + 1] = G[k][f[k]]
           S == {n \in Nat : \E f \in [Nat -> T] : Partial(n, f)}
<1>1. 0 \in S
  <2>1. Partial(0, [k \in Nat |-> a])
    OBVIOUS
  <2>2. [k \in Nat |-> a] \in [Nat -> T]
    OBVIOUS
  <2> QED
    BY <2>1, <2>2
<1>2. ASSUME NEW n \in Nat, n \in S
      PROVE  n + 1 \in S
  <2>1. PICK f \in [Nat -> T] : Partial(n, f)
    BY <1>2
  <2> DEFINE g == [f EXCEPT ![n + 1] = G[n][f[n]]]
  <2>2. g \in [Nat -> T]
    OBVIOUS
  <2>3. ASSUME NEW k \in 0 .. n
        PROVE  g[k + 1] = G[k][g[k]]
    <3>1. k # n + 1 /\ g[k] = f[k]
      OBVIOUS
    <3>2. CASE k = n
      BY <3>1, <3>2
    <3>3. CASE k # n
      <4>1. k \in 0 .. n - 1 /\ k + 1 # n + 1 /\ k + 1 \in Nat
        BY <3>3
      <4>2. g[k + 1] = f[k + 1]
        BY <4>1
      <4> QED
        BY <2>1, <3>1, <4>1, <4>2
    <3> QED
      BY <3>2, <3>3
  <2>4. g[0] = a
    BY <2>1
  <2>5. Partial(n + 1, g) /\ n + 1 \in Nat
    BY <2>3, <2>4
  <2> HIDE DEF g, Partial
  <2> QED
    BY <2>2, <2>5
<1>3. \A n \in Nat : n \in S
  <2> HIDE DEF S
  <2> QED
    BY <1>1, <1>2, SetInduction
<1>4. ASSUME NEW m \in Nat, NEW n \in Nat, m <= n,
             NEW f \in [Nat -> T], NEW g \in [Nat -> T], Partial(m, f), Partial(n, g)
      PROVE  f[m] = g[m]
  <2> DEFINE E == {k \in Nat : k <= m => f[k] = g[k]}
  <2>1. 0 \in E
    BY <1>4
  <2>2. ASSUME NEW k \in Nat, k \in E
        PROVE  k + 1 \in E
    <3>1. CASE k + 1 <= m
      <4>1. f[k] = g[k] /\ k \in 0 .. m - 1 /\ k \in 0 .. n - 1
        BY <2>2, <3>1, <1>4
      <4> QED
        BY <4>1, <1>4
    <3> QED
      BY <3>1
  <2>3. \A k \in Nat : k \in E
    <3> HIDE DEF E
    <3> QED
      BY <2>1, <2>2, SetInduction
  <2> QED
    BY <2>3
<1> DEFINE Pick(n) == CHOOSE f \in [Nat -> T] : Partial(n, f)
           F == [n \in Nat |-> Pick(n)[n]]
<1>5. ASSUME NEW n \in Nat
      PROVE  Pick(n) \in [Nat -> T] /\ Partial(n, Pick(n))
  BY <1>3
<1> HIDE DEF Pick, Partial
<1>6. F \in [Nat -> T]
  BY <1>5
<1>7. F[0] = a
  BY <1>5 DEF Partial
<1>8. ASSUME NEW n \in Nat
      PROVE  F[n + 1] = G[n][F[n]]
  <2>1. Pick(n)[n] = Pick(n + 1)[n]
    <3>1. n + 1 \in Nat /\ n <= n + 1
      OBVIOUS
    <3> QED
      BY <1>4, <1>5, <3>1
  <2>2. Pick(n + 1)[n + 1] = G[n][Pick(n + 1)[n]]
    <3>1. Partial(n + 1, Pick(n + 1))
      BY <1>5
    <3>2. n \in 0 .. (n + 1) - 1
      OBVIOUS
    <3> QED
      BY <3>1, <3>2 DEF Partial
  <2> QED
    BY <2>1, <2>2
<1> QED
  BY <1>6, <1>7, <1>8 DEF Iterates

(* What a recursive function over 0 .. m says. *)
IteratesTo(h, a, m, G) == h[0] = a /\ \A i \in 1 .. m : h[i] = G[i][h[i - 1]]

(* There is one. *)
LEMMA RecursionUpTo ==
  ASSUME NEW T, NEW a, a \in T, NEW m \in Nat, NEW G, G \in [1 .. m -> [T -> T]]
  PROVE  \E h \in [0 .. m -> T] : IteratesTo(h, a, m, G)
<1>1. PICK F : F = [i \in Nat |-> [x \in T |-> IF i + 1 \in 1 .. m THEN G[i + 1][x] ELSE x]]
  OBVIOUS
<1>2. F \in [Nat -> [T -> T]]
  BY <1>1
<1>3. PICK f \in [Nat -> T] : Iterates(f, a, F)
  BY <1>2, Recursion
<1>4. ASSUME NEW i \in 1 .. m
      PROVE  f[i] = G[i][f[i - 1]]
  <2>1. i - 1 \in Nat /\ (i - 1) + 1 = i
    OBVIOUS
  <2>2. f[i - 1] \in T
    BY <2>1
  <2>3. f[i] = F[i - 1][f[i - 1]]
    BY <1>3, <2>1 DEF Iterates
  <2> QED
    BY <1>1, <2>1, <2>2, <2>3
<1> DEFINE h == [i \in 0 .. m |-> f[i]]
<1>5. 0 \in 0 .. m /\ h \in [0 .. m -> T]
  OBVIOUS
<1>6. ASSUME NEW i \in 1 .. m
      PROVE  h[i] = G[i][h[i - 1]]
  BY <1>4
<1>7. h[0] = a
  BY <1>3, <1>5 DEF Iterates
<1> QED
  BY <1>5, <1>6, <1>7 DEF IteratesTo

(* The running sums of n weights. *)
LEMMA SumExists ==
  ASSUME NEW n \in Nat, NEW w \in [1 .. n -> Nat]
  PROVE  \E h \in [0 .. n -> Nat] : h[0] = 0 /\ \A i \in 1 .. n : h[i] = h[i - 1] + w[i]
<1>1. PICK G : G = [i \in 1 .. n |-> [x \in Nat |-> x + w[i]]]
  OBVIOUS
<1>2. G \in [1 .. n -> [Nat -> Nat]] /\ 0 \in Nat
  BY <1>1
<1>3. PICK h \in [0 .. n -> Nat] : IteratesTo(h, 0, n, G)
  BY <1>2, RecursionUpTo
<1>4. ASSUME NEW i \in 1 .. n
      PROVE  h[i] = h[i - 1] + w[i]
  <2>1. i - 1 \in 0 .. n /\ h[i - 1] \in Nat
    OBVIOUS
  <2>2. h[i] = G[i][h[i - 1]]
    BY <1>3 DEF IteratesTo
  <2> QED
    BY <1>1, <2>1, <2>2
<1> QED
  BY <1>3, <1>4 DEF IteratesTo

-----------------------------------------------------------------------------
(***************************************************************************)
(* Remainders.                                                             *)
(***************************************************************************)

(* A product with a divisor is small only if the other factor is 0. *)
LEMMA SmallMultiple ==
  ASSUME NEW d \in Nat \ {0}, NEW e \in Int, d * e < d, -d < d * e
  PROVE  e = 0
<1>1. CASE e >= 1
  <2>1. d * e = d + d * (e - 1)
    OBVIOUS
  <2>2. d * (e - 1) >= 0
    BY <1>1
  <2> QED BY <2>1, <2>2
<1>2. CASE e <= -1
  <2>1. d * e = d * (e + 1) - d
    OBVIOUS
  <2>2. d * (e + 1) <= 0
    BY <1>2
  <2> QED BY <2>1, <2>2
<1> QED BY <1>1, <1>2

(* What % and \div are. *)
LEMMA Division ==
  ASSUME NEW n \in Int, NEW d \in Nat \ {0}
  PROVE  /\ n % d \in 0 .. d - 1
         /\ n = d * (n \div d) + (n % d)
         /\ n \div d \in Int
OBVIOUS

(* There is one way to write n as a multiple of d and a remainder. *)
LEMMA UniqueRemainder ==
  ASSUME NEW n \in Int, NEW d \in Nat \ {0}, NEW q \in Int, NEW r \in 0 .. d - 1,
         n = d * q + r
  PROVE  n % d = r
<1> DEFINE e == q - (n \div d)
<1>1. /\ n % d \in 0 .. d - 1
      /\ n = d * (n \div d) + (n % d)
      /\ n \div d \in Int
  BY Division
<1>2. d * e = (n % d) - r
  BY <1>1
<1>3. e = 0
  BY <1>1, <1>2, SmallMultiple
<1> QED
  BY <1>2, <1>3, <1>1

(* A number in range is its own remainder. *)
LEMMA SmallRemainder ==
  ASSUME NEW d \in Nat \ {0}, NEW n \in 0 .. d - 1
  PROVE  n % d = n
<1>1. n = d * 0 + n
  OBVIOUS
<1> QED BY <1>1, UniqueRemainder

(* Adding a multiple of the divisor changes nothing. *)
LEMMA RemainderPlusMultiple ==
  ASSUME NEW n \in Int, NEW d \in Nat \ {0}, NEW q \in Int
  PROVE  (n + d * q) % d = n % d
<1> DEFINE a == n \div d
           r == n % d
           c == a + q
           m == n + d * q
<1>1. r \in 0 .. d - 1 /\ n = d * a + r /\ a \in Int
  BY Division
<1> HIDE DEF a, r
<1>2. c \in Int /\ m \in Int
  BY <1>1
<1>3. m = d * c + r
  <2>1. d * c = d * a + d * q
    BY <1>1
  <2> QED BY <1>1, <2>1
<1> HIDE DEF c, m
<1>4. m % d = r
  BY <1>1, <1>2, <1>3, UniqueRemainder
<1> QED BY <1>4 DEF m, r

(* Nor does adding the divisor itself. *)
LEMMA RemainderPlusDivisor ==
  ASSUME NEW n \in Int, NEW d \in Nat \ {0}
  PROVE  (n + d) % d = n % d
<1> DEFINE one == 1
<1>1. one \in Int /\ n + d = n + d * one
  OBVIOUS
<1> HIDE DEF one
<1>2. (n + d * one) % d = n % d
  BY <1>1, RemainderPlusMultiple
<1> QED BY <1>1, <1>2

(* Arithmetic on a wrapped counter agrees with arithmetic on the counter   *)
(* itself, modulo any divisor of the point at which the counter wraps.     *)
LEMMA AddAfterWrap ==
  ASSUME NEW n \in Int, NEW k \in Int, NEW w \in Nat \ {0}, NEW d \in Nat \ {0},
         w % d = 0
  PROVE  ((n % w) + k) % d = (n + k) % d
<1> DEFINE m == (n % w) + k
           a == w \div d
           b == n \div w
<1>1. /\ n % w \in 0 .. w - 1
      /\ n = w * b + (n % w)
      /\ b \in Int
  BY Division
<1>2. /\ w = d * a + (w % d)
      /\ a \in Int
  BY Division
<1>3. m \in Int
  BY <1>1
<1>4. n + k = w * b + m
  BY <1>1
<1> HIDE DEF a, b, m
<1>5. n + k = m + d * (a * b)
  BY <1>1, <1>2, <1>3, <1>4
<1> DEFINE e == a * b
<1>6. e \in Int
  BY <1>1, <1>2
<1>7. (m + d * e) % d = m % d
  <2> HIDE DEF e
  <2> QED BY <1>3, <1>6, RemainderPlusMultiple
<1> QED BY <1>5, <1>7 DEF m

(* A number divides itself. *)
LEMMA DividesItself ==
  ASSUME NEW w \in Nat \ {0}
  PROVE  w % w = 0
<1>1. w = w * 1 + 0
  OBVIOUS
<1> QED BY <1>1, UniqueRemainder

(* The same for a difference: what is subtracted may have wrapped. *)
LEMMA SubtractAfterWrap ==
  ASSUME NEW n \in Int, NEW k \in Int, NEW d \in Nat \ {0}
  PROVE  (k - (n % d)) % d = (k - n) % d
<1> DEFINE q == n \div d
           m == k - n
<1>1. n % d \in Int /\ n = d * q + (n % d) /\ q \in Int /\ m \in Int
  BY Division
<1> HIDE DEF q
<1>2. k - (n % d) = m + d * q
  BY <1>1
<1> HIDE DEF m
<1>3. (m + d * q) % d = m % d
  BY <1>1, RemainderPlusMultiple
<1> QED BY <1>2, <1>3 DEF m

(* Numbers less than d apart have different remainders. *)
LEMMA DistinctRemainders ==
  ASSUME NEW m \in Int, NEW n \in Int, NEW d \in Nat \ {0},
         m - n < d, n - m < d, m % d = n % d
  PROVE  m = n
<1> DEFINE e == (m \div d) - (n \div d)
<1>1. /\ m = d * (m \div d) + (m % d)
      /\ n = d * (n \div d) + (n % d)
      /\ m \div d \in Int /\ n \div d \in Int
      /\ m % d \in Int
  BY Division
<1>2. d * e = m - n
  BY <1>1
<1>3. e \in Int
  BY <1>1
<1>4. e = 0
  <2> HIDE DEF e
  <2> QED BY <1>2, <1>3, SmallMultiple
<1> QED
  <2> HIDE DEF e
  <2> QED BY <1>2, <1>4

=============================================================================
