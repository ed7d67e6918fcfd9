---------------------------- MODULE LadderProofs ----------------------------
(***************************************************************************)
(* Proofs about Ladder, for every capacity and any prices: what a ladder   *)
(* holds at or better than its horizon is exactly what the venue lists,    *)
(* through updates, removals, dropped levels and snapshots that overflow.  *)
(***************************************************************************)
EXTENDS Ladder, NatLemmas, SequenceTheorems, TLAPS

(***************************************************************************)
(* The inductive invariant.  A ladder's levels are in order, and as a set  *)
(* they are exact.                                                         *)
(***************************************************************************)
Levels == [price : 1 .. MaxPrice, qty : Nat \ {0}]

Listings == [Prices -> Nat]

Ladders == [levels : Seq(Levels), horizon : Prices]

(* From worst to best. *)
Ordered(side, s) == \A i, j \in DOMAIN s : i < j => Better(side, s[j].price, s[i].price)

(* Beyond a horizon h. *)
Beyond(side, h, p) == h # 0 /\ Better(side, h, p)

(* A set of levels H is all that is listed, as far as the horizon h, and   *)
(* holds nothing beyond it.                                                *)
Exact(side, H, h, listing) ==
  /\ \A x \in H : ~ Beyond(side, h, x.price) /\ x.qty = listing[x.price]
  /\ \A p \in 1 .. MaxPrice :
       ~ Beyond(side, h, p) /\ listing[p] > 0 => \E x \in H : x.price = p

LadderIs(side, l, listing) ==
  /\ l \in Ladders
  /\ Len(l.levels) <= LevelsPerSide
  /\ Ordered(side, l.levels)
  /\ Exact(side, ToSet(l.levels), l.horizon, listing)

BookInv ==
  /\ book \in [Sides -> Ladders]
  /\ listed \in [Sides -> Listings]
  /\ \A side \in Sides : LadderIs(side, book[side], listed[side])

-----------------------------------------------------------------------------
(***************************************************************************)
(* Prices and sequences.                                                   *)
(***************************************************************************)

(* The constants, as the proofs need them. *)
LEMMA LadderConstants == LevelsPerSide \in Nat \ {0} /\ MaxPrice \in Nat \ {0} /\ MaxQty \in Nat
BY LadderAssumption

(* Side::is_more_aggressive is a strict total order on prices. *)
LEMMA BetterOrder ==
  ASSUME NEW side
  PROVE  /\ \A p \in Int : ~ Better(side, p, p)
         /\ \A p, q \in Int : Better(side, p, q) => ~ Better(side, q, p)
         /\ \A p, q \in Int : p = q \/ Better(side, p, q) \/ Better(side, q, p)
         /\ \A p, q, r \in Int : Better(side, p, q) /\ Better(side, q, r) => Better(side, p, r)
         /\ \A p, q, r \in Int : ~ Better(side, p, q) /\ Better(side, p, r) => Better(side, q, r)
         /\ \A p, q, r \in Int : Better(side, p, q) /\ ~ Better(side, r, q) => Better(side, p, r)
BY DEF Better

(* A ladder's levels are levels. *)
LEMMA LevelOf ==
  ASSUME NEW s \in Seq(Levels), NEW k \in DOMAIN s
  PROVE  /\ s[k] \in Levels /\ s[k].price \in Int /\ s[k].price \in 1 .. MaxPrice
         /\ s[k].qty \in Nat \ {0} /\ k \in Int
<1>1. DOMAIN s = 1 .. Len(s) /\ s[k] \in Levels
  OBVIOUS
<1> QED BY <1>1, LadderConstants DEF Levels

(* Vec::insert *)
LEMMA InsertAtFacts ==
  ASSUME NEW T, NEW s \in Seq(T), NEW e \in T, NEW i \in 1 .. Len(s) + 1
  PROVE  /\ InsertAt(s, i, e) \in Seq(T)
         /\ Len(InsertAt(s, i, e)) = Len(s) + 1
         /\ \A k \in 1 .. Len(s) + 1 :
              InsertAt(s, i, e)[k] = IF k < i THEN s[k] ELSE IF k = i THEN e ELSE s[k - 1]
<1>0. Len(s) \in Nat /\ i \in Nat
  OBVIOUS
<1>1. PICK a : a = SubSeq(s, 1, i - 1)
  OBVIOUS
<1>2. PICK c : c = SubSeq(s, i, Len(s))
  OBVIOUS
<1>3. a \in Seq(T) /\ Len(a) = i - 1 /\ \A k \in 1 .. i - 1 : a[k] = s[k]
  BY <1>0, <1>1
<1>4. c \in Seq(T) /\ Len(c) = Len(s) - i + 1 /\ \A k \in 1 .. Len(s) - i + 1 : c[k] = s[i + k - 1]
  BY <1>0, <1>2
<1>5. PICK d : d = a \o <<e>>
  OBVIOUS
<1>6. d \in Seq(T) /\ Len(d) = i /\ \A k \in 1 .. i : d[k] = IF k < i THEN s[k] ELSE e
  BY <1>0, <1>3, <1>5
<1>7. InsertAt(s, i, e) = d \o c
  BY <1>1, <1>2, <1>5 DEF InsertAt
<1>8. d \o c \in Seq(T) /\ Len(d \o c) = Len(s) + 1
  BY <1>0, <1>4, <1>6
<1>9. ASSUME NEW k \in 1 .. Len(s) + 1
      PROVE  (d \o c)[k] = IF k < i THEN s[k] ELSE IF k = i THEN e ELSE s[k - 1]
  <2>0. k <= i \/ k > i
    BY <1>0
  <2>1. CASE k <= i
    <3>1. (d \o c)[k] = d[k]
      BY <1>0, <1>4, <1>6, <2>1
    <3> QED BY <1>0, <1>6, <2>1, <3>1
  <2>2. CASE k > i
    <3>1. (d \o c)[k] = c[k - i]
      BY <1>0, <1>4, <1>6, <2>2
    <3>2. k - i \in 1 .. Len(s) - i + 1 /\ i + (k - i) - 1 = k - 1
      BY <1>0, <2>2
    <3>3. c[k - i] = s[k - 1]
      BY <1>4, <3>2
    <3> QED BY <1>0, <2>2, <3>1, <3>3
  <2> QED BY <2>0, <2>1, <2>2
<1> QED BY <1>7, <1>8, <1>9

(* Vec::remove *)
LEMMA RemoveAtFacts ==
  ASSUME NEW T, NEW s \in Seq(T), NEW i \in 1 .. Len(s)
  PROVE  /\ RemoveAt(s, i) \in Seq(T)
         /\ Len(RemoveAt(s, i)) = Len(s) - 1
         /\ \A k \in 1 .. Len(s) - 1 : RemoveAt(s, i)[k] = IF k < i THEN s[k] ELSE s[k + 1]
<1>0. Len(s) \in Nat /\ i \in Nat
  OBVIOUS
<1>1. PICK a : a = SubSeq(s, 1, i - 1)
  OBVIOUS
<1>2. PICK c : c = SubSeq(s, i + 1, Len(s))
  OBVIOUS
<1>3. a \in Seq(T) /\ Len(a) = i - 1 /\ \A k \in 1 .. i - 1 : a[k] = s[k]
  BY <1>0, <1>1
<1>4. c \in Seq(T) /\ Len(c) = Len(s) - i /\ \A k \in 1 .. Len(s) - i : c[k] = s[i + k]
  BY <1>0, <1>2
<1>5. RemoveAt(s, i) = a \o c
  BY <1>1, <1>2 DEF RemoveAt
<1>6. a \o c \in Seq(T) /\ Len(a \o c) = Len(s) - 1
  <2>1. a \in Seq(T) /\ c \in Seq(T) /\ Len(a) = i - 1 /\ Len(c) = Len(s) - i
    BY <1>3, <1>4
  <2> QED BY <1>0, <2>1
<1>7. ASSUME NEW k \in 1 .. Len(s) - 1
      PROVE  (a \o c)[k] = IF k < i THEN s[k] ELSE s[k + 1]
  <2>0. k < i \/ k >= i
    BY <1>0
  <2>1. CASE k < i
    BY <1>0, <1>3, <1>4, <2>1
  <2>2. CASE k >= i
    <3>1. (a \o c)[k] = c[k - (i - 1)]
      BY <1>0, <1>3, <1>4, <2>2
    <3>2. k - (i - 1) \in 1 .. Len(s) - i /\ i + (k - (i - 1)) = k + 1
      BY <1>0, <2>2
    <3>3. c[k - (i - 1)] = s[k + 1]
      BY <1>4, <3>2
    <3> QED BY <1>0, <2>2, <3>1, <3>3
  <2> QED BY <2>0, <2>1, <2>2
<1> QED BY <1>5, <1>6, <1>7

(* The least of a set of naturals. *)
LEMMA MinFacts ==
  ASSUME NEW S \in SUBSET Nat, S # {}
  PROVE  Min(S) \in S /\ \A y \in S : Min(S) <= y
BY LeastNat DEF Min

(* Ladder::search: in ordered levels the worse ones are the first ones, so *)
(* that what a scan finds is where the price is or belongs.                *)
LEMMA IndexFacts ==
  ASSUME NEW side, NEW s \in Seq(Levels), Ordered(side, s), NEW p \in Int
  PROVE  /\ Index(side, s, p) \in 0 .. Len(s)
         /\ \A k \in 1 .. Len(s) : Better(side, p, s[k].price) <=> k <= Index(side, s, p)
<1> DEFINE M == {n \in 0 .. Len(s) : n = Len(s) \/ ~ Better(side, p, s[n + 1].price)}
<1>0. Len(s) \in Nat /\ DOMAIN s = 1 .. Len(s)
  OBVIOUS
<1>1. Len(s) \in M /\ M \in SUBSET Nat
  BY <1>0
<1>2. PICK n : n = Index(side, s, p)
  OBVIOUS
<1>3. Index(side, s, p) = Min(M)
  BY DEF Index
<1> HIDE DEF M
<1>4. n \in M /\ \A y \in M : n <= y
  <2>1. M # {}
    BY <1>1
  <2>2. Min(M) \in M /\ \A y \in M : Min(M) <= y
    BY <1>1, <2>1, MinFacts
  <2> QED BY <1>2, <1>3, <2>2
<1>5. n \in 0 .. Len(s)
  BY <1>4 DEF M
<1>6. n = Len(s) \/ ~ Better(side, p, s[n + 1].price)
  BY <1>4 DEF M
<1>7. ASSUME NEW k \in 1 .. Len(s), k <= n PROVE Better(side, p, s[k].price)
  <2>1. PICK m : m = k - 1
    OBVIOUS
  <2>2. m \in 0 .. Len(s) /\ m # Len(s) /\ m + 1 = k /\ ~ (n <= m)
    BY <1>0, <1>5, <1>7, <2>1
  <2>3. m \notin M
    BY <1>4, <2>2
  <2>4. Better(side, p, s[m + 1].price)
    BY <2>2, <2>3 DEF M
  <2> QED BY <2>2, <2>4
<1>8. ASSUME NEW k \in 1 .. Len(s), k > n PROVE ~ Better(side, p, s[k].price)
  <2>1. n + 1 \in 1 .. Len(s) /\ n # Len(s)
    <3>1. k \in Int /\ n \in Int /\ n >= 0 /\ k <= Len(s) /\ Len(s) \in Int
      BY <1>0, <1>5
    <3> QED BY <1>8, <3>1
  <2>2. ~ Better(side, p, s[n + 1].price)
    BY <1>6, <2>1
  <2>3. CASE k = n + 1
    BY <2>2, <2>3
  <2>4. CASE k > n + 1
    <3>1. PICK a : a = s[n + 1].price
      OBVIOUS
    <3>2. PICK b : b = s[k].price
      OBVIOUS
    <3>3. Better(side, b, a)
      BY <1>0, <2>1, <2>4, <3>1, <3>2 DEF Ordered
    <3>4. a \in Int /\ b \in Int
      BY <1>0, <2>1, <3>1, <3>2, LevelOf
    <3>5. ~ Better(side, p, b)
      BY <2>2, <3>1, <3>3, <3>4, BetterOrder
    <3> QED BY <3>2, <3>5
  <2>5. k = n + 1 \/ k > n + 1
    BY <1>0, <1>5, <1>8
  <2> QED BY <2>3, <2>4, <2>5
<1>9. ASSUME NEW k \in 1 .. Len(s) PROVE Better(side, p, s[k].price) <=> k <= n
  <2>1. k <= n \/ k > n
    BY <1>0, <1>5
  <2>2. ~ (k <= n /\ k > n)
    BY <1>0, <1>5
  <2> QED BY <1>7, <1>8, <2>1, <2>2
<1> QED BY <1>2, <1>5, <1>9

(* A price that is held is the first that is not worse. *)
LEMMA HeldAt ==
  ASSUME NEW side, NEW s \in Seq(Levels), Ordered(side, s), NEW p \in PricesOf(s)
  PROVE  /\ Index(side, s, p) + 1 \in 1 .. Len(s)
         /\ s[Index(side, s, p) + 1].price = p
<1>1. PICK j \in DOMAIN s : s[j].price = p
  BY DEF PricesOf
<1>2. DOMAIN s = 1 .. Len(s) /\ Len(s) \in Nat /\ p \in Int
  BY <1>1, LevelOf
<1>3. PICK n : n = Index(side, s, p)
  OBVIOUS
<1>4. n \in 0 .. Len(s) /\ \A k \in 1 .. Len(s) : Better(side, p, s[k].price) <=> k <= n
  BY <1>2, <1>3, IndexFacts
<1>5. ~ (j <= n)
  BY <1>1, <1>2, <1>4, BetterOrder
<1>6. n + 1 \in 1 .. Len(s) /\ n + 1 <= j /\ ~ (n + 1 <= n)
  BY <1>2, <1>4, <1>5
<1>7. ~ Better(side, p, s[n + 1].price)
  BY <1>4, <1>6
<1>8. ASSUME n + 1 < j PROVE FALSE
  <2>1. Better(side, s[j].price, s[n + 1].price)
    BY <1>2, <1>6, <1>8 DEF Ordered
  <2> QED BY <1>1, <1>7, <2>1
<1>9. j = n + 1
  BY <1>2, <1>4, <1>6, <1>8
<1> QED BY <1>1, <1>3, <1>6, <1>9

(* The prices of a ladder are those of its set of levels. *)
LEMMA HeldPrices ==
  ASSUME NEW s \in Seq(Levels), NEW p
  PROVE  p \in PricesOf(s) <=> \E x \in ToSet(s) : x.price = p
BY DEF PricesOf, ToSet

(* A set of levels is one of levels. *)
LEMMA SetOfLevels ==
  ASSUME NEW s \in Seq(Levels)
  PROVE  ToSet(s) \in SUBSET Levels
BY LevelOf DEF ToSet

(* No two levels of an ordered ladder have a price in common. *)
LEMMA OnePerPrice ==
  ASSUME NEW side, NEW s \in Seq(Levels), Ordered(side, s), NEW i \in DOMAIN s, NEW j \in DOMAIN s,
         s[i].price = s[j].price
  PROVE  i = j
<1>1. i \in Int /\ j \in Int /\ s[i].price \in Int /\ s[j].price \in Int
  BY LevelOf
<1>2. ~ Better(side, s[i].price, s[j].price) /\ ~ Better(side, s[j].price, s[i].price)
  BY <1>1, BetterOrder
<1>3. ~ (i < j) /\ ~ (j < i)
  BY <1>2 DEF Ordered
<1> QED BY <1>1, <1>3

(* A new level goes behind all the worse ones. *)
LEMMA InsertOrdered ==
  ASSUME NEW side, NEW s \in Seq(Levels), Ordered(side, s), NEW lv \in Levels,
         lv.price \notin PricesOf(s), NEW i \in 1 .. Len(s) + 1,
         \A k \in 1 .. Len(s) : Better(side, lv.price, s[k].price) <=> k < i
  PROVE  /\ InsertAt(s, i, lv) \in Seq(Levels)
         /\ Len(InsertAt(s, i, lv)) = Len(s) + 1
         /\ Ordered(side, InsertAt(s, i, lv))
         /\ ToSet(InsertAt(s, i, lv)) = ToSet(s) \cup {lv}
<1>0. Len(s) \in Nat /\ DOMAIN s = 1 .. Len(s) /\ i \in Nat
  OBVIOUS
<1>1. PICK t : t = InsertAt(s, i, lv)
  OBVIOUS
<1>2. /\ t \in Seq(Levels) /\ Len(t) = Len(s) + 1
      /\ \A k \in 1 .. Len(s) + 1 : t[k] = IF k < i THEN s[k] ELSE IF k = i THEN lv ELSE s[k - 1]
  <2>1. /\ InsertAt(s, i, lv) \in Seq(Levels)
        /\ Len(InsertAt(s, i, lv)) = Len(s) + 1
        /\ \A k \in 1 .. Len(s) + 1 :
             InsertAt(s, i, lv)[k] = IF k < i THEN s[k] ELSE IF k = i THEN lv ELSE s[k - 1]
    BY InsertAtFacts
  <2> QED BY <1>1, <2>1
<1>3. \A k \in 1 .. Len(s) + 1 : t[k] = IF k < i THEN s[k] ELSE IF k = i THEN lv ELSE s[k - 1]
  BY <1>2
<1>4. DOMAIN t = 1 .. Len(s) + 1
  BY <1>0, <1>2
<1>5. ASSUME NEW k \in 1 .. Len(s)
      PROVE  /\ k < i => Better(side, lv.price, s[k].price)
             /\ k >= i => Better(side, s[k].price, lv.price)
  <2>1. s[k].price \in Int /\ lv.price \in Int
    <3>1. s[k].price \in Int
      BY <1>0, LevelOf
    <3>2. lv.price \in 1 .. MaxPrice
      BY DEF Levels
    <3> QED BY <3>1, <3>2, LadderConstants
  <2>2. s[k].price # lv.price
    BY <1>0 DEF PricesOf
  <2>3. k >= i => ~ (k < i)
    BY <1>0
  <2> QED BY <2>1, <2>2, <2>3, BetterOrder
<1>6. Ordered(side, t)
  <2> SUFFICES ASSUME NEW a \in 1 .. Len(s) + 1, NEW b \in 1 .. Len(s) + 1, a < b
               PROVE  Better(side, t[b].price, t[a].price)
    BY <1>4 DEF Ordered
  <2>0. \A m, n \in 1 .. Len(s) : m < n => Better(side, s[n].price, s[m].price)
    BY <1>0 DEF Ordered
  <2>1. CASE b < i
    <3>1. a < i /\ a \in 1 .. Len(s) /\ b \in 1 .. Len(s)
      BY <1>0, <2>1
    <3>2. t[a] = s[a] /\ t[b] = s[b]
      BY <1>3, <2>1, <3>1
    <3> QED BY <2>0, <3>1, <3>2
  <2>2. CASE b = i
    <3>1. a < i /\ a \in 1 .. Len(s) /\ ~ (b < i)
      BY <1>0, <2>2
    <3>2. t[a] = s[a] /\ t[b] = lv
      BY <1>3, <2>2, <3>1
    <3> QED BY <1>5, <3>1, <3>2
  <2>3. CASE b > i /\ a < i
    <3>1. a \in 1 .. Len(s) /\ b - 1 \in 1 .. Len(s) /\ a < b - 1 /\ ~ (b < i) /\ b # i
      BY <1>0, <2>3
    <3>2. t[a] = s[a] /\ t[b] = s[b - 1]
      BY <1>3, <2>3, <3>1
    <3> QED BY <2>0, <3>1, <3>2
  <2>4. CASE b > i /\ a = i
    <3>1. b - 1 \in 1 .. Len(s) /\ b - 1 >= i /\ ~ (b < i) /\ b # i /\ ~ (a < i)
      BY <1>0, <2>4
    <3>2. t[a] = lv /\ t[b] = s[b - 1]
      BY <1>3, <2>4, <3>1
    <3> QED BY <1>5, <3>1, <3>2
  <2>5. CASE b > i /\ a > i
    <3>1. /\ a - 1 \in 1 .. Len(s) /\ b - 1 \in 1 .. Len(s) /\ a - 1 < b - 1
          /\ ~ (b < i) /\ b # i /\ ~ (a < i) /\ a # i
      BY <1>0, <2>5
    <3>2. t[a] = s[a - 1] /\ t[b] = s[b - 1]
      BY <1>3, <3>1
    <3> QED BY <2>0, <3>1, <3>2
  <2>6. b < i \/ b = i \/ (b > i /\ a < i) \/ (b > i /\ a = i) \/ (b > i /\ a > i)
    BY <1>0
  <2> QED BY <2>1, <2>2, <2>3, <2>4, <2>5, <2>6
<1>7. ToSet(t) = ToSet(s) \cup {lv}
  <2>1. ASSUME NEW k \in 1 .. Len(s) + 1 PROVE t[k] \in ToSet(s) \cup {lv}
    <3>1. CASE k < i
      <4>1. k \in 1 .. Len(s)
        BY <1>0, <3>1
      <4> QED BY <1>0, <1>3, <3>1, <4>1 DEF ToSet
    <3>2. CASE k = i
      <4>1. ~ (k < i)
        BY <1>0, <3>2
      <4> QED BY <1>3, <3>2, <4>1
    <3>3. CASE k > i
      <4>1. k - 1 \in 1 .. Len(s) /\ ~ (k < i) /\ k # i
        BY <1>0, <3>3
      <4> QED BY <1>0, <1>3, <4>1 DEF ToSet
    <3>4. k < i \/ k = i \/ k > i
      BY <1>0
    <3> QED BY <3>1, <3>2, <3>3, <3>4
  <2>2. ASSUME NEW k \in 1 .. Len(s) PROVE s[k] \in ToSet(t)
    <3>1. CASE k < i
      <4>1. k \in 1 .. Len(s) + 1
        BY <1>0
      <4> QED BY <1>3, <1>4, <3>1, <4>1 DEF ToSet
    <3>2. CASE k >= i
      <4>1. PICK m : m = k + 1
        OBVIOUS
      <4>2. m \in 1 .. Len(s) + 1 /\ ~ (m < i) /\ m # i /\ m - 1 = k
        BY <1>0, <3>2, <4>1
      <4>3. t[m] = s[k]
        BY <1>3, <4>2
      <4> QED BY <1>4, <4>2, <4>3 DEF ToSet
    <3>3. k < i \/ k >= i
      BY <1>0
    <3> QED BY <3>1, <3>2, <3>3
  <2>3. lv \in ToSet(t)
    <3>1. ~ (i < i)
      BY <1>0
    <3>2. t[i] = lv
      BY <1>3, <3>1
    <3> QED BY <1>4, <3>2 DEF ToSet
  <2>4. ToSet(t) \subseteq ToSet(s) \cup {lv}
    BY <1>4, <2>1 DEF ToSet
  <2>5. ToSet(s) \subseteq ToSet(t)
    BY <1>0, <2>2 DEF ToSet
  <2> QED BY <2>3, <2>4, <2>5
<1> QED BY <1>1, <1>2, <1>6, <1>7

(* Without one of its levels a ladder is still in order. *)
LEMMA RemoveOrdered ==
  ASSUME NEW side, NEW s \in Seq(Levels), Ordered(side, s), NEW i \in 1 .. Len(s)
  PROVE  /\ RemoveAt(s, i) \in Seq(Levels)
         /\ Len(RemoveAt(s, i)) = Len(s) - 1
         /\ Ordered(side, RemoveAt(s, i))
         /\ ToSet(RemoveAt(s, i)) = ToSet(s) \ {s[i]}
<1>0. Len(s) \in Nat /\ DOMAIN s = 1 .. Len(s) /\ i \in Nat
  OBVIOUS
<1>1. PICK t : t = RemoveAt(s, i)
  OBVIOUS
<1>2. t \in Seq(Levels) /\ Len(t) = Len(s) - 1
  BY <1>1, RemoveAtFacts
<1>3. \A k \in 1 .. Len(s) - 1 : t[k] = IF k < i THEN s[k] ELSE s[k + 1]
  BY <1>1, RemoveAtFacts
<1>4. DOMAIN t = 1 .. Len(s) - 1
  BY <1>0, <1>2
<1> DEFINE at(k) == IF k < i THEN k ELSE k + 1
<1>5. \A k \in 1 .. Len(s) - 1 : at(k) \in 1 .. Len(s) /\ at(k) # i
  BY <1>0
<1>6. \A k \in 1 .. Len(s) - 1 : t[k] = s[at(k)]
  BY <1>3
<1>7. \A k, m \in 1 .. Len(s) - 1 : k < m => at(k) < at(m)
  BY <1>0
<1>8. \A k \in 1 .. Len(s) : k # i => \E m \in 1 .. Len(s) - 1 : at(m) = k
  <2> SUFFICES ASSUME NEW k \in 1 .. Len(s), k # i
               PROVE  \E m \in 1 .. Len(s) - 1 : at(m) = k
    OBVIOUS
  <2>1. CASE k < i
    <3>1. k \in 1 .. Len(s) - 1 /\ at(k) = k
      BY <1>0, <2>1
    <3> QED BY <3>1
  <2>2. CASE k > i
    <3>1. k - 1 \in 1 .. Len(s) - 1 /\ at(k - 1) = k
      BY <1>0, <2>2
    <3> QED BY <3>1
  <2>3. k < i \/ k > i
    BY <1>0
  <2> QED BY <2>1, <2>2, <2>3
<1> HIDE DEF at
<1>9. Ordered(side, t)
  <2> SUFFICES ASSUME NEW a \in 1 .. Len(s) - 1, NEW b \in 1 .. Len(s) - 1, a < b
               PROVE  Better(side, t[b].price, t[a].price)
    BY <1>4 DEF Ordered
  <2>1. at(a) \in DOMAIN s /\ at(b) \in DOMAIN s /\ at(a) < at(b)
    BY <1>0, <1>5, <1>7
  <2>2. Better(side, s[at(b)].price, s[at(a)].price)
    BY <2>1 DEF Ordered
  <2> QED BY <1>6, <2>2
<1>10. \A k \in 1 .. Len(s) : s[k] = s[i] => k = i
  <2> SUFFICES ASSUME NEW k \in DOMAIN s, s[k] = s[i] PROVE k = i
    BY <1>0
  <2>1. i \in DOMAIN s /\ s[k].price = s[i].price
    BY <1>0
  <2> QED BY <2>1, OnePerPrice
<1>11. ToSet(t) = ToSet(s) \ {s[i]}
  <2>1. ASSUME NEW k \in 1 .. Len(s) - 1 PROVE t[k] \in ToSet(s) \ {s[i]}
    <3>1. at(k) \in 1 .. Len(s) /\ at(k) # i /\ t[k] = s[at(k)]
      BY <1>5, <1>6
    <3> QED BY <1>0, <1>10, <3>1 DEF ToSet
  <2>2. ASSUME NEW k \in 1 .. Len(s), s[k] # s[i] PROVE s[k] \in ToSet(t)
    <3>1. PICK m \in 1 .. Len(s) - 1 : at(m) = k
      BY <1>8, <2>2
    <3>2. t[m] = s[k]
      BY <1>6, <3>1
    <3> QED BY <1>4, <3>2 DEF ToSet
  <2>3. ToSet(t) \subseteq ToSet(s) \ {s[i]}
    BY <1>4, <2>1 DEF ToSet
  <2>4. ToSet(s) \ {s[i]} \subseteq ToSet(t)
    BY <1>0, <2>2 DEF ToSet
  <2> QED BY <2>3, <2>4
<1> QED BY <1>1, <1>2, <1>9, <1>11

(* A level may be replaced by one of the same price. *)
LEMMA ReplaceOrdered ==
  ASSUME NEW side, NEW s \in Seq(Levels), Ordered(side, s), NEW i \in 1 .. Len(s), NEW lv \in Levels,
         s[i].price = lv.price
  PROVE  /\ ReplaceAt(s, i, lv) \in Seq(Levels)
         /\ Len(ReplaceAt(s, i, lv)) = Len(s)
         /\ Ordered(side, ReplaceAt(s, i, lv))
         /\ ToSet(ReplaceAt(s, i, lv)) = (ToSet(s) \ {s[i]}) \cup {lv}
<1>0. Len(s) \in Nat /\ DOMAIN s = 1 .. Len(s) /\ i \in Nat
  OBVIOUS
<1>1. PICK t : t = ReplaceAt(s, i, lv)
  OBVIOUS
<1>2. t \in Seq(Levels) /\ Len(t) = Len(s)
  BY <1>0, <1>1 DEF ReplaceAt
<1>3. DOMAIN t = 1 .. Len(s) /\ \A k \in 1 .. Len(s) : t[k] = IF k = i THEN lv ELSE s[k]
  BY <1>0, <1>1 DEF ReplaceAt
<1>4. \A k \in 1 .. Len(s) : t[k].price = s[k].price
  BY <1>3
<1>5. Ordered(side, t)
  BY <1>0, <1>3, <1>4 DEF Ordered
<1>6. \A k \in 1 .. Len(s) : s[k] = s[i] => k = i
  <2> SUFFICES ASSUME NEW k \in DOMAIN s, s[k] = s[i] PROVE k = i
    BY <1>0
  <2>1. i \in DOMAIN s /\ s[k].price = s[i].price
    BY <1>0
  <2> QED BY <2>1, OnePerPrice
<1>7. ToSet(t) \subseteq (ToSet(s) \ {s[i]}) \cup {lv}
  BY <1>0, <1>3, <1>6 DEF ToSet
<1>8. (ToSet(s) \ {s[i]}) \cup {lv} \subseteq ToSet(t)
  <2>1. lv \in ToSet(t)
    BY <1>3 DEF ToSet
  <2>2. ASSUME NEW k \in 1 .. Len(s), s[k] # s[i] PROVE s[k] \in ToSet(t)
    <3>1. k # i /\ t[k] = s[k]
      BY <1>3, <2>2
    <3> QED BY <1>3, <3>1 DEF ToSet
  <2>3. ToSet(s) \ {s[i]} \subseteq ToSet(t)
    BY <1>0, <2>2 DEF ToSet
  <2> QED BY <2>1, <2>3
<1>9. ToSet(t) = (ToSet(s) \ {s[i]}) \cup {lv}
  BY <1>7, <1>8
<1> QED BY <1>1, <1>2, <1>5, <1>9

-----------------------------------------------------------------------------
(***************************************************************************)
(* One update of an exact set of levels, at price p to quantity q, in each *)
(* of the ways Ladder::apply has.                                          *)
(***************************************************************************)

(* The listing after the update. *)
Now(listing, p, q) == [listing EXCEPT ![p] = q]

(* A listing with one price updated. *)
LEMMA NowFacts ==
  ASSUME NEW listing \in Listings, NEW p \in 1 .. MaxPrice, NEW q \in Nat
  PROVE  /\ Now(listing, p, q) \in Listings
         /\ Now(listing, p, q)[p] = q
         /\ \A r \in 1 .. MaxPrice : r # p => Now(listing, p, q)[r] = listing[r]
         /\ \A r \in 1 .. MaxPrice : listing[r] \in Nat
<1>1. 1 .. MaxPrice \subseteq Prices
  BY LadderConstants DEF Prices
<1> QED BY <1>1 DEF Now, Listings

(* A level's price and quantity. *)
LEMMA LevelFacts ==
  ASSUME NEW x \in Levels
  PROVE  x.price \in 1 .. MaxPrice /\ x.price \in Int /\ x.qty \in Nat /\ x.qty > 0
<1>1. x.price \in 1 .. MaxPrice /\ x.qty \in Nat \ {0}
  BY DEF Levels
<1> QED BY <1>1, LadderConstants

(* An update beyond the horizon is about what is not known. *)
LEMMA ExactBeyond ==
  ASSUME NEW side, NEW H \in SUBSET Levels, NEW h, NEW listing \in Listings,
         Exact(side, H, h, listing), NEW p \in 1 .. MaxPrice, NEW q \in Nat, Beyond(side, h, p)
  PROVE  Exact(side, H, h, Now(listing, p, q))
<1>1. PICK new : new = Now(listing, p, q)
  OBVIOUS
<1>2. \A r \in 1 .. MaxPrice : r # p => new[r] = listing[r]
  BY <1>1, NowFacts, ZenonT(30)
<1>3. ASSUME NEW x \in H PROVE ~ Beyond(side, h, x.price) /\ x.qty = new[x.price]
  <2>1. ~ Beyond(side, h, x.price) /\ x.qty = listing[x.price] /\ x.price \in 1 .. MaxPrice
    BY LevelFacts DEF Exact
  <2> QED BY <1>2, <2>1
<1>4. ASSUME NEW r \in 1 .. MaxPrice, ~ Beyond(side, h, r), new[r] > 0
      PROVE  \E x \in H : x.price = r
  BY <1>2, <1>4 DEF Exact
<1>5. Exact(side, H, h, new)
  BY <1>3, <1>4 DEF Exact
<1> QED BY <1>1, <1>5

(* The removal of a price that is not held changes nothing. *)
LEMMA ExactUnlisted ==
  ASSUME NEW side, NEW H \in SUBSET Levels, NEW h, NEW listing \in Listings,
         Exact(side, H, h, listing), NEW p \in 1 .. MaxPrice,
         ~ Beyond(side, h, p), \A x \in H : x.price # p
  PROVE  Exact(side, H, h, Now(listing, p, 0))
<1>1. PICK new : new = Now(listing, p, 0)
  OBVIOUS
<1>0. 0 \in Nat
  OBVIOUS
<1>2. new[p] = 0 /\ \A r \in 1 .. MaxPrice : r # p => new[r] = listing[r]
  <2>1. PICK q : q = 0
    OBVIOUS
  <2>2. q \in Nat /\ new = Now(listing, p, q)
    BY <1>0, <1>1, <2>1
  <2>3. /\ Now(listing, p, q)[p] = q
        /\ \A r \in 1 .. MaxPrice : r # p => Now(listing, p, q)[r] = listing[r]
    BY <2>2, NowFacts
  <2> QED BY <2>1, <2>2, <2>3
<1>3. ASSUME NEW x \in H PROVE ~ Beyond(side, h, x.price) /\ x.qty = new[x.price]
  <2>1. ~ Beyond(side, h, x.price) /\ x.qty = listing[x.price] /\ x.price \in 1 .. MaxPrice
    BY LevelFacts DEF Exact
  <2> QED BY <1>2, <2>1
<1>4. ASSUME NEW r \in 1 .. MaxPrice, ~ Beyond(side, h, r), new[r] > 0
      PROVE  \E x \in H : x.price = r
  <2>1. r # p
    BY <1>2, <1>4
  <2> QED BY <1>2, <1>4, <2>1 DEF Exact
<1>5. Exact(side, H, h, new)
  BY <1>3, <1>4 DEF Exact
<1> QED BY <1>1, <1>5

(* A level that is removed. *)
LEMMA ExactWithout ==
  ASSUME NEW side, NEW H \in SUBSET Levels, NEW h, NEW listing \in Listings,
         Exact(side, H, h, listing), NEW x \in H, \A y \in H : y.price = x.price => y = x
  PROVE  Exact(side, H \ {x}, h, Now(listing, x.price, 0))
<1>0. 0 \in Nat /\ x.price \in 1 .. MaxPrice
  BY LevelFacts
<1>1. PICK new : new = Now(listing, x.price, 0)
  OBVIOUS
<1>2. new[x.price] = 0 /\ \A r \in 1 .. MaxPrice : r # x.price => new[r] = listing[r]
  <2>1. PICK p : p = x.price
    OBVIOUS
  <2>2. PICK q : q = 0
    OBVIOUS
  <2>3. p \in 1 .. MaxPrice /\ q \in Nat /\ new = Now(listing, p, q)
    BY <1>0, <1>1, <2>1, <2>2
  <2>4. new[p] = q /\ \A r \in 1 .. MaxPrice : r # p => new[r] = listing[r]
    <3>1. p \in 1 .. MaxPrice /\ q \in Nat
      BY <2>3
    <3>2. /\ Now(listing, p, q) \in Listings
          /\ Now(listing, p, q)[p] = q
          /\ \A r \in 1 .. MaxPrice : r # p => Now(listing, p, q)[r] = listing[r]
          /\ \A r \in 1 .. MaxPrice : listing[r] \in Nat
      BY <3>1, NowFacts
    <3> QED BY <2>3, <3>2
  <2> QED BY <2>1, <2>2, <2>4
<1>3. ASSUME NEW y \in H \ {x} PROVE ~ Beyond(side, h, y.price) /\ y.qty = new[y.price]
  <2>1. ~ Beyond(side, h, y.price) /\ y.qty = listing[y.price] /\ y.price \in 1 .. MaxPrice
    BY LevelFacts DEF Exact
  <2>2. y.price # x.price
    OBVIOUS
  <2> QED BY <1>2, <2>1, <2>2
<1>4. ASSUME NEW r \in 1 .. MaxPrice, ~ Beyond(side, h, r), new[r] > 0
      PROVE  \E y \in H \ {x} : y.price = r
  <2>1. r # x.price
    BY <1>2, <1>4
  <2>2. PICK y \in H : y.price = r
    BY <1>2, <1>4, <2>1 DEF Exact
  <2> QED BY <2>1, <2>2
<1>5. Exact(side, H \ {x}, h, new)
  BY <1>3, <1>4 DEF Exact
<1> QED BY <1>1, <1>5

(* A level that is added, or that replaces the one at its price. *)
LEMMA ExactWith ==
  ASSUME NEW side, NEW H \in SUBSET Levels, NEW h, NEW listing \in Listings,
         Exact(side, H, h, listing), NEW lv \in Levels, ~ Beyond(side, h, lv.price),
         NEW G \in SUBSET H, \A y \in H : y \in G <=> y.price # lv.price
  PROVE  Exact(side, G \cup {lv}, h, Now(listing, lv.price, lv.qty))
<1>0. lv.qty \in Nat /\ lv.price \in 1 .. MaxPrice
  BY LevelFacts
<1>1. PICK new : new = Now(listing, lv.price, lv.qty)
  OBVIOUS
<1>2. new[lv.price] = lv.qty /\ \A r \in 1 .. MaxPrice : r # lv.price => new[r] = listing[r]
  <2>1. PICK p : p = lv.price
    OBVIOUS
  <2>2. PICK q : q = lv.qty
    OBVIOUS
  <2>3. p \in 1 .. MaxPrice /\ q \in Nat /\ new = Now(listing, p, q)
    BY <1>0, <1>1, <2>1, <2>2
  <2>4. new[p] = q /\ \A r \in 1 .. MaxPrice : r # p => new[r] = listing[r]
    <3>1. p \in 1 .. MaxPrice /\ q \in Nat
      BY <2>3
    <3>2. /\ Now(listing, p, q) \in Listings
          /\ Now(listing, p, q)[p] = q
          /\ \A r \in 1 .. MaxPrice : r # p => Now(listing, p, q)[r] = listing[r]
          /\ \A r \in 1 .. MaxPrice : listing[r] \in Nat
      BY <3>1, NowFacts
    <3> QED BY <2>3, <3>2
  <2> QED BY <2>1, <2>2, <2>4
<1>3. ASSUME NEW y \in G \cup {lv} PROVE ~ Beyond(side, h, y.price) /\ y.qty = new[y.price]
  <2>1. CASE y = lv
    BY <1>2, <2>1
  <2>2. CASE y \in G
    <3>1. ~ Beyond(side, h, y.price) /\ y.qty = listing[y.price] /\ y.price \in 1 .. MaxPrice
      BY <2>2, LevelFacts DEF Exact
    <3>2. y.price # lv.price
      BY <2>2
    <3> QED BY <1>2, <3>1, <3>2
  <2> QED BY <2>1, <2>2
<1>4. ASSUME NEW r \in 1 .. MaxPrice, ~ Beyond(side, h, r), new[r] > 0
      PROVE  \E y \in G \cup {lv} : y.price = r
  <2>1. CASE r # lv.price
    <3>1. PICK y \in H : y.price = r
      BY <1>2, <1>4, <2>1 DEF Exact
    <3> QED BY <2>1, <3>1
  <2> QED BY <2>1
<1>5. Exact(side, G \cup {lv}, h, new)
  BY <1>3, <1>4 DEF Exact
<1> QED BY <1>1, <1>5

(* x is the worst of a set of levels. *)
Worst(side, x, H) == x \in H /\ \A y \in H : y = x \/ Better(side, y.price, x.price)

(* A level worse than all in a full ladder is dropped, and with it all     *)
(* that is worse than those.                                               *)
LEMMA ExactDropsNew ==
  ASSUME NEW side, NEW H \in SUBSET Levels, NEW h \in Prices, NEW listing \in Listings,
         Exact(side, H, h, listing), NEW p \in 1 .. MaxPrice, NEW q \in Nat,
         NEW x, Worst(side, x, H), Better(side, x.price, p)
  PROVE  Exact(side, H, x.price, Now(listing, p, q))
<1>0. x \in H /\ x.price \in 1 .. MaxPrice /\ x.price \in Int /\ x.price # 0
  BY LevelFacts DEF Worst
<1>01. p \in Int /\ h \in Int
  BY LadderConstants DEF Prices
<1>1. PICK new : new = Now(listing, p, q)
  OBVIOUS
<1>2. \A r \in 1 .. MaxPrice : r # p => new[r] = listing[r]
  BY <1>1, NowFacts, ZenonT(30)
<1>3. ASSUME NEW y \in H PROVE ~ Beyond(side, x.price, y.price) /\ y.qty = new[y.price]
  <2>1. y.qty = listing[y.price] /\ y.price \in 1 .. MaxPrice /\ y.price \in Int
    BY LevelFacts DEF Exact
  <2>2. ~ Better(side, x.price, y.price)
    BY <1>0, <2>1, BetterOrder DEF Worst
  <2>3. y.price # p
    BY <2>2
  <2> QED BY <1>2, <2>1, <2>2, <2>3 DEF Beyond
<1>4. ASSUME NEW r \in 1 .. MaxPrice, ~ Beyond(side, x.price, r), new[r] > 0
      PROVE  \E y \in H : y.price = r
  <2>1. r # p /\ r \in Int /\ ~ Better(side, x.price, r)
    BY <1>0, <1>4, LadderConstants DEF Beyond
  <2>2. ~ Beyond(side, h, x.price)
    BY <1>0 DEF Exact
  <2>3. ~ Beyond(side, h, r)
    BY <1>0, <1>01, <2>1, <2>2, BetterOrder DEF Beyond
  <2> QED BY <1>2, <1>4, <2>1, <2>3 DEF Exact
<1>5. Exact(side, H, x.price, new)
  BY <1>3, <1>4 DEF Exact
<1> QED BY <1>1, <1>5

(* A better level takes the place of the worst in a full ladder, and what  *)
(* is worse than the worst that is left is not known any more.             *)
LEMMA ExactDropsWorst ==
  ASSUME NEW side, NEW H \in SUBSET Levels, NEW h \in Prices, NEW listing \in Listings,
         Exact(side, H, h, listing), NEW lv \in Levels, \A y \in H : y.price # lv.price,
         NEW x, Worst(side, x, H), Better(side, lv.price, x.price),
         NEW w, Worst(side, w, (H \ {x}) \cup {lv})
  PROVE  Exact(side, (H \ {x}) \cup {lv}, w.price, Now(listing, lv.price, lv.qty))
<1>0. x \in H /\ x.price \in 1 .. MaxPrice /\ x.price \in Int
  BY LevelFacts DEF Worst
<1>01. lv.price \in 1 .. MaxPrice /\ lv.price \in Int /\ h \in Int /\ lv.qty \in Nat
  BY LevelFacts, LadderConstants DEF Prices
<1>02. w \in (H \ {x}) \cup {lv} /\ w.price \in 1 .. MaxPrice /\ w.price \in Int /\ w.price # 0
  BY LevelFacts DEF Worst
<1>03. Better(side, w.price, x.price)
  BY <1>02 DEF Worst
<1>1. PICK new : new = Now(listing, lv.price, lv.qty)
  OBVIOUS
<1>2. new[lv.price] = lv.qty /\ \A r \in 1 .. MaxPrice : r # lv.price => new[r] = listing[r]
  <2>1. PICK p : p = lv.price
    OBVIOUS
  <2>2. PICK q : q = lv.qty
    OBVIOUS
  <2>3. p \in 1 .. MaxPrice /\ q \in Nat /\ new = Now(listing, p, q)
    BY <1>01, <1>1, <2>1, <2>2
  <2>4. new[p] = q /\ \A r \in 1 .. MaxPrice : r # p => new[r] = listing[r]
    <3>1. p \in 1 .. MaxPrice /\ q \in Nat
      BY <2>3
    <3>2. /\ Now(listing, p, q) \in Listings
          /\ Now(listing, p, q)[p] = q
          /\ \A r \in 1 .. MaxPrice : r # p => Now(listing, p, q)[r] = listing[r]
          /\ \A r \in 1 .. MaxPrice : listing[r] \in Nat
      BY <3>1, NowFacts
    <3> QED BY <2>3, <3>2
  <2> QED BY <2>1, <2>2, <2>4
<1>3. ASSUME NEW y \in (H \ {x}) \cup {lv}
      PROVE  ~ Beyond(side, w.price, y.price) /\ y.qty = new[y.price]
  <2>0. y \in Levels
    OBVIOUS
  <2>1. y.price \in Int /\ y.price \in 1 .. MaxPrice
    BY <2>0, LevelFacts
  <2>2. ~ Better(side, w.price, y.price)
    BY <1>02, <2>1, BetterOrder DEF Worst
  <2>3. CASE y = lv
    BY <1>2, <2>2, <2>3 DEF Beyond
  <2>4. CASE y \in H
    <3>1. y.price # lv.price /\ y.qty = listing[y.price]
      BY <2>4 DEF Exact
    <3> QED BY <1>2, <2>1, <2>2, <3>1 DEF Beyond
  <2> QED BY <2>3, <2>4
<1>4. ASSUME NEW r \in 1 .. MaxPrice, ~ Beyond(side, w.price, r), new[r] > 0
      PROVE  \E y \in (H \ {x}) \cup {lv} : y.price = r
  <2>1. r \in Int /\ ~ Better(side, w.price, r)
    BY <1>02, <1>4, LadderConstants DEF Beyond
  <2>2. Better(side, r, x.price)
    BY <1>0, <1>02, <1>03, <2>1, BetterOrder
  <2>3. ~ Beyond(side, h, x.price)
    BY <1>0 DEF Exact
  <2>4. ~ Beyond(side, h, r)
    BY <1>0, <1>01, <2>1, <2>2, <2>3, BetterOrder DEF Beyond
  <2>5. CASE r # lv.price
    <3>1. PICK y \in H : y.price = r
      BY <1>2, <1>4, <2>4, <2>5 DEF Exact
    <3>2. y # x
      BY <1>0, <2>2, <3>1, BetterOrder
    <3> QED BY <3>1, <3>2
  <2> QED BY <2>5
<1>5. Exact(side, (H \ {x}) \cup {lv}, w.price, new)
  BY <1>3, <1>4 DEF Exact
<1> QED BY <1>1, <1>5

-----------------------------------------------------------------------------
(***************************************************************************)
(* Ladder::insert and Ladder::apply.                                       *)
(***************************************************************************)

(* levels.remove(0) *)
LEMMA TailIsRemove ==
  ASSUME NEW s \in Seq(Levels), s # <<>>
  PROVE  Tail(s) = RemoveAt(s, 1)
<1>1. Len(s) \in Nat /\ Len(s) >= 1 /\ 1 \in 1 .. Len(s)
  OBVIOUS
<1>2. PICK t : t = Tail(s)
  OBVIOUS
<1>3. PICK r : r = RemoveAt(s, 1)
  OBVIOUS
<1>4. t \in Seq(Levels) /\ Len(t) = Len(s) - 1 /\ \A k \in 1 .. Len(s) - 1 : t[k] = s[k + 1]
  BY <1>1, <1>2
<1>5. /\ r \in Seq(Levels) /\ Len(r) = Len(s) - 1
      /\ \A k \in 1 .. Len(s) - 1 : r[k] = IF k < 1 THEN s[k] ELSE s[k + 1]
  BY <1>1, <1>3, RemoveAtFacts
<1>6. \A k \in 1 .. Len(s) - 1 : ~ (k < 1)
  BY <1>1
<1>7. \A k \in 1 .. Len(s) - 1 : t[k] = r[k]
  BY <1>4, <1>5, <1>6
<1>8. t = r
  BY <1>1, <1>4, <1>5, <1>7
<1> QED BY <1>2, <1>3, <1>8

(* levels.first() is the worst. *)
LEMMA FirstIsWorst ==
  ASSUME NEW side, NEW s \in Seq(Levels), Ordered(side, s), Len(s) >= 1
  PROVE  Worst(side, s[1], ToSet(s)) /\ s[1] \in Levels
<1>1. Len(s) \in Nat /\ DOMAIN s = 1 .. Len(s) /\ 1 \in 1 .. Len(s)
  OBVIOUS
<1>2. s[1] \in ToSet(s) /\ s[1] \in Levels
  BY <1>1 DEF ToSet
<1>3. ASSUME NEW k \in 1 .. Len(s) PROVE s[k] = s[1] \/ Better(side, s[k].price, s[1].price)
  <2>1. k = 1 \/ 1 < k
    BY <1>1
  <2> QED BY <1>1, <2>1 DEF Ordered
<1>4. \A y \in ToSet(s) : y = s[1] \/ Better(side, y.price, s[1].price)
  BY <1>1, <1>3 DEF ToSet
<1> QED BY <1>2, <1>4 DEF Worst

(* A level with the same price as another is that one. *)
LEMMA SameLevel ==
  ASSUME NEW side, NEW s \in Seq(Levels), Ordered(side, s), NEW i \in 1 .. Len(s)
  PROVE  s[i] \in ToSet(s) /\ \A y \in ToSet(s) : y.price = s[i].price => y = s[i]
<1>1. i \in DOMAIN s
  OBVIOUS
<1>2. s[i] \in ToSet(s)
  BY <1>1 DEF ToSet
<1>3. ASSUME NEW y \in ToSet(s), y.price = s[i].price PROVE y = s[i]
  <2>1. PICK j \in DOMAIN s : y = s[j]
    BY DEF ToSet
  <2>2. s[j].price = s[i].price
    BY <1>3, <2>1
  <2>3. j = i
    BY <1>1, <2>2, OnePerPrice
  <2> QED BY <2>1, <2>3
<1> QED BY <1>2, <1>3

(* A ladder, from its parts. *)
LEMMA LadderFrom ==
  ASSUME NEW side, NEW s \in Seq(Levels), NEW h \in Prices, NEW listing,
         Len(s) <= LevelsPerSide, Ordered(side, s), Exact(side, ToSet(s), h, listing)
  PROVE  LadderIs(side, [levels |-> s, horizon |-> h], listing)
BY DEF LadderIs, Ladders

(* The parts of a ladder. *)
LEMMA LadderParts ==
  ASSUME NEW side, NEW l, NEW listing, LadderIs(side, l, listing)
  PROVE  /\ l.levels \in Seq(Levels) /\ l.horizon \in Prices
         /\ l = [levels |-> l.levels, horizon |-> l.horizon]
         /\ Len(l.levels) <= LevelsPerSide /\ Len(l.levels) \in Nat
         /\ Ordered(side, l.levels)
         /\ Exact(side, ToSet(l.levels), l.horizon, listing)
<1>1. l \in Ladders
  BY DEF LadderIs
<1>2. l.levels \in Seq(Levels) /\ l.horizon \in Prices
      /\ l = [levels |-> l.levels, horizon |-> l.horizon]
  BY <1>1 DEF Ladders
<1> QED BY <1>2 DEF LadderIs

(* Ladder::insert keeps a ladder exact, full or not. *)
LEMMA InsertIsExact ==
  ASSUME NEW side, NEW l, NEW listing \in Listings, LadderIs(side, l, listing), NEW lv \in Levels,
         lv.price \notin PricesOf(l.levels),
         Len(l.levels) < LevelsPerSide => ~ Beyond(side, l.horizon, lv.price)
  PROVE  /\ LadderIs(side, Insert(side, l, lv), Now(listing, lv.price, lv.qty))
         /\ Len(l.levels) = LevelsPerSide => Len(Insert(side, l, lv).levels) = LevelsPerSide
<1>1. PICK s : s = l.levels
  OBVIOUS
<1>2. PICK h : h = l.horizon
  OBVIOUS
<1>3. PICK index : index = Index(side, s, lv.price)
  OBVIOUS
<1>4. PICK kept : kept = InsertAt(Tail(s), index, lv)
  OBVIOUS
<1>5. /\ s \in Seq(Levels) /\ h \in Prices /\ l = [levels |-> s, horizon |-> h]
      /\ Len(s) <= LevelsPerSide /\ Len(s) \in Nat /\ Ordered(side, s)
      /\ Exact(side, ToSet(s), h, listing)
  BY <1>1, <1>2, LadderParts
<1>6. lv.price \in 1 .. MaxPrice /\ lv.price \in Int /\ lv.qty \in Nat /\ lv.qty > 0
  BY LevelFacts
<1>7. ToSet(s) \in SUBSET Levels /\ \A y \in ToSet(s) : y.price # lv.price
  BY <1>1, <1>5, SetOfLevels, HeldPrices
<1>8. index \in 0 .. Len(s)
  BY <1>3, <1>5, <1>6, IndexFacts
<1>9. \A k \in 1 .. Len(s) : Better(side, lv.price, s[k].price) <=> k <= index
  BY <1>3, <1>5, <1>6, IndexFacts
<1>10. LevelsPerSide \in Nat \ {0} /\ DOMAIN s = 1 .. Len(s)
  BY <1>5, LadderConstants
<1>11. Insert(side, l, lv) =
         IF Len(s) < LevelsPerSide THEN [levels |-> InsertAt(s, index + 1, lv), horizon |-> h]
         ELSE IF index = 0 THEN [levels |-> s, horizon |-> s[1].price]
         ELSE [levels |-> kept, horizon |-> kept[1].price]
  BY <1>1, <1>2, <1>3, <1>4, <1>5 DEF Insert
<1>12. CASE Len(s) < LevelsPerSide
  <2>1. PICK t : t = InsertAt(s, index + 1, lv)
    OBVIOUS
  <2>2. index + 1 \in 1 .. Len(s) + 1
    BY <1>5, <1>8
  <2>3. \A k \in 1 .. Len(s) : Better(side, lv.price, s[k].price) <=> k < index + 1
    <3>1. \A k \in 1 .. Len(s) : k <= index <=> k < index + 1
      BY <1>5, <1>8
    <3> QED BY <1>9, <3>1
  <2>4. lv.price \notin PricesOf(s)
    BY <1>1
  <2>5. PICK i : i = index + 1
    OBVIOUS
  <2>6. t \in Seq(Levels) /\ Len(t) = Len(s) + 1 /\ Ordered(side, t)
        /\ ToSet(t) = ToSet(s) \cup {lv}
    BY <1>5, <2>1, <2>2, <2>3, <2>4, <2>5, InsertOrdered
  <2>7. ~ Beyond(side, h, lv.price)
    BY <1>1, <1>2, <1>12
  <2>8. Exact(side, ToSet(t), h, Now(listing, lv.price, lv.qty))
    <3>1. PICK H : H = ToSet(s)
      OBVIOUS
    <3>2. H \in SUBSET Levels /\ H \in SUBSET H /\ \A y \in H : y \in H <=> y.price # lv.price
      BY <1>7, <3>1
    <3>3. Exact(side, H, h, listing)
      BY <1>5, <3>1
    <3>4. Exact(side, H \cup {lv}, h, Now(listing, lv.price, lv.qty))
      BY <2>7, <3>2, <3>3, ExactWith
    <3> QED BY <2>6, <3>1, <3>4
  <2>9. Len(t) <= LevelsPerSide
    BY <1>5, <1>10, <1>12, <2>6
  <2>10. LadderIs(side, [levels |-> t, horizon |-> h], Now(listing, lv.price, lv.qty))
    BY <1>5, <2>6, <2>8, <2>9, LadderFrom
  <2> QED BY <1>1, <1>5, <1>10, <1>11, <1>12, <2>1, <2>10
<1>13. CASE ~ (Len(s) < LevelsPerSide)
  <2>1. Len(s) = LevelsPerSide /\ Len(s) >= 1 /\ s # <<>> /\ 1 \in 1 .. Len(s)
    <3>1. PICK n : n = Len(s)
      OBVIOUS
    <3>2. n = LevelsPerSide /\ n >= 1 /\ 1 \in 1 .. n
      <4>1. n \in Nat /\ n <= LevelsPerSide /\ ~ (n < LevelsPerSide) /\ LevelsPerSide \in Nat \ {0}
        BY <1>5, <1>10, <1>13, <3>1
      <4> QED BY <4>1
    <3>3. s # <<>>
      <4>1. Len(<<>>) = 0
        OBVIOUS
      <4>2. n # 0
        BY <3>2
      <4> QED BY <3>1, <4>1, <4>2
    <3> QED BY <3>1, <3>2, <3>3
  <2>2. Worst(side, s[1], ToSet(s)) /\ s[1] \in Levels
    BY <1>5, <2>1, FirstIsWorst
  <2>3. s[1].price \in 1 .. MaxPrice /\ s[1].price \in Int
    BY <2>2, LevelFacts
  <2>4. CASE index = 0
    <3>1. ~ Better(side, lv.price, s[1].price)
      BY <1>5, <1>9, <2>1, <2>4
    <3>2. s[1].price # lv.price
      BY <1>7, <2>2 DEF Worst
    <3>3. Better(side, s[1].price, lv.price)
      BY <1>6, <2>3, <3>1, <3>2, BetterOrder
    <3>4. Exact(side, ToSet(s), s[1].price, Now(listing, lv.price, lv.qty))
      <4>1. PICK H : H = ToSet(s)
        OBVIOUS
      <4>2. PICK x : x = s[1]
        OBVIOUS
      <4>3. PICK p : p = lv.price
        OBVIOUS
      <4>4. PICK q : q = lv.qty
        OBVIOUS
      <4>5. /\ H \in SUBSET Levels /\ Exact(side, H, h, listing) /\ p \in 1 .. MaxPrice /\ q \in Nat
            /\ Worst(side, x, H) /\ Better(side, x.price, p)
        BY <1>5, <1>6, <1>7, <2>2, <3>3, <4>1, <4>2, <4>3, <4>4
      <4>6. Exact(side, H, x.price, Now(listing, p, q))
        BY <1>5, <4>5, ExactDropsNew
      <4> QED BY <4>1, <4>2, <4>3, <4>4, <4>6
    <3>5. s[1].price \in Prices
      BY <2>3, LadderConstants DEF Prices
    <3>6. LadderIs(side, [levels |-> s, horizon |-> s[1].price], Now(listing, lv.price, lv.qty))
      BY <1>5, <3>4, <3>5, LadderFrom
    <3>7. Insert(side, l, lv) = [levels |-> s, horizon |-> s[1].price]
      BY <1>11, <1>13, <2>4
    <3> QED BY <2>1, <3>6, <3>7
  <2>5. CASE index # 0
    <3>1. PICK r : r = Tail(s)
      OBVIOUS
    <3>2. /\ r \in Seq(Levels) /\ Len(r) = Len(s) - 1 /\ Ordered(side, r)
          /\ ToSet(r) = ToSet(s) \ {s[1]}
      <4>1. r = RemoveAt(s, 1)
        BY <1>5, <2>1, <3>1, TailIsRemove
      <4>2. PICK i : i = 1
        OBVIOUS
      <4>3. i \in 1 .. Len(s)
        BY <2>1, <4>2
      <4>4. /\ RemoveAt(s, i) \in Seq(Levels) /\ Len(RemoveAt(s, i)) = Len(s) - 1
            /\ Ordered(side, RemoveAt(s, i)) /\ ToSet(RemoveAt(s, i)) = ToSet(s) \ {s[i]}
        BY <1>5, <4>3, RemoveOrdered
      <4> QED BY <4>1, <4>2, <4>4
    <3>3. \A k \in 1 .. Len(s) - 1 : r[k] = s[k + 1]
      BY <1>5, <2>1, <3>1
    <3>4. lv.price \notin PricesOf(r)
      BY <1>7, <3>2, HeldPrices
    <3>5. index \in 1 .. Len(r) + 1
      BY <1>5, <1>8, <2>5, <3>2
    <3>6. \A k \in 1 .. Len(r) : Better(side, lv.price, r[k].price) <=> k < index
      <4> SUFFICES ASSUME NEW k \in 1 .. Len(s) - 1
                   PROVE  Better(side, lv.price, r[k].price) <=> k < index
        BY <3>2
      <4>1. k + 1 \in 1 .. Len(s) /\ (k + 1 <= index <=> k < index)
        BY <1>5, <1>8
      <4>2. Better(side, lv.price, s[k + 1].price) <=> k + 1 <= index
        BY <1>9, <4>1
      <4> QED BY <3>3, <4>1, <4>2
    <3>7. kept = InsertAt(r, index, lv)
      BY <1>4, <3>1
    <3>8. /\ kept \in Seq(Levels) /\ Len(kept) = Len(r) + 1 /\ Ordered(side, kept)
          /\ ToSet(kept) = ToSet(r) \cup {lv}
      BY <3>2, <3>4, <3>5, <3>6, <3>7, InsertOrdered
    <3>9. Len(kept) = LevelsPerSide /\ Len(kept) >= 1
      BY <1>5, <2>1, <3>2, <3>8
    <3>10. Worst(side, kept[1], ToSet(kept)) /\ kept[1] \in Levels
      BY <3>8, <3>9, FirstIsWorst
    <3>11. Better(side, lv.price, s[1].price)
      <4>1. 1 <= index
        BY <1>5, <1>8, <2>5
      <4> QED BY <1>9, <2>1, <4>1
    <3>12. Exact(side, ToSet(kept), kept[1].price, Now(listing, lv.price, lv.qty))
      <4>1. PICK H : H = ToSet(s)
        OBVIOUS
      <4>2. PICK x : x = s[1]
        OBVIOUS
      <4>3. PICK w : w = kept[1]
        OBVIOUS
      <4>4. ToSet(kept) = (H \ {x}) \cup {lv}
        BY <3>2, <3>8, <4>1, <4>2
      <4>5. /\ H \in SUBSET Levels /\ Exact(side, H, h, listing) /\ \A y \in H : y.price # lv.price
            /\ Worst(side, x, H) /\ Better(side, lv.price, x.price)
        BY <1>5, <1>7, <2>2, <3>11, <4>1, <4>2
      <4>6. Worst(side, w, (H \ {x}) \cup {lv})
        BY <3>10, <4>3, <4>4
      <4>7. Exact(side, (H \ {x}) \cup {lv}, w.price, Now(listing, lv.price, lv.qty))
        BY <1>5, <4>5, <4>6, ExactDropsWorst
      <4> QED BY <4>3, <4>4, <4>7
    <3>13. kept[1].price \in Prices
      <4>1. kept[1].price \in 1 .. MaxPrice
        BY <3>10, LevelFacts
      <4> QED BY <4>1, LadderConstants DEF Prices
    <3>14. Len(kept) <= LevelsPerSide
      BY <1>10, <3>9
    <3>15. LadderIs(side, [levels |-> kept, horizon |-> kept[1].price],
                    Now(listing, lv.price, lv.qty))
      BY <3>8, <3>12, <3>13, <3>14, LadderFrom
    <3>16. Insert(side, l, lv) = [levels |-> kept, horizon |-> kept[1].price]
      BY <1>11, <1>13, <2>5
    <3> QED BY <3>9, <3>15, <3>16
  <2> QED BY <2>4, <2>5
<1> QED BY <1>12, <1>13

(* Ladder::apply of a valid level. *)
LEMMA AppliedIsExact ==
  ASSUME NEW side, NEW l, NEW listing \in Listings, LadderIs(side, l, listing),
         NEW p \in 1 .. MaxPrice, NEW q \in Nat
  PROVE  LadderIs(side, Applied(side, l, Level(p, q)), Now(listing, p, q))
<1>1. PICK s : s = l.levels
  OBVIOUS
<1>2. PICK h : h = l.horizon
  OBVIOUS
<1>3. PICK lv : lv = Level(p, q)
  OBVIOUS
<1>4. PICK index : index = Index(side, s, p) + 1
  OBVIOUS
<1>5. /\ s \in Seq(Levels) /\ h \in Prices /\ l = [levels |-> s, horizon |-> h]
      /\ Len(s) <= LevelsPerSide /\ Len(s) \in Nat /\ Ordered(side, s)
      /\ Exact(side, ToSet(s), h, listing)
  BY <1>1, <1>2, LadderParts
<1>6. lv.price = p /\ lv.qty = q /\ lv = [price |-> p, qty |-> q]
  BY <1>3 DEF Level
<1>7. ToSet(s) \in SUBSET Levels
  BY <1>5, SetOfLevels
<1>8. p \in Int
  BY LadderConstants
<1>9. q # 0 => lv \in Levels
  BY <1>6 DEF Levels
<1>10. BeyondHorizon(side, l, p) <=> Beyond(side, h, p)
  BY <1>2 DEF BeyondHorizon, Beyond
<1>11. CASE Beyond(side, h, p)
  <2>1. Applied(side, l, lv) = l
    BY <1>6, <1>10, <1>11 DEF Applied
  <2>2. PICK H : H = ToSet(s)
    OBVIOUS
  <2>3. H \in SUBSET Levels /\ Exact(side, H, h, listing)
    BY <1>5, <1>7, <2>2
  <2>4. Exact(side, H, h, Now(listing, p, q))
    BY <1>11, <2>3, ExactBeyond
  <2>5. LadderIs(side, [levels |-> s, horizon |-> h], Now(listing, p, q))
    BY <1>5, <2>2, <2>4, LadderFrom
  <2> QED BY <1>3, <1>5, <2>1, <2>5
<1>12. CASE ~ Beyond(side, h, p) /\ p \in PricesOf(s)
  <2>1. index \in 1 .. Len(s) /\ s[index].price = p
    BY <1>4, <1>5, <1>12, HeldAt
  <2>2. s[index] \in ToSet(s) /\ \A y \in ToSet(s) : y.price = s[index].price => y = s[index]
    BY <1>5, <2>1, SameLevel
  <2>3. CASE q = 0
    <3>1. PICK t : t = RemoveAt(s, index)
      OBVIOUS
    <3>2. Applied(side, l, lv) = [l EXCEPT !.levels = RemoveAt(@, index)]
      BY <1>1, <1>4, <1>6, <1>10, <1>12, <2>3 DEF Applied
    <3>3. Applied(side, l, lv) = [levels |-> t, horizon |-> h]
      BY <1>1, <1>5, <3>1, <3>2
    <3>4. /\ t \in Seq(Levels) /\ Len(t) = Len(s) - 1 /\ Ordered(side, t)
          /\ ToSet(t) = ToSet(s) \ {s[index]}
      BY <1>5, <2>1, <3>1, RemoveOrdered
    <3>5. PICK H : H = ToSet(s)
      OBVIOUS
    <3>6. PICK x : x = s[index]
      OBVIOUS
    <3>7. /\ H \in SUBSET Levels /\ Exact(side, H, h, listing)
          /\ x \in H /\ \A y \in H : y.price = x.price => y = x
      BY <1>5, <1>7, <2>2, <3>5, <3>6
    <3>8. Exact(side, H \ {x}, h, Now(listing, x.price, 0))
      BY <3>7, ExactWithout
    <3>9. Exact(side, ToSet(t), h, Now(listing, p, q))
      BY <2>1, <2>3, <3>4, <3>5, <3>6, <3>8
    <3>10. Len(t) <= LevelsPerSide
      BY <1>5, <3>4, LadderConstants
    <3>11. LadderIs(side, [levels |-> t, horizon |-> h], Now(listing, p, q))
      BY <1>5, <3>4, <3>9, <3>10, LadderFrom
    <3> QED BY <1>3, <3>3, <3>11
  <2>4. CASE q # 0
    <3>1. PICK t : t = ReplaceAt(s, index, lv)
      OBVIOUS
    <3>2. Applied(side, l, lv) = [l EXCEPT !.levels[index] = lv]
      BY <1>1, <1>4, <1>6, <1>10, <1>12, <2>4 DEF Applied
    <3>3. Applied(side, l, lv) = [levels |-> t, horizon |-> h]
      BY <1>1, <1>5, <3>1, <3>2 DEF ReplaceAt
    <3>4. lv \in Levels /\ s[index].price = lv.price
      BY <1>6, <1>9, <2>1, <2>4
    <3>5. /\ t \in Seq(Levels) /\ Len(t) = Len(s) /\ Ordered(side, t)
          /\ ToSet(t) = (ToSet(s) \ {s[index]}) \cup {lv}
      BY <1>5, <2>1, <3>1, <3>4, ReplaceOrdered
    <3>6. PICK H : H = ToSet(s)
      OBVIOUS
    <3>7. PICK G : G = H \ {s[index]}
      OBVIOUS
    <3>8. /\ H \in SUBSET Levels /\ Exact(side, H, h, listing) /\ ~ Beyond(side, h, lv.price)
          /\ G \in SUBSET H
      BY <1>5, <1>6, <1>7, <1>12, <3>6, <3>7
    <3>9. \A y \in H : y \in G <=> y.price # lv.price
      BY <2>2, <3>4, <3>6, <3>7
    <3>10. Exact(side, G \cup {lv}, h, Now(listing, lv.price, lv.qty))
      BY <3>4, <3>8, <3>9, ExactWith
    <3>11. Exact(side, ToSet(t), h, Now(listing, p, q))
      BY <1>6, <3>5, <3>6, <3>7, <3>10
    <3>12. Len(t) <= LevelsPerSide
      BY <1>5, <3>5
    <3>13. LadderIs(side, [levels |-> t, horizon |-> h], Now(listing, p, q))
      BY <1>5, <3>5, <3>11, <3>12, LadderFrom
    <3> QED BY <1>3, <3>3, <3>13
  <2> QED BY <2>3, <2>4
<1>13. CASE ~ Beyond(side, h, p) /\ p \notin PricesOf(s)
  <2>1. \A y \in ToSet(s) : y.price # p
    BY <1>5, <1>13, HeldPrices
  <2>2. CASE q = 0
    <3>1. Applied(side, l, lv) = l
      BY <1>1, <1>6, <1>10, <1>13, <2>2 DEF Applied
    <3>2. PICK H : H = ToSet(s)
      OBVIOUS
    <3>3. H \in SUBSET Levels /\ Exact(side, H, h, listing) /\ \A y \in H : y.price # p
      BY <1>5, <1>7, <2>1, <3>2
    <3>4. Exact(side, H, h, Now(listing, p, 0))
      BY <1>13, <3>3, ExactUnlisted
    <3>5. Exact(side, ToSet(s), h, Now(listing, p, q))
      BY <2>2, <3>2, <3>4
    <3>6. LadderIs(side, [levels |-> s, horizon |-> h], Now(listing, p, q))
      BY <1>5, <3>5, LadderFrom
    <3> QED BY <1>3, <1>5, <3>1, <3>6
  <2>3. CASE q # 0
    <3>1. Applied(side, l, lv) = Insert(side, l, lv)
      BY <1>1, <1>6, <1>10, <1>13, <2>3 DEF Applied
    <3>2. lv \in Levels /\ lv.price \notin PricesOf(l.levels)
          /\ ~ Beyond(side, l.horizon, lv.price)
      BY <1>1, <1>2, <1>6, <1>9, <1>13, <2>3
    <3>3. LadderIs(side, Insert(side, l, lv), Now(listing, lv.price, lv.qty))
      BY <3>2, InsertIsExact
    <3> QED BY <1>3, <1>6, <3>1, <3>3
  <2> QED BY <2>2, <2>3
<1> QED BY <1>11, <1>12, <1>13

-----------------------------------------------------------------------------
(***************************************************************************)
(* Ladder::load.                                                           *)
(***************************************************************************)

(* Ladder::search, of levels in any order. *)
LEMMA IndexRange ==
  ASSUME NEW side, NEW s \in Seq(Levels), NEW p
  PROVE  Index(side, s, p) \in 0 .. Len(s) /\ Index(side, s, p) + 1 \in 1 .. Len(s) + 1
<1> DEFINE M == {n \in 0 .. Len(s) : n = Len(s) \/ ~ Better(side, p, s[n + 1].price)}
<1>0. Len(s) \in Nat
  OBVIOUS
<1>1. Len(s) \in M /\ M \in SUBSET Nat /\ M \subseteq 0 .. Len(s)
  BY <1>0
<1>2. Index(side, s, p) = Min(M)
  BY DEF Index
<1> HIDE DEF M
<1>3. M # {}
  BY <1>1
<1>4. Min(M) \in M
  BY <1>1, <1>3, MinFacts
<1>5. Index(side, s, p) \in 0 .. Len(s)
  BY <1>1, <1>2, <1>4
<1> QED BY <1>0, <1>5

(* One more level, where it belongs. *)
SortedWith(side, x, lv) == InsertAt(x, Index(side, x, lv.price) + 1, lv)

(* A sequence of levels with one more is a sequence of levels. *)
LEMMA SortedWithType ==
  ASSUME NEW side, NEW x \in Seq(Levels), NEW lv \in Levels
  PROVE  SortedWith(side, x, lv) \in Seq(Levels)
<1>1. PICK i : i = Index(side, x, lv.price) + 1
  OBVIOUS
<1>2. i \in 1 .. Len(x) + 1
  BY <1>1, IndexRange
<1>3. InsertAt(x, i, lv) \in Seq(Levels)
  BY <1>2, InsertAtFacts
<1> QED BY <1>1, <1>3 DEF SortedWith

(* In its place, a new price keeps the levels in order. *)
LEMMA SortedWithOrder ==
  ASSUME NEW side, NEW x \in Seq(Levels), NEW lv \in Levels, Ordered(side, x),
         lv.price \notin PricesOf(x)
  PROVE  /\ Len(SortedWith(side, x, lv)) = Len(x) + 1
         /\ Ordered(side, SortedWith(side, x, lv))
         /\ ToSet(SortedWith(side, x, lv)) = ToSet(x) \cup {lv}
<1>1. PICK i : i = Index(side, x, lv.price) + 1
  OBVIOUS
<1>2. i \in 1 .. Len(x) + 1 /\ Index(side, x, lv.price) \in 0 .. Len(x)
  BY <1>1, IndexRange
<1>3. SortedWith(side, x, lv) = InsertAt(x, i, lv)
  BY <1>1 DEF SortedWith
<1>4. lv.price \in Int
  BY LevelFacts
<1>5. PICK p : p = lv.price
  OBVIOUS
<1>6. \A k \in 1 .. Len(x) : Better(side, p, x[k].price) <=> k <= Index(side, x, p)
  BY <1>4, <1>5, IndexFacts
<1>7. \A k \in 1 .. Len(x) : k <= Index(side, x, p) <=> k < i
  BY <1>1, <1>2, <1>5
<1>8. \A k \in 1 .. Len(x) : Better(side, lv.price, x[k].price) <=> k < i
  BY <1>5, <1>6, <1>7
<1>9. /\ Len(InsertAt(x, i, lv)) = Len(x) + 1
      /\ Ordered(side, InsertAt(x, i, lv))
      /\ ToSet(InsertAt(x, i, lv)) = ToSet(x) \cup {lv}
  BY <1>2, <1>8, InsertOrdered
<1> QED BY <1>3, <1>9

(* No price twice. *)
Distinct(u) == \A i, j \in DOMAIN u : u[i].price = u[j].price => i = j

(* sort_and_check sorts. *)
LEMMA SortedFacts ==
  ASSUME NEW side, NEW u \in Seq(Levels)
  PROVE  /\ Sorted(side, u) \in Seq(Levels)
         /\ Distinct(u) => /\ Len(Sorted(side, u)) = Len(u)
                           /\ Ordered(side, Sorted(side, u))
                           /\ ToSet(Sorted(side, u)) = ToSet(u)
<1> DEFINE Sorts(g) == g = [n \in 0 .. Len(u) |->
                              IF n = 0 THEN <<>> ELSE SortedWith(side, g[n - 1], u[n])]
           sorted == CHOOSE g : Sorts(g)
<1>0. Len(u) \in Nat /\ DOMAIN u = 1 .. Len(u) /\ \A k \in 1 .. Len(u) : u[k] \in Levels
  OBVIOUS
<1>1. Sorted(side, u) = sorted[Len(u)]
  BY DEF Sorted, SortedWith
<1>2. PICK G : G = [i \in 1 .. Len(u) |-> [x \in Seq(Levels) |-> SortedWith(side, x, u[i])]]
  OBVIOUS
<1>3. G \in [1 .. Len(u) -> [Seq(Levels) -> Seq(Levels)]]
  <2>1. \A i \in 1 .. Len(u) : \A x \in Seq(Levels) : SortedWith(side, x, u[i]) \in Seq(Levels)
    BY <1>0, SortedWithType
  <2> QED BY <1>2, <2>1
<1>4. PICK m : m = Len(u)
  OBVIOUS
<1>5. PICK h \in [0 .. m -> Seq(Levels)] : IteratesTo(h, <<>>, m, G)
  <2>1. <<>> \in Seq(Levels) /\ m \in Nat /\ G \in [1 .. m -> [Seq(Levels) -> Seq(Levels)]]
    BY <1>0, <1>3, <1>4
  <2> QED BY <2>1, RecursionUpTo
<1>6. Sorts(h)
  <2>1. ASSUME NEW n \in 0 .. Len(u)
        PROVE  h[n] = IF n = 0 THEN <<>> ELSE SortedWith(side, h[n - 1], u[n])
    <3>1. CASE n = 0
      BY <1>5, <3>1 DEF IteratesTo
    <3>2. CASE n # 0
      <4>1. n \in 1 .. m /\ n - 1 \in 0 .. m
        BY <1>0, <1>4, <3>2
      <4>2. h[n] = G[n][h[n - 1]] /\ h[n - 1] \in Seq(Levels)
        BY <1>5, <4>1 DEF IteratesTo
      <4>3. G[n][h[n - 1]] = SortedWith(side, h[n - 1], u[n])
        BY <1>2, <1>4, <4>1, <4>2
      <4> QED BY <3>2, <4>2, <4>3
    <3> QED BY <3>1, <3>2
  <2>2. h = [n \in 0 .. Len(u) |-> h[n]]
    BY <1>4
  <2> QED BY <2>1, <2>2
<1>7. Sorts(sorted)
  <2> HIDE DEF Sorts
  <2> QED BY <1>6
<1> HIDE DEF sorted
<1>8. sorted[0] = <<>>
  <2>1. 0 \in 0 .. Len(u)
    BY <1>0
  <2> QED BY <1>7, <2>1
<1>9. \A n \in 1 .. Len(u) : sorted[n] = SortedWith(side, sorted[n - 1], u[n])
  <2>1. \A n \in 1 .. Len(u) : n \in 0 .. Len(u) /\ n # 0
    BY <1>0
  <2> QED BY <1>7, <2>1
<1> HIDE DEF Sorts
<1> DEFINE First(n) == {u[k] : k \in 1 .. n}
           Done(n) == /\ sorted[n] \in Seq(Levels)
                      /\ Distinct(u) => /\ Len(sorted[n]) = n
                                        /\ Ordered(side, sorted[n])
                                        /\ ToSet(sorted[n]) = First(n)
           S == {n \in Nat : n <= Len(u) => Done(n)}
<1>10. Done(0)
  <2>1. <<>> \in Seq(Levels) /\ Len(<<>>) = 0 /\ DOMAIN <<>> = {}
    OBVIOUS
  <2>2. Ordered(side, <<>>) /\ ToSet(<<>>) = {}
    BY <2>1 DEF Ordered, ToSet
  <2>3. First(0) = {}
    OBVIOUS
  <2> HIDE DEF First
  <2> QED BY <1>8, <2>1, <2>2, <2>3
<1>11. ASSUME NEW n \in Nat, n + 1 <= Len(u), Done(n)
       PROVE  Done(n + 1)
  <2>1. n + 1 \in 1 .. Len(u) /\ (n + 1) - 1 = n
    BY <1>0, <1>11
  <2>2. PICK x : x = sorted[n]
    OBVIOUS
  <2>3. PICK lv : lv = u[n + 1]
    OBVIOUS
  <2>4. sorted[n + 1] = SortedWith(side, x, lv)
    BY <1>9, <2>1, <2>2, <2>3
  <2>5. x \in Seq(Levels) /\ lv \in Levels
    BY <1>0, <1>11, <2>1, <2>2, <2>3
  <2>6. SortedWith(side, x, lv) \in Seq(Levels)
    BY <2>5, SortedWithType
  <2>7. First(n + 1) = First(n) \cup {lv}
    <3>1. 1 .. n + 1 = (1 .. n) \cup {n + 1}
      OBVIOUS
    <3> QED BY <2>3, <3>1
  <2>8. ASSUME Distinct(u)
        PROVE  lv.price \notin PricesOf(x)
    <3>1. ASSUME NEW y \in First(n), y.price = lv.price PROVE FALSE
      <4>1. PICK k \in 1 .. n : y = u[k]
        OBVIOUS
      <4>2. k \in DOMAIN u /\ n + 1 \in DOMAIN u /\ u[k].price = u[n + 1].price /\ k # n + 1
        BY <1>0, <2>1, <2>3, <3>1, <4>1
      <4> QED BY <2>8, <4>2 DEF Distinct
    <3>2. ToSet(x) = First(n)
      BY <1>11, <2>2, <2>8
    <3> HIDE DEF First
    <3> QED BY <2>5, <3>1, <3>2, HeldPrices
  <2> HIDE DEF First
  <2>9. ASSUME Distinct(u)
        PROVE  /\ Len(sorted[n + 1]) = n + 1 /\ Ordered(side, sorted[n + 1])
               /\ ToSet(sorted[n + 1]) = First(n + 1)
    <3>1. Len(x) = n /\ Ordered(side, x) /\ ToSet(x) = First(n)
      BY <1>11, <2>2, <2>9
    <3>2. /\ Len(SortedWith(side, x, lv)) = Len(x) + 1
          /\ Ordered(side, SortedWith(side, x, lv))
          /\ ToSet(SortedWith(side, x, lv)) = ToSet(x) \cup {lv}
      BY <2>5, <2>8, <2>9, <3>1, SortedWithOrder
    <3> QED BY <2>4, <2>7, <3>1, <3>2
  <2> QED BY <2>4, <2>6, <2>9
<1>12. 0 \in S
  BY <1>10
<1> HIDE DEF Done
<1>13. ASSUME NEW n \in Nat, n \in S PROVE n + 1 \in S
  <2>1. n + 1 \in Nat
    OBVIOUS
  <2>2. ASSUME n + 1 <= Len(u) PROVE Done(n + 1)
    <3>1. n <= Len(u)
      BY <1>0, <2>2
    <3>2. Done(n)
      BY <1>13, <3>1
    <3> QED BY <1>11, <2>2, <3>2
  <2> QED BY <2>1, <2>2
<1>14. \A n \in Nat : n \in S
  <2> HIDE DEF S
  <2> QED BY <1>12, <1>13, SetInduction
<1>15. Done(Len(u))
  <2>1. Len(u) <= Len(u)
    BY <1>0
  <2> QED BY <1>0, <1>14, <2>1
<1>16. First(Len(u)) = ToSet(u)
  BY <1>0 DEF ToSet
<1> HIDE DEF First
<1> QED BY <1>1, <1>15, <1>16 DEF Done

(* The levels of a snapshot, of which the valid ones are levels, and the   *)
(* states of load_inner.                                                   *)
Given == [price : Int, qty : Int]

Loadable(lv) == lv \in Given /\ (Valid(lv) /\ lv.qty # 0 => lv \in Levels /\ lv.qty = 1)

LoadStates == [ladder : Ladders, sorted : BOOLEAN, ok : BOOLEAN]

NothingLoaded == [ladder |-> EmptyLadder, sorted |-> FALSE, ok |-> TRUE]

(* A state of load_inner, from its parts and into them. *)
LEMMA StateParts ==
  ASSUME NEW s \in LoadStates
  PROVE  /\ s.ladder \in Ladders /\ s.sorted \in BOOLEAN /\ s.ok \in BOOLEAN
         /\ s.ladder.levels \in Seq(Levels) /\ s.ladder.horizon \in Prices
         /\ Len(s.ladder.levels) \in Nat
         /\ s.ladder = [levels |-> s.ladder.levels, horizon |-> s.ladder.horizon]
<1>1. s.ladder \in Ladders /\ s.sorted \in BOOLEAN /\ s.ok \in BOOLEAN
  BY DEF LoadStates
<1>2. PICK l : l = s.ladder
  OBVIOUS
<1>3. /\ l.levels \in Seq(Levels) /\ l.horizon \in Prices
      /\ l = [levels |-> l.levels, horizon |-> l.horizon]
  BY <1>1, <1>2 DEF Ladders
<1>4. Len(l.levels) \in Nat
  BY <1>3
<1> QED BY <1>1, <1>2, <1>3, <1>4

(* sort_and_check *)
LEMMA SortAndCheckFacts ==
  ASSUME NEW side, NEW s \in LoadStates
  PROVE  /\ SortAndCheck(side, s) \in LoadStates
         /\ SortAndCheck(side, s).ok => s.ok
         /\ s.sorted \/ ~ s.ok => SortAndCheck(side, s) = s
         /\ ~ s.sorted /\ s.ok =>
              /\ SortAndCheck(side, s).ladder =
                   [levels |-> Sorted(side, s.ladder.levels), horizon |-> s.ladder.horizon]
              /\ SortAndCheck(side, s).sorted
              /\ SortAndCheck(side, s).ok <=> Distinct(s.ladder.levels)
<1>1. CASE s.sorted \/ ~ s.ok
  <2>1. SortAndCheck(side, s) = s
    BY <1>1 DEF SortAndCheck
  <2> QED BY <1>1, <2>1
<1>2. CASE ~ (s.sorted \/ ~ s.ok)
  <2>1. PICK v : v = s.ladder.levels
    OBVIOUS
  <2>2. PICK h : h = s.ladder.horizon
    OBVIOUS
  <2>3. v \in Seq(Levels) /\ h \in Prices /\ s.ladder = [levels |-> v, horizon |-> h]
    BY <2>1, <2>2, StateParts
  <2>4. PICK l : l = [levels |-> Sorted(side, v), horizon |-> h]
    OBVIOUS
  <2>5. [s.ladder EXCEPT !.levels = Sorted(side, @)] = l
    BY <2>3, <2>4
  <2>6. PICK b : b = IsInjective([k \in DOMAIN v |-> v[k].price])
    OBVIOUS
  <2>7. b \in BOOLEAN /\ (b <=> Distinct(v))
    BY <2>6 DEF IsInjective, Distinct
  <2>8. SortAndCheck(side, s) = [ladder |-> l, sorted |-> TRUE, ok |-> b]
    BY <1>2, <2>1, <2>5, <2>6 DEF SortAndCheck
  <2>9. l \in Ladders
    <3>1. Sorted(side, v) \in Seq(Levels)
      BY <2>3, SortedFacts
    <3> QED BY <2>3, <2>4, <3>1 DEF Ladders
  <2>10. SortAndCheck(side, s) \in LoadStates
    BY <2>7, <2>8, <2>9 DEF LoadStates
  <2>11. /\ SortAndCheck(side, s).ladder = l /\ SortAndCheck(side, s).sorted
         /\ SortAndCheck(side, s).ok <=> b
    BY <2>7, <2>8
  <2> QED BY <1>2, <2>1, <2>2, <2>4, <2>7, <2>10, <2>11
<1> QED BY <1>1, <1>2

(* Ladder::insert of a full ladder, in order or not. *)
LEMMA InsertType ==
  ASSUME NEW side, NEW l \in Ladders, NEW lv \in Levels
  PROVE  Insert(side, l, lv) \in Ladders
<1>1. PICK s : s = l.levels
  OBVIOUS
<1>2. PICK h : h = l.horizon
  OBVIOUS
<1>3. PICK index : index = Index(side, s, lv.price)
  OBVIOUS
<1>4. PICK kept : kept = InsertAt(Tail(s), index, lv)
  OBVIOUS
<1>5. s \in Seq(Levels) /\ h \in Prices /\ l = [levels |-> s, horizon |-> h] /\ Len(s) \in Nat
  BY <1>1, <1>2 DEF Ladders
<1>6. index \in 0 .. Len(s) /\ index + 1 \in 1 .. Len(s) + 1
  BY <1>3, <1>5, IndexRange
<1>7. Insert(side, l, lv) =
        IF Len(s) < LevelsPerSide THEN [levels |-> InsertAt(s, index + 1, lv), horizon |-> h]
        ELSE IF index = 0 THEN [levels |-> s, horizon |-> s[1].price]
        ELSE [levels |-> kept, horizon |-> kept[1].price]
  BY <1>1, <1>2, <1>3, <1>4, <1>5 DEF Insert
<1>8. CASE Len(s) < LevelsPerSide
  <2>1. PICK i : i = index + 1
    OBVIOUS
  <2>2. InsertAt(s, i, lv) \in Seq(Levels)
    BY <1>5, <1>6, <2>1, InsertAtFacts
  <2> QED BY <1>5, <1>7, <1>8, <2>1, <2>2 DEF Ladders
<1>9. CASE ~ (Len(s) < LevelsPerSide)
  <2>1. \A x \in Levels : x.price \in Prices
    BY LevelFacts, LadderConstants DEF Prices
  <2>2. Len(s) >= 1
    BY <1>5, <1>9, LadderConstants
  <2>3. CASE index = 0
    <3>1. s[1] \in Levels
      BY <1>5, <2>2
    <3>2. s[1].price \in Prices
      BY <2>1, <3>1
    <3> QED BY <1>5, <1>7, <1>9, <2>3, <3>2 DEF Ladders
  <2>4. CASE index # 0
    <3>1. PICK r : r = Tail(s)
      OBVIOUS
    <3>2. r \in Seq(Levels) /\ Len(r) = Len(s) - 1
      BY <1>5, <2>2, <3>1
    <3>3. index \in 1 .. Len(r) + 1
      BY <1>5, <1>6, <2>4, <3>2
    <3>4. kept \in Seq(Levels) /\ Len(kept) = Len(r) + 1
      <4>1. /\ InsertAt(r, index, lv) \in Seq(Levels)
            /\ Len(InsertAt(r, index, lv)) = Len(r) + 1
            /\ \A k \in 1 .. Len(r) + 1 :
                 InsertAt(r, index, lv)[k] =
                   IF k < index THEN r[k] ELSE IF k = index THEN lv ELSE r[k - 1]
        BY <3>2, <3>3, InsertAtFacts
      <4>2. kept = InsertAt(r, index, lv)
        BY <1>4, <3>1
      <4> QED BY <4>1, <4>2
    <3>5. kept[1] \in Levels
      <4>1. Len(kept) >= 1 /\ Len(kept) \in Nat
        BY <1>5, <2>2, <3>2, <3>4
      <4> QED BY <3>4, <4>1
    <3>6. kept[1].price \in Prices
      BY <2>1, <3>5
    <3> QED BY <1>7, <1>9, <2>4, <3>4, <3>6 DEF Ladders
  <2> QED BY <2>3, <2>4
<1> QED BY <1>8, <1>9

(* load_inner, one level. *)
LEMMA LoadLevelType ==
  ASSUME NEW side, NEW s \in LoadStates, NEW lv, Loadable(lv)
  PROVE  LoadLevel(side, s, lv) \in LoadStates
<1>1. PICK full : full = SortAndCheck(side, s)
  OBVIOUS
<1>2. full \in LoadStates
  BY <1>1, SortAndCheckFacts
<1>3. LoadLevel(side, s, lv) =
        IF ~ s.ok \/ ~ Valid(lv) \/ lv.qty = 0 THEN [s EXCEPT !.ok = FALSE]
        ELSE IF Len(s.ladder.levels) < LevelsPerSide
          THEN [s EXCEPT !.ladder.levels = Append(@, lv)]
        ELSE IF ~ full.ok \/ lv.price \in PricesOf(full.ladder.levels)
          THEN [full EXCEPT !.ok = FALSE]
        ELSE [full EXCEPT !.ladder = Insert(side, @, lv)]
  BY <1>1 DEF LoadLevel
<1>4. [s EXCEPT !.ok = FALSE] \in LoadStates /\ [full EXCEPT !.ok = FALSE] \in LoadStates
  BY <1>2 DEF LoadStates
<1>5. CASE ~ s.ok \/ ~ Valid(lv) \/ lv.qty = 0
  BY <1>3, <1>4, <1>5
<1>6. CASE ~ (~ s.ok \/ ~ Valid(lv) \/ lv.qty = 0)
  <2>1. lv \in Levels
    BY <1>6 DEF Loadable
  <2>2. [s EXCEPT !.ladder.levels = Append(@, lv)] \in LoadStates
    <3>1. PICK v : v = s.ladder.levels
      OBVIOUS
    <3>2. v \in Seq(Levels)
      BY <3>1, StateParts
    <3>3. Append(v, lv) \in Seq(Levels)
      BY <2>1, <3>2
    <3> QED BY <3>1, <3>3 DEF LoadStates, Ladders
  <2>3. [full EXCEPT !.ladder = Insert(side, @, lv)] \in LoadStates
    <3>1. PICK l : l = full.ladder
      OBVIOUS
    <3>2. l \in Ladders
      BY <1>2, <3>1, StateParts
    <3>3. Insert(side, l, lv) \in Ladders
      BY <2>1, <3>2, InsertType
    <3> QED BY <1>2, <3>1, <3>3 DEF LoadStates
  <2> QED BY <1>3, <1>4, <1>6, <2>2, <2>3
<1> QED BY <1>5, <1>6

(* What the first n levels of a snapshot list. *)
ListedTo(u, n) == [p \in Prices |-> IF \E k \in 1 .. n : u[k].price = p THEN 1 ELSE 0]

(* The state of load_inner after n levels.  Until it is full the ladder    *)
(* has them as they came, and from then on it is in order and exact.       *)
Loads(side, s, u, n) ==
  s.ok =>
    /\ \A k \in 1 .. n : u[k] \in Levels /\ u[k].qty = 1
    /\ s.sorted => /\ LadderIs(side, s.ladder, ListedTo(u, n))
                   /\ Len(s.ladder.levels) = LevelsPerSide
    /\ ~ s.sorted => /\ s.ladder.horizon = 0 /\ Len(s.ladder.levels) = n /\ n <= LevelsPerSide
                     /\ \A k \in 1 .. n : s.ladder.levels[k] = u[k]

(* The listing of the first n levels, and the next one. *)
LEMMA ListedToFacts ==
  ASSUME NEW u, NEW n \in Nat
  PROVE  /\ ListedTo(u, n) \in Listings
         /\ u[n + 1].price \in Prices => ListedTo(u, n + 1) = Now(ListedTo(u, n), u[n + 1].price, 1)
<1>1. ListedTo(u, n) \in Listings
  BY DEF ListedTo, Listings
<1>2. ASSUME u[n + 1].price \in Prices
      PROVE  ListedTo(u, n + 1) = Now(ListedTo(u, n), u[n + 1].price, 1)
  <2>1. PICK x : x = u[n + 1].price
    OBVIOUS
  <2>2. \A k : k \in 1 .. n + 1 <=> (k \in 1 .. n \/ k = n + 1)
    OBVIOUS
  <2>3. ASSUME NEW p \in Prices
        PROVE  (\E k \in 1 .. n + 1 : u[k].price = p) <=> (x = p \/ \E k \in 1 .. n : u[k].price = p)
    BY <2>1, <2>2
  <2> QED BY <1>2, <2>1, <2>3 DEF ListedTo, Now
<1> QED BY <1>1, <1>2

(* The levels of a snapshot as they came are exact as a set. *)
LEMMA PrefixIsExact ==
  ASSUME NEW side, NEW u, NEW n \in Nat, NEW v \in Seq(Levels), Len(v) = n,
         \A k \in 1 .. n : v[k] = u[k] /\ u[k].qty = 1
  PROVE  Exact(side, ToSet(v), 0, ListedTo(u, n))
<1>0. DOMAIN v = 1 .. n
  OBVIOUS
<1>1. \A p : ~ Beyond(side, 0, p)
  BY DEF Beyond
<1>2. ASSUME NEW x \in ToSet(v)
      PROVE  x.qty = ListedTo(u, n)[x.price]
  <2>1. PICK k \in 1 .. n : x = v[k]
    BY <1>0 DEF ToSet
  <2>2. x = u[k] /\ x.qty = 1
    BY <2>1
  <2>3. x \in Levels
    BY SetOfLevels
  <2>4. x.price \in Prices
    BY <2>3, LevelFacts, LadderConstants DEF Prices
  <2> QED BY <2>2, <2>4 DEF ListedTo
<1>3. ASSUME NEW p \in 1 .. MaxPrice, ListedTo(u, n)[p] > 0
      PROVE  \E x \in ToSet(v) : x.price = p
  <2>1. p \in Prices
    BY LadderConstants DEF Prices
  <2>2. PICK k \in 1 .. n : u[k].price = p
    BY <1>3, <2>1 DEF ListedTo
  <2>3. v[k] \in ToSet(v) /\ v[k].price = p
    BY <1>0, <2>2 DEF ToSet
  <2> QED BY <2>3
<1> QED BY <1>1, <1>2, <1>3 DEF Exact

(* sort_and_check leaves an exact ladder, or refuses. *)
LEMMA SortAndCheckIsExact ==
  ASSUME NEW side, NEW s \in LoadStates, NEW u, NEW n \in Nat, Loads(side, s, u, n),
         SortAndCheck(side, s).ok
  PROVE  /\ s.ok /\ SortAndCheck(side, s).sorted
         /\ LadderIs(side, SortAndCheck(side, s).ladder, ListedTo(u, n))
         /\ Len(SortAndCheck(side, s).ladder.levels) = Len(s.ladder.levels)
<1>0. s.ok
  BY SortAndCheckFacts
<1>1. CASE s.sorted
  <2>1. SortAndCheck(side, s) = s
    BY <1>1, SortAndCheckFacts
  <2> QED BY <1>0, <1>1, <2>1 DEF Loads
<1>2. CASE ~ s.sorted
  <2>1. PICK v : v = s.ladder.levels
    OBVIOUS
  <2>2. PICK w : w = Sorted(side, v)
    OBVIOUS
  <2>3. v \in Seq(Levels)
    BY <2>1, StateParts
  <2>4. /\ s.ladder.horizon = 0 /\ Len(v) = n /\ n <= LevelsPerSide
        /\ \A k \in 1 .. n : v[k] = u[k] /\ u[k].qty = 1
    BY <1>0, <1>2, <2>1 DEF Loads
  <2>5. /\ SortAndCheck(side, s).ladder = [levels |-> w, horizon |-> 0]
        /\ SortAndCheck(side, s).sorted /\ Distinct(v)
    BY <1>0, <1>2, <2>1, <2>2, <2>4, SortAndCheckFacts
  <2>6. w \in Seq(Levels) /\ Len(w) = n /\ Ordered(side, w) /\ ToSet(w) = ToSet(v)
    BY <2>2, <2>3, <2>4, <2>5, SortedFacts
  <2>7. Exact(side, ToSet(w), 0, ListedTo(u, n))
    BY <2>3, <2>4, <2>6, PrefixIsExact
  <2>8. 0 \in Prices /\ Len(w) <= LevelsPerSide
    BY <2>4, <2>6, LadderConstants DEF Prices
  <2>9. PICK h : h = 0
    OBVIOUS
  <2>10. LadderIs(side, [levels |-> w, horizon |-> h], ListedTo(u, n))
    <3>1. h \in Prices /\ Exact(side, ToSet(w), h, ListedTo(u, n))
      BY <2>7, <2>8, <2>9
    <3> QED BY <2>6, <2>8, <3>1, LadderFrom
  <2> QED BY <1>0, <2>1, <2>4, <2>5, <2>6, <2>9, <2>10
<1> QED BY <1>1, <1>2

(* load_inner, one level more. *)
LEMMA LoadLevelIsExact ==
  ASSUME NEW side, NEW s \in LoadStates, NEW u, NEW n \in Nat, Loads(side, s, u, n),
         Loadable(u[n + 1])
  PROVE  Loads(side, LoadLevel(side, s, u[n + 1]), u, n + 1)
<1>1. PICK lv : lv = u[n + 1]
  OBVIOUS
<1>2. PICK full : full = SortAndCheck(side, s)
  OBVIOUS
<1>3. PICK t : t = LoadLevel(side, s, lv)
  OBVIOUS
<1>4. full \in LoadStates
  BY <1>2, SortAndCheckFacts
<1>5. t = IF ~ s.ok \/ ~ Valid(lv) \/ lv.qty = 0 THEN [s EXCEPT !.ok = FALSE]
          ELSE IF Len(s.ladder.levels) < LevelsPerSide
            THEN [s EXCEPT !.ladder.levels = Append(@, lv)]
          ELSE IF ~ full.ok \/ lv.price \in PricesOf(full.ladder.levels)
            THEN [full EXCEPT !.ok = FALSE]
          ELSE [full EXCEPT !.ladder = Insert(side, @, lv)]
  BY <1>2, <1>3 DEF LoadLevel
<1>6. [s EXCEPT !.ok = FALSE].ok = FALSE /\ [full EXCEPT !.ok = FALSE].ok = FALSE
  BY <1>4 DEF LoadStates
<1> SUFFICES ASSUME t.ok PROVE Loads(side, t, u, n + 1)
  BY <1>1, <1>3 DEF Loads
<1>7. s.ok /\ Valid(lv) /\ lv.qty # 0
  BY <1>5, <1>6
<1>8. lv \in Levels /\ lv.qty = 1
  BY <1>1, <1>7 DEF Loadable
<1>9. \A k \in 1 .. n + 1 : u[k] \in Levels /\ u[k].qty = 1
  <2>1. \A k \in 1 .. n : u[k] \in Levels /\ u[k].qty = 1
    BY <1>7 DEF Loads
  <2>2. \A k \in 1 .. n + 1 : k \in 1 .. n \/ k = n + 1
    OBVIOUS
  <2> QED BY <1>1, <1>8, <2>1, <2>2
<1>10. PICK v : v = s.ladder.levels
  OBVIOUS
<1>11. v \in Seq(Levels) /\ Len(v) \in Nat
  BY <1>10, StateParts
<1>12. CASE Len(v) < LevelsPerSide
  <2>1. ~ s.sorted
    BY <1>7, <1>10, <1>11, <1>12, LadderConstants DEF Loads
  <2>2. s.ladder.horizon = 0 /\ Len(v) = n /\ \A k \in 1 .. n : v[k] = u[k]
    BY <1>7, <1>10, <2>1 DEF Loads
  <2>3. PICK w : w = Append(v, lv)
    OBVIOUS
  <2>4. /\ Len(w) = n + 1 /\ w[n + 1] = lv
        /\ \A k \in 1 .. n : w[k] = v[k]
    BY <1>8, <1>11, <2>2, <2>3
  <2>5. \A k \in 1 .. n + 1 : w[k] = u[k]
    <3>1. \A k \in 1 .. n + 1 : k \in 1 .. n \/ k = n + 1
      OBVIOUS
    <3> QED BY <1>1, <2>2, <2>4, <3>1
  <2>6. t = [s EXCEPT !.ladder.levels = w]
    BY <1>5, <1>7, <1>10, <1>12, <2>3
  <2>7. t.ladder.horizon = 0 /\ t.ladder.levels = w /\ ~ t.sorted
    BY <2>1, <2>2, <2>6, StateParts DEF LoadStates, Ladders
  <2>8. n + 1 <= LevelsPerSide
    BY <1>12, <2>2, LadderConstants
  <2> QED BY <1>9, <2>4, <2>5, <2>7, <2>8 DEF Loads
<1>13. CASE ~ (Len(v) < LevelsPerSide)
  <2>1. full.ok /\ lv.price \notin PricesOf(full.ladder.levels)
    BY <1>5, <1>6, <1>7, <1>10, <1>13
  <2>2. PICK l : l = full.ladder
    OBVIOUS
  <2>3. full.sorted /\ LadderIs(side, l, ListedTo(u, n)) /\ Len(l.levels) = Len(v)
    BY <1>2, <1>10, <2>1, <2>2, SortAndCheckIsExact
  <2>4. Len(l.levels) = LevelsPerSide
    <3>1. Len(l.levels) <= LevelsPerSide
      BY <2>3, LadderParts
    <3> QED BY <1>11, <1>13, <2>3, <3>1, LadderConstants
  <2>5. PICK listing : listing = ListedTo(u, n)
    OBVIOUS
  <2>6. listing \in Listings /\ ListedTo(u, n + 1) = Now(listing, lv.price, lv.qty)
    <3>1. u[n + 1].price \in Prices
      BY <1>1, <1>8, LevelFacts, LadderConstants DEF Prices
    <3> QED BY <1>1, <1>8, <2>5, <3>1, ListedToFacts
  <2>7. PICK i : i = Insert(side, l, lv)
    OBVIOUS
  <2>8. LadderIs(side, i, ListedTo(u, n + 1)) /\ Len(i.levels) = LevelsPerSide
    <3>1. /\ LadderIs(side, Insert(side, l, lv), Now(listing, lv.price, lv.qty))
          /\ Len(l.levels) = LevelsPerSide => Len(Insert(side, l, lv).levels) = LevelsPerSide
      <4>1. /\ LadderIs(side, l, listing) /\ lv.price \notin PricesOf(l.levels)
            /\ Len(l.levels) < LevelsPerSide => ~ Beyond(side, l.horizon, lv.price)
        BY <2>1, <2>2, <2>3, <2>4, <2>5, LadderConstants
      <4> QED BY <1>8, <2>6, <4>1, InsertIsExact
    <3> QED BY <2>4, <2>6, <2>7, <3>1
  <2>9. t = [full EXCEPT !.ladder = i]
    BY <1>5, <1>7, <1>10, <1>13, <2>1, <2>2, <2>7
  <2>10. t.ladder = i /\ t.sorted
    BY <1>4, <2>3, <2>9 DEF LoadStates
  <2> QED BY <1>9, <2>8, <2>10 DEF Loads
<1> QED BY <1>12, <1>13

(* Ladder::load: an exact ladder, or none. *)
LEMMA LoadedIsExact ==
  ASSUME NEW side, NEW u, NEW m \in Nat, Len(u) = m, \A k \in 1 .. m : Loadable(u[k])
  PROVE  /\ Loaded(side, u).ok \in BOOLEAN
         /\ Loaded(side, u).ok => LadderIs(side, Loaded(side, u).ladder, ListedTo(u, m))
<1> DEFINE LoadsAll(g) == g = [n \in 0 .. Len(u) |->
                                 IF n = 0 THEN NothingLoaded ELSE LoadLevel(side, g[n - 1], u[n])]
           load == CHOOSE g : LoadsAll(g)
<1>1. Loaded(side, u) = SortAndCheck(side, load[m])
  BY DEF Loaded, NothingLoaded
<1>2. PICK G : G = [i \in 1 .. m |-> [x \in LoadStates |-> LoadLevel(side, x, u[i])]]
  OBVIOUS
<1>3. G \in [1 .. m -> [LoadStates -> LoadStates]]
  <2>1. \A i \in 1 .. m : \A x \in LoadStates : LoadLevel(side, x, u[i]) \in LoadStates
    BY LoadLevelType
  <2> QED BY <1>2, <2>1
<1>4. NothingLoaded \in LoadStates
  <2>1. <<>> \in Seq(Levels) /\ 0 \in Prices
    BY LadderConstants DEF Prices
  <2> QED BY <2>1 DEF NothingLoaded, LoadStates, EmptyLadder, Ladders
<1>5. PICK h \in [0 .. m -> LoadStates] : IteratesTo(h, NothingLoaded, m, G)
  BY <1>3, <1>4, RecursionUpTo
<1>6. LoadsAll(h)
  <2>1. ASSUME NEW n \in 0 .. m
        PROVE  h[n] = IF n = 0 THEN NothingLoaded ELSE LoadLevel(side, h[n - 1], u[n])
    <3>1. CASE n = 0
      BY <1>5, <3>1 DEF IteratesTo
    <3>2. CASE n # 0
      <4>1. n \in 1 .. m /\ n - 1 \in 0 .. m
        BY <3>2
      <4>2. h[n] = G[n][h[n - 1]] /\ h[n - 1] \in LoadStates
        BY <1>5, <4>1 DEF IteratesTo
      <4>3. G[n][h[n - 1]] = LoadLevel(side, h[n - 1], u[n])
        BY <1>2, <4>1, <4>2
      <4> QED BY <3>2, <4>2, <4>3
    <3> QED BY <3>1, <3>2
  <2>2. h = [n \in 0 .. m |-> h[n]]
    OBVIOUS
  <2> QED BY <2>1, <2>2
<1>7. LoadsAll(load)
  <2> HIDE DEF LoadsAll
  <2> QED BY <1>6
<1> HIDE DEF load
<1>8. load[0] = NothingLoaded
  <2>1. 0 \in 0 .. Len(u)
    OBVIOUS
  <2> QED BY <1>7, <2>1
<1>9. \A n \in 1 .. m : load[n] = LoadLevel(side, load[n - 1], u[n])
  <2>1. \A n \in 1 .. m : n \in 0 .. Len(u) /\ n # 0
    OBVIOUS
  <2> QED BY <1>7, <2>1
<1> HIDE DEF LoadsAll
<1> DEFINE S == {n \in Nat : n <= m => load[n] \in LoadStates /\ Loads(side, load[n], u, n)}
<1>10. 0 \in S
  <2>1. /\ NothingLoaded.ladder.horizon = 0 /\ NothingLoaded.ladder.levels = <<>>
        /\ ~ NothingLoaded.sorted
    BY DEF NothingLoaded, EmptyLadder
  <2>2. Len(<<>>) = 0 /\ 0 <= LevelsPerSide
    BY LadderConstants
  <2>3. Loads(side, NothingLoaded, u, 0)
    BY <2>1, <2>2 DEF Loads
  <2> QED BY <1>4, <1>8, <2>3
<1>11. ASSUME NEW n \in Nat, n \in S
       PROVE  n + 1 \in S
  <2> SUFFICES ASSUME n + 1 <= m
               PROVE  load[n + 1] \in LoadStates /\ Loads(side, load[n + 1], u, n + 1)
    OBVIOUS
  <2>1. n + 1 \in 1 .. m /\ (n + 1) - 1 = n /\ n <= m
    OBVIOUS
  <2>2. PICK s : s = load[n]
    OBVIOUS
  <2>3. s \in LoadStates /\ Loads(side, s, u, n)
    BY <1>11, <2>1, <2>2
  <2>4. load[n + 1] = LoadLevel(side, s, u[n + 1]) /\ Loadable(u[n + 1])
    BY <1>9, <2>1, <2>2
  <2>5. LoadLevel(side, s, u[n + 1]) \in LoadStates
    BY <2>3, <2>4, LoadLevelType
  <2>6. Loads(side, LoadLevel(side, s, u[n + 1]), u, n + 1)
    BY <2>3, <2>4, LoadLevelIsExact
  <2> QED BY <2>4, <2>5, <2>6
<1>12. m \in S
  <2> HIDE DEF S
  <2> QED BY <1>10, <1>11, SetInduction
<1>13. PICK s : s = load[m]
  OBVIOUS
<1>14. s \in LoadStates /\ Loads(side, s, u, m)
  BY <1>12, <1>13
<1>15. SortAndCheck(side, s) \in LoadStates
  BY <1>14, SortAndCheckFacts
<1>16. ASSUME SortAndCheck(side, s).ok
       PROVE  LadderIs(side, SortAndCheck(side, s).ladder, ListedTo(u, m))
  BY <1>14, <1>16, SortAndCheckIsExact
<1> QED BY <1>1, <1>13, <1>15, <1>16 DEF LoadStates

-----------------------------------------------------------------------------
(***************************************************************************)
(* The book.                                                               *)
(***************************************************************************)

(* A snapshot's levels are right, or load_inner refuses them. *)
LEMMA LevelIsLoadable ==
  /\ \A p \in 1 .. MaxPrice : Loadable(Level(p, 1))
  /\ \A p \in 0 .. 1 : Loadable(Level(p, 1))
  /\ \A lv \in {Level(0, 1), Level(2, 0), Level(2, -1)} : Loadable(lv)
<1>1. \A p, q \in Int : Level(p, q) \in Given /\ Level(p, q).price = p /\ Level(p, q).qty = q
  BY DEF Level, Given
<1>2. \A p \in 1 .. MaxPrice : p \in Int /\ Level(p, 1) \in Levels
  BY LadderConstants DEF Level, Levels
<1>3. \A p \in 1 .. MaxPrice : Loadable(Level(p, 1))
  BY <1>1, <1>2 DEF Loadable
<1>4. 1 \in 1 .. MaxPrice
  BY LadderConstants
<1>5. ~ Valid(Level(0, 1)) /\ Level(2, 0).qty = 0 /\ ~ Valid(Level(2, -1))
  BY <1>1 DEF Valid
<1>6. Level(0, 1) \in Given /\ Level(2, 0) \in Given /\ Level(2, -1) \in Given
  BY <1>1
<1>7. Loadable(Level(0, 1)) /\ Loadable(Level(2, 0)) /\ Loadable(Level(2, -1))
  BY <1>5, <1>6 DEF Loadable
<1>8. \A p \in 0 .. 1 : p = 0 \/ p = 1
  OBVIOUS
<1> QED BY <1>3, <1>4, <1>7, <1>8

(* The snapshots the model loads: sequences of levels with a price and a quantity. *)
LEMMA SnapshotIsLoadable ==
  /\ \A u \in Snapshots : \E m \in Nat : /\ Len(u) = m /\ DOMAIN u = 1 .. m
                                         /\ \A k \in 1 .. m : Loadable(u[k])
  /\ \A p \in 0 .. 1 : /\ Len(<<Level(p, 1)>>) = 1 /\ DOMAIN <<Level(p, 1)>> = 1 .. 1
                       /\ \A k \in 1 .. 1 : Loadable(<<Level(p, 1)>>[k])
<1>1. ASSUME NEW u \in Snapshots
      PROVE  \E m \in Nat : /\ Len(u) = m /\ DOMAIN u = 1 .. m
                            /\ \A k \in 1 .. m : Loadable(u[k])
  <2> DEFINE X == {Level(p, 1) : p \in 1 .. MaxPrice}
             bad == {Level(0, 1), Level(2, 0), Level(2, -1)}
  <2>1. \/ \E n \in 0 .. LevelsPerSide + 2 : u \in [1 .. n -> X]
        \/ \E lv \in bad : u = <<Level(1, 1), lv>>
    BY DEF Snapshots
  <2>2. \A x \in X : Loadable(x)
    BY LevelIsLoadable
  <2>3. \A lv \in bad : Loadable(lv)
    BY LevelIsLoadable
  <2>4. Loadable(Level(1, 1))
    BY LevelIsLoadable
  <2> HIDE DEF X, bad
  <2>5. CASE \E n \in 0 .. LevelsPerSide + 2 : u \in [1 .. n -> X]
    <3>1. PICK n \in 0 .. LevelsPerSide + 2 : u \in [1 .. n -> X]
      BY <2>5
    <3>2. n \in Nat
      BY LadderConstants
    <3>3. u \in Seq(X) /\ Len(u) = n
      BY <3>1, <3>2
    <3>4. \A k \in 1 .. n : Loadable(u[k])
      BY <2>2, <3>1
    <3> QED BY <3>1, <3>2, <3>3, <3>4
  <2>6. CASE \E lv \in bad : u = <<Level(1, 1), lv>>
    <3>1. PICK lv \in bad : u = <<Level(1, 1), lv>>
      BY <2>6
    <3>2. PICK x : x = Level(1, 1)
      OBVIOUS
    <3>3. u = <<x, lv>> /\ Loadable(x) /\ Loadable(lv)
      BY <2>3, <2>4, <3>1, <3>2
    <3>4. Len(u) = 2 /\ DOMAIN u = 1 .. 2 /\ u[1] = x /\ u[2] = lv
      BY <3>3
    <3>5. \A k \in 1 .. 2 : k = 1 \/ k = 2
      OBVIOUS
    <3>6. \A k \in 1 .. 2 : Loadable(u[k])
      BY <3>3, <3>4, <3>5
    <3> QED BY <3>4, <3>6
  <2> QED BY <2>1, <2>5, <2>6
<1>2. ASSUME NEW p \in 0 .. 1
      PROVE  /\ Len(<<Level(p, 1)>>) = 1 /\ DOMAIN <<Level(p, 1)>> = 1 .. 1
             /\ \A k \in 1 .. 1 : Loadable(<<Level(p, 1)>>[k])
  <2>1. PICK x : x = Level(p, 1)
    OBVIOUS
  <2>2. Loadable(x)
    BY <2>1, LevelIsLoadable
  <2>3. Len(<<x>>) = 1 /\ DOMAIN <<x>> = 1 .. 1 /\ <<x>>[1] = x
    OBVIOUS
  <2>4. \A k \in 1 .. 1 : k = 1
    OBVIOUS
  <2> QED BY <2>1, <2>2, <2>3, <2>4
<1> QED BY <1>1, <1>2

(* A cleared side. *)
LEMMA EmptyIsExact ==
  ASSUME NEW side
  PROVE  EmptyLadder \in Ladders /\ NothingListed \in Listings /\ LadderIs(side, EmptyLadder, NothingListed)
<1>1. /\ <<>> \in Seq(Levels) /\ Len(<<>>) = 0 /\ DOMAIN <<>> = {} /\ 0 \in Prices
      /\ 0 <= LevelsPerSide
  BY LadderConstants DEF Prices
<1>2. Ordered(side, <<>>) /\ ToSet(<<>>) = {}
  BY <1>1 DEF Ordered, ToSet
<1>3. \A p \in 1 .. MaxPrice : p \in Prices
  BY LadderConstants DEF Prices
<1>4. NothingListed \in Listings /\ \A p \in 1 .. MaxPrice : ~ (NothingListed[p] > 0)
  BY <1>3 DEF NothingListed, Listings
<1>5. Exact(side, {}, 0, NothingListed)
  BY <1>4 DEF Exact
<1>6. EmptyLadder \in Ladders /\ EmptyLadder.levels = <<>> /\ EmptyLadder.horizon = 0
  BY <1>1 DEF EmptyLadder, Ladders
<1> QED BY <1>1, <1>2, <1>4, <1>5, <1>6 DEF LadderIs

(* A cleared book is exact when nothing is listed. *)
LEMMA ClearedIsExact ==
  ASSUME NEW b, NEW s, b = [side \in Sides |-> EmptyLadder], s = [side \in Sides |-> NothingListed]
  PROVE  /\ b \in [Sides -> Ladders] /\ s \in [Sides -> Listings]
         /\ \A side \in Sides : LadderIs(side, b[side], s[side])
BY EmptyIsExact

(* Book::apply *)
LEMMA ApplyUpdateIsExact ==
  ASSUME BookInv, NEW side \in Sides, NEW p \in Prices, NEW q \in Quantities,
         ApplyUpdate(side, Level(p, q))
  PROVE  BookInv'
<1>0. p \in Int /\ q \in Int /\ p >= 0
  BY LadderConstants DEF Prices, Quantities
<1>1. PICK lv : lv = Level(p, q)
  OBVIOUS
<1>2. lv.price = p /\ lv.qty = q /\ (Valid(lv) <=> p > 0 /\ q >= 0)
  BY <1>1 DEF Level, Valid
<1>3. PICK l : l = book[side]
  OBVIOUS
<1>4. PICK listing : listing = listed[side]
  OBVIOUS
<1>5. /\ book \in [Sides -> Ladders] /\ listed \in [Sides -> Listings]
      /\ LadderIs(side, l, listing) /\ listing \in Listings
  BY <1>3, <1>4 DEF BookInv
<1>6. CASE ~ Valid(lv)
  <2>1. book' = [book EXCEPT ![side] = book[side]]
    BY <1>1, <1>6 DEF ApplyUpdate
  <2>2. listed' = [listed EXCEPT ![side][p] = listed[side][p]]
    BY <1>1, <1>2, <1>6 DEF ApplyUpdate
  <2>3. [listing EXCEPT ![p] = listing[p]] = listing
    BY <1>5 DEF Listings
  <2>4. listed' = [listed EXCEPT ![side] = listing]
    BY <1>4, <2>2, <2>3
  <2>5. book' = book /\ listed' = listed
    BY <1>4, <1>5, <2>1, <2>4
  <2> QED BY <2>5 DEF BookInv
<1>7. CASE Valid(lv)
  <2>1. p \in 1 .. MaxPrice /\ q \in Nat
    BY <1>0, <1>2, <1>7, LadderConstants DEF Prices
  <2>2. PICK a : a = Applied(side, l, Level(p, q))
    OBVIOUS
  <2>3. PICK new : new = Now(listing, p, q)
    OBVIOUS
  <2>4. LadderIs(side, a, new)
    BY <1>5, <2>1, <2>2, <2>3, AppliedIsExact
  <2>5. new \in Listings /\ a \in Ladders
    <3>1. new \in Listings
      BY <1>5, <2>1, <2>3, NowFacts
    <3> QED BY <2>4, <3>1 DEF LadderIs
  <2>6. book' = [book EXCEPT ![side] = a]
    BY <1>1, <1>3, <1>7, <2>2 DEF ApplyUpdate
  <2>7. listed' = [listed EXCEPT ![side] = new]
    <3>1. listed' = [listed EXCEPT ![side][p] = q]
      BY <1>1, <1>2, <1>7 DEF ApplyUpdate
    <3> QED BY <1>4, <2>3, <3>1 DEF Now
  <2>8. book' \in [Sides -> Ladders] /\ listed' \in [Sides -> Listings]
    BY <1>5, <2>5, <2>6, <2>7
  <2>9. ASSUME NEW d \in Sides
        PROVE  LadderIs(d, book'[d], listed'[d])
    <3>1. CASE d = side
      BY <1>5, <2>4, <2>6, <2>7, <3>1
    <3>2. CASE d # side
      <4>1. book'[d] = book[d] /\ listed'[d] = listed[d]
        BY <1>5, <2>6, <2>7, <3>2
      <4> QED BY <4>1 DEF BookInv
    <3> QED BY <3>1, <3>2
  <2> QED BY <2>8, <2>9 DEF BookInv
<1> QED BY <1>6, <1>7

(* Book::load *)
LEMMA LoadSnapshotIsExact ==
  ASSUME NEW side \in Sides, NEW levels \in Snapshots, NEW p \in 0 .. 1,
         LoadSnapshot(side, levels, <<Level(p, 1)>>)
  PROVE  BookInv'
<1>1. PICK given : given = [s \in Sides |-> IF s = side THEN levels ELSE <<Level(p, 1)>>]
  OBVIOUS
<1>2. PICK load : load = [s \in Sides |-> Loaded(s, given[s])]
  OBVIOUS
<1>3. /\ book' = [s \in Sides |-> IF \A d \in Sides : load[d].ok THEN load[s].ladder ELSE EmptyLadder]
      /\ listed' = [s \in Sides |-> IF \A d \in Sides : load[d].ok THEN AsListed(given[s])
                                    ELSE NothingListed]
  BY <1>1, <1>2 DEF LoadSnapshot
<1>4. CASE ~ \A d \in Sides : load[d].ok
  <2>1. book' = [s \in Sides |-> EmptyLadder] /\ listed' = [s \in Sides |-> NothingListed]
    BY <1>3, <1>4
  <2> QED BY <2>1, ClearedIsExact DEF BookInv
<1>5. CASE \A d \in Sides : load[d].ok
  <2>1. ASSUME NEW s \in Sides
        PROVE  LadderIs(s, load[s].ladder, AsListed(given[s])) /\ AsListed(given[s]) \in Listings
    <3>1. PICK u : u = given[s]
      OBVIOUS
    <3>2. PICK m \in Nat : /\ Len(u) = m /\ DOMAIN u = 1 .. m
                           /\ \A k \in 1 .. m : Loadable(u[k])
      <4>1. CASE s = side
        <5>1. u = levels
          BY <1>1, <3>1, <4>1
        <5> QED BY <5>1, SnapshotIsLoadable
      <4>2. CASE s # side
        <5>1. u = <<Level(p, 1)>>
          BY <1>1, <3>1, <4>2
        <5>2. /\ Len(u) = 1 /\ DOMAIN u = 1 .. 1 /\ \A k \in 1 .. 1 : Loadable(u[k])
          BY <5>1, SnapshotIsLoadable
        <5> QED BY <5>2
      <4> QED BY <4>1, <4>2
    <3>3. load[s] = Loaded(s, u)
      BY <1>2, <3>1
    <3>4. LadderIs(s, load[s].ladder, ListedTo(u, m))
      <4>1. Loaded(s, u).ok
        BY <1>5, <3>3
      <4> QED BY <3>2, <3>3, <4>1, LoadedIsExact
    <3>5. AsListed(u) = ListedTo(u, m)
      BY <3>2 DEF AsListed, ListedTo, PricesOf
    <3> QED BY <3>1, <3>4, <3>5, ListedToFacts
  <2>2. book' = [s \in Sides |-> load[s].ladder] /\ listed' = [s \in Sides |-> AsListed(given[s])]
    BY <1>3, <1>5
  <2>3. book' \in [Sides -> Ladders]
    BY <2>1, <2>2 DEF LadderIs
  <2> QED BY <2>1, <2>2, <2>3 DEF BookInv
<1> QED BY <1>4, <1>5

(***************************************************************************)
(* Each side of the book is in order and exact as far as its horizon, in   *)
(* every state, whatever sequence of updates, removals, snapshots and      *)
(* clears led to it (ladder.rs, book.rs).                                  *)
(***************************************************************************)
THEOREM LadderInvariant == BookSpec => []BookInv
<1>1. BookInit => BookInv
  BY ClearedIsExact DEF BookInit, BookInv
<1>2. BookInv /\ [BookNext]_bookVars => BookInv'
  <2> SUFFICES ASSUME BookInv, [BookNext]_bookVars PROVE BookInv'
    OBVIOUS
  <2>1. CASE \E side \in Sides, p \in Prices, q \in Quantities : ApplyUpdate(side, Level(p, q))
    BY <2>1, ApplyUpdateIsExact
  <2>2. CASE \E side \in Sides, levels \in Snapshots, p \in 0 .. 1 :
               LoadSnapshot(side, levels, <<Level(p, 1)>>)
    BY <2>2, LoadSnapshotIsExact
  <2>3. CASE Clear
    BY <2>3, ClearedIsExact DEF Clear, BookInv
  <2>4. CASE UNCHANGED bookVars
    BY <2>4 DEF bookVars, BookInv
  <2> QED BY <2>1, <2>2, <2>3, <2>4 DEF BookNext
<1> QED BY <1>1, <1>2, PTL DEF BookSpec

(***************************************************************************)
(* KnownLevelsAreExact, for every capacity and every number of prices:     *)
(* what the ladder shows at or better than its horizon is what the venue   *)
(* lists there, and the levels are from worst to best.                     *)
(***************************************************************************)
THEOREM LadderKnownLevelsAreExact == BookSpec => []KnownLevelsAreExact
<1>1. BookInv => KnownLevelsAreExact
  <2> SUFFICES ASSUME BookInv, NEW side \in Sides
               PROVE  LET l == book[side] IN
                      /\ Len(l.levels) <= LevelsPerSide
                      /\ \A k \in 1 .. Len(l.levels) - 1 :
                           Better(side, l.levels[k + 1].price, l.levels[k].price)
                      /\ \A p \in PricesOf(l.levels) : ~ (l.horizon # 0 /\ Better(side, l.horizon, p))
                      /\ \A p \in 1 .. MaxPrice :
                           (l.horizon # 0 => ~ Better(side, l.horizon, p)) =>
                             (listed[side][p] > 0 <=> p \in PricesOf(l.levels))
                      /\ \A k \in DOMAIN l.levels : l.levels[k].qty = listed[side][l.levels[k].price]
    BY DEF KnownLevelsAreExact
  <2>1. PICK l : l = book[side]
    OBVIOUS
  <2>2. PICK s : s = l.levels
    OBVIOUS
  <2>3. PICK h : h = l.horizon
    OBVIOUS
  <2>4. PICK listing : listing = listed[side]
    OBVIOUS
  <2>5. LadderIs(side, l, listing)
    BY <2>1, <2>4 DEF BookInv
  <2>6. /\ s \in Seq(Levels) /\ Len(s) \in Nat /\ Len(s) <= LevelsPerSide /\ Ordered(side, s)
        /\ Exact(side, ToSet(s), h, listing)
    BY <2>2, <2>3, <2>5, LadderParts
  <2>7. \A k \in DOMAIN s : s[k] \in ToSet(s) /\ s[k].qty \in Nat /\ s[k].qty > 0
    <3>1. \A k \in DOMAIN s : s[k] \in ToSet(s)
      BY DEF ToSet
    <3>2. \A k \in DOMAIN s : s[k] \in Levels
      BY <2>6, LevelOf
    <3> QED BY <3>1, <3>2, LevelFacts
  <2>8. \A k \in 1 .. Len(s) - 1 : Better(side, s[k + 1].price, s[k].price)
    <3>1. \A k \in 1 .. Len(s) - 1 : k \in DOMAIN s /\ k + 1 \in DOMAIN s /\ k < k + 1
      BY <2>6
    <3> QED BY <2>6, <3>1 DEF Ordered
  <2>9. \A k \in DOMAIN s : s[k].qty = listing[s[k].price]
    BY <2>6, <2>7 DEF Exact
  <2>10. \A p \in PricesOf(s) : ~ (h # 0 /\ Better(side, h, p))
    <3>1. \A k \in DOMAIN s : ~ Beyond(side, h, s[k].price)
      BY <2>6, <2>7 DEF Exact
    <3> QED BY <3>1 DEF PricesOf, Beyond
  <2>11. ASSUME NEW p \in 1 .. MaxPrice, h # 0 => ~ Better(side, h, p)
         PROVE  listing[p] > 0 <=> p \in PricesOf(s)
    <3>1. ASSUME listing[p] > 0 PROVE p \in PricesOf(s)
      <4>1. \E x \in ToSet(s) : x.price = p
        BY <2>6, <2>11, <3>1 DEF Exact, Beyond
      <4> QED BY <2>6, <4>1, HeldPrices
    <3>2. ASSUME p \in PricesOf(s) PROVE listing[p] > 0
      <4>1. PICK k \in DOMAIN s : s[k].price = p
        BY <3>2 DEF PricesOf
      <4> QED BY <2>7, <2>9, <4>1
    <3> QED BY <3>1, <3>2
  <2> QED BY <2>1, <2>2, <2>3, <2>4, <2>6, <2>8, <2>9, <2>10, <2>11
<1>2. BookSpec => []BookInv
  BY LadderInvariant
<1> QED BY <1>1, <1>2, PTL

=============================================================================
