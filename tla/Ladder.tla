------------------------------- MODULE Ladder -------------------------------
(***************************************************************************)
(* bowst-book: the ladders of a book (ladder.rs, book.rs).  A ladder keeps *)
(* the best LevelsPerSide levels it was told of, sorted from worst to      *)
(* best, and a horizon: the worst price it still knows exactly.            *)
(*                                                                         *)
(* `listed` is what the venue's updates and snapshot say, at every price   *)
(* and without limit.  BookSync takes a side of a book to be that map.     *)
(***************************************************************************)
EXTENDS Integers, Sequences, SequencesExt, FiniteSetsExt

CONSTANTS
  LevelsPerSide,   \* Ladder::capacity
  MaxPrice,        \* bound: prices are 1 .. MaxPrice, and 0 is invalid
  MaxQty           \* bound: quantities are 1 .. MaxQty, 0 removes, -1 is invalid

ASSUME LadderAssumption == {LevelsPerSide, MaxPrice} \subseteq Nat \ {0} /\ MaxQty \in Nat

VARIABLES
  book,     \* book[side]: the ladder, its levels and its horizon (0 for None)
  listed    \* listed[side][price]: the quantity the venue has there

bookVars == <<book, listed>>

Sides == {"Buy", "Sell"}
Prices == 0 .. MaxPrice
Quantities == -1 .. MaxQty

EmptyLadder == [levels |-> <<>>, horizon |-> 0]

NothingListed == [p \in Prices |-> 0]

\* Side::is_more_aggressive, and Ladder::rank
Better(side, p, q) == IF side = "Buy" THEN p > q ELSE p < q

Level(price, qty) == [price |-> price, qty |-> qty]

\* validate
Valid(lv) == lv.price > 0 /\ lv.qty >= 0

PricesOf(levels) == {levels[k].price : k \in DOMAIN levels}

BeyondHorizon(side, l, price) == l.horizon # 0 /\ Better(side, l.horizon, price)

\* Ladder::search: how many levels are worse than price, of levels from worst to best.
Index(side, levels, price) ==
  Min({n \in 0 .. Len(levels) : n = Len(levels) \/ ~ Better(side, price, levels[n + 1].price)})

\* Mutant: the horizon is not moved when the worst level is dropped.
InsertUnmarked(side, l, lv) ==
  LET index == Index(side, l.levels, lv.price) IN
  IF Len(l.levels) < LevelsPerSide
    THEN [l EXCEPT !.levels = InsertAt(@, index + 1, lv)]
  ELSE IF index = 0 THEN [l EXCEPT !.horizon = l.levels[1].price]
  ELSE [l EXCEPT !.levels = InsertAt(Tail(@), index, lv)]

\* Ladder::insert: a full ladder drops its worst level, or the new one.
Insert(side, l, lv) ==
  LET index == Index(side, l.levels, lv.price)
      kept  == InsertAt(Tail(l.levels), index, lv)
  IN  IF Len(l.levels) < LevelsPerSide
        THEN [l EXCEPT !.levels = InsertAt(@, index + 1, lv)]
      ELSE IF index = 0 THEN [l EXCEPT !.horizon = l.levels[1].price]
      ELSE [levels |-> kept, horizon |-> kept[1].price]

\* Ladder::apply of a valid level
Applied(side, l, lv) ==
  LET index == Index(side, l.levels, lv.price) + 1
      held  == lv.price \in PricesOf(l.levels)
  IN  IF BeyondHorizon(side, l, lv.price) THEN l
      ELSE IF held /\ lv.qty = 0 THEN [l EXCEPT !.levels = RemoveAt(@, index)]
      ELSE IF held THEN [l EXCEPT !.levels[index] = lv]
      ELSE IF lv.qty = 0 THEN l
      ELSE Insert(side, l, lv)

-----------------------------------------------------------------------------
(* Ladder::load: levels in any order into an empty ladder. *)

\* The levels from worst to best.
Sorted(side, levels) ==
  LET sorted[n \in 0 .. Len(levels)] ==
        IF n = 0 THEN <<>>
        ELSE InsertAt(sorted[n - 1], Index(side, sorted[n - 1], levels[n].price) + 1, levels[n])
  IN  sorted[Len(levels)]

\* sort_and_check
SortAndCheck(side, s) ==
  IF s.sorted \/ ~ s.ok THEN s
  ELSE [ladder |-> [s.ladder EXCEPT !.levels = Sorted(side, @)], sorted |-> TRUE,
        ok |-> IsInjective([k \in DOMAIN s.ladder.levels |-> s.ladder.levels[k].price])]

\* load_inner, one level
LoadLevel(side, s, lv) ==
  LET full == SortAndCheck(side, s) IN
  IF ~ s.ok \/ ~ Valid(lv) \/ lv.qty = 0 THEN [s EXCEPT !.ok = FALSE]
  ELSE IF Len(s.ladder.levels) < LevelsPerSide
    THEN [s EXCEPT !.ladder.levels = Append(@, lv)]
  ELSE IF ~ full.ok \/ lv.price \in PricesOf(full.ladder.levels) THEN [full EXCEPT !.ok = FALSE]
  ELSE [full EXCEPT !.ladder = Insert(side, @, lv)]

Loaded(side, levels) ==
  LET load[n \in 0 .. Len(levels)] ==
        IF n = 0 THEN [ladder |-> EmptyLadder, sorted |-> FALSE, ok |-> TRUE]
        ELSE LoadLevel(side, load[n - 1], levels[n])
  IN  SortAndCheck(side, load[Len(levels)])

-----------------------------------------------------------------------------
(* Book *)

BookInit ==
  /\ book = [side \in Sides |-> EmptyLadder]
  /\ listed = [side \in Sides |-> NothingListed]

\* Book::apply; an invalid update changes nothing.
ApplyUpdate(side, lv) ==
  /\ book' = [book EXCEPT ![side] = IF Valid(lv) THEN Applied(side, @, lv) ELSE @]
  /\ listed' = [listed EXCEPT ![side][lv.price] = IF Valid(lv) THEN lv.qty ELSE @]

\* Book::clear
Clear ==
  /\ book' = [side \in Sides |-> EmptyLadder]
  /\ listed' = [side \in Sides |-> NothingListed]

\* Snapshots of one side: up to two levels more than fit, in any order, some twice, and
\* some with a level that is not valid in a snapshot.
Snapshots ==
  LET right == UNION {[1 .. n -> {Level(p, 1) : p \in 1 .. MaxPrice}] : n \in 0 .. LevelsPerSide + 2}
  IN  right \cup {<<Level(1, 1), lv>> : lv \in {Level(0, 1), Level(2, 0), Level(2, -1)}}

AsListed(levels) ==
  [p \in Prices |-> IF p \in PricesOf(levels) THEN 1 ELSE 0]

\* Book::load of a snapshot into the book that BookSync has cleared before.  One side
\* varies, the other has one level or an invalid one.
LoadSnapshot(side, levels, other) ==
  LET given == [s \in Sides |-> IF s = side THEN levels ELSE other]
      load  == [s \in Sides |-> Loaded(s, given[s])]
      ok    == \A s \in Sides : load[s].ok
  IN  /\ \A s \in Sides : book[s] = EmptyLadder
      /\ book' = [s \in Sides |-> IF ok THEN load[s].ladder ELSE EmptyLadder]
      /\ listed' = [s \in Sides |-> IF ok THEN AsListed(given[s]) ELSE NothingListed]

BookNext ==
  \/ \E side \in Sides, p \in Prices, q \in Quantities : ApplyUpdate(side, Level(p, q))
  \/ \E side \in Sides, levels \in Snapshots, p \in 0 .. 1 :
       LoadSnapshot(side, levels, <<Level(p, 1)>>)
  \/ Clear

BookSpec == BookInit /\ [][BookNext]_bookVars

-----------------------------------------------------------------------------

\* Every level at or better than the horizon is exact, whatever was dropped, removed and
\* added again before, and the ladder holds nothing beyond it; without a horizon it holds
\* everything the venue reported (ladder.rs:42-45, 95-96).  So the best level is the
\* venue's as long as the ladder has one.
KnownLevelsAreExact ==
  \A side \in Sides :
    LET l == book[side] IN
    /\ Len(l.levels) <= LevelsPerSide
    /\ \A k \in 1 .. Len(l.levels) - 1 : Better(side, l.levels[k + 1].price, l.levels[k].price)
    /\ \A p \in PricesOf(l.levels) : ~ (l.horizon # 0 /\ Better(side, l.horizon, p))
    /\ \A p \in 1 .. MaxPrice :
         (l.horizon # 0 => ~ Better(side, l.horizon, p)) =>
           (listed[side][p] > 0 <=> p \in PricesOf(l.levels))
    /\ \A k \in DOMAIN l.levels : l.levels[k].qty = listed[side][l.levels[k].price]

=============================================================================
