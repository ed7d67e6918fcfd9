---------------------------- MODULE DepthDecoder ----------------------------
(***************************************************************************)
(* bowst-venue: the decoders of Binance's depth messages                   *)
(* (binance/depth.rs) and of the level arrays in them (levels.rs).  The    *)
(* fields of a message come in any order, in a combined-stream envelope or *)
(* not, and a side that comes before the symbol is put off until the       *)
(* increments of the instrument are known.                                 *)
(*                                                                         *)
(* `given` keeps what the message said under each key, in the order it was *)
(* said, but not the order of the keys.  An Option is a sequence of at     *)
(* most one value.  A price or quantity is a number of the finest units a  *)
(* text can express (FixedPoint converts the text).  Keys that are skipped *)
(* are left out.                                                           *)
(***************************************************************************)
EXTENDS Integers, Sequences, SequencesExt

CONSTANTS
  Known,        \* the symbols of the instrument table
  Unknown,      \* a symbol that is not in it
  TickOf,       \* TickOf[s]: Instrument::tick, in the finest units
  LotOf,        \* LotOf[s]: Instrument::lot
  LevelLimit,   \* the decoder's limit
  LevelArrays,  \* the level arrays that are sent
  UpdateIds,    \* the update ids that are sent
  Repeatable    \* bound: the keys one of which may come twice

ASSUME DecoderAssumption ==
  /\ Unknown \notin Known
  /\ \A s \in Known : {TickOf[s], LotOf[s]} \subseteq Nat \ {0}
  /\ LevelLimit \in Nat /\ UpdateIds \subseteq Nat
  /\ LevelArrays \subseteq Seq([price : Int, qty : Int, pair : BOOLEAN])

VARIABLES
  given,      \* given[key]: the values that were read
  fields,     \* Fields, and the decoder's buffer
  envelope,   \* "none", "inside" or "left": where the message is with its envelope
  decoded     \* "", "ok", "bad field" or "incomplete"

decoderVars == <<given, fields, envelope, decoded>>

None == <<>>

SideKeys == {"b", "a"}

\* The values of each key: of "e" whether it is depthUpdate, of "E" whether it is in the
\* range of a WallTime.
ValuesOf ==
  [e |-> BOOLEAN, E |-> BOOLEAN, s |-> Known \cup {Unknown}, U |-> UpdateIds, u |-> UpdateIds,
   b |-> LevelArrays, a |-> LevelArrays, lastUpdateId |-> UpdateIds]

UpdateKeys == {"e", "E", "s", "U", "u", "b", "a"}

\* A snapshot's keys; "b" and "a" are its "bids" and "asks".
SnapshotKeys == {"lastUpdateId", "b", "a"}

-----------------------------------------------------------------------------
(* levels.rs *)

\* read_level: two strings, each a whole number of increments
Readable(lv, s) == lv.pair /\ lv.price % TickOf[s] = 0 /\ lv.qty % LotOf[s] = 0

InUnits(lv, s) == [price |-> lv.price \div TickOf[s], qty |-> lv.qty \div LotOf[s]]

\* read_updates_into and read_levels_into: whether they succeed, and what they append
ReadsInto(array, s, out) ==
  Len(out) + Len(array) <= LevelLimit /\ \A k \in DOMAIN array : Readable(array[k], s)

Appended(array, s, side, out) ==
  out \o [k \in DOMAIN array |-> [side |-> side, level |-> InUnits(array[k], s)]]

-----------------------------------------------------------------------------
(* DepthUpdateDecoder *)

EmptyFields ==
  [eventSeen |-> FALSE, eventTime |-> None, instrument |-> None, first |-> None, last |-> None,
   deferred |-> [k \in SideKeys |-> None], sidesRead |-> [k \in SideKeys |-> FALSE],
   updates |-> <<>>, failed |-> FALSE]

Failed(fs) == [fs EXCEPT !.failed = TRUE]

\* read_side
ReadSide(fs, side, array) ==
  LET s == fs.instrument[1] IN
  IF ReadsInto(array, s, fs.updates)
  THEN [fs EXCEPT !.updates = Appended(array, s, side, @)]
  ELSE Failed(fs)

\* Mutant: a side that was put off does not count as read.
AlreadyReadOnly(fs, side) == fs.sidesRead[side]

Already(fs, side) == fs.sidesRead[side] \/ fs.deferred[side] # None

\* read_object, one field
ReadField(fs, key, value) ==
  CASE key = "e" -> IF value THEN [fs EXCEPT !.eventSeen = TRUE] ELSE Failed(fs)
    [] key = "E" -> [fs EXCEPT !.eventTime = <<value>>]
    [] key = "s" -> IF value \in Known THEN [fs EXCEPT !.instrument = <<value>>] ELSE Failed(fs)
    [] key = "U" -> [fs EXCEPT !.first = <<value>>]
    [] key = "u" -> [fs EXCEPT !.last = <<value>>]
    [] key \in SideKeys ->
         IF Already(fs, key) THEN Failed(fs)
         ELSE IF fs.instrument # None
           THEN ReadSide([fs EXCEPT !.sidesRead[key] = TRUE], key, value)
         ELSE [fs EXCEPT !.deferred[key] = <<value>>]

\* decode, a side that was put off
ReadDeferred(fs, side) ==
  IF fs.failed \/ fs.deferred[side] = None THEN fs ELSE ReadSide(fs, side, fs.deferred[side][1])

\* decode, after the walk
Lacks(fs) ==
  \/ None \in {fs.instrument, fs.first, fs.last, fs.eventTime}
  \/ \E side \in SideKeys : ~ Already(fs, side)
  \/ ~ fs.eventSeen

-----------------------------------------------------------------------------
(* DepthSnapshotDecoder, for the instrument the request was made for *)

EmptySnapshot(s) ==
  [instrument |-> s, lastUpdateId |-> None, sides |-> [k \in SideKeys |-> <<>>],
   seen |-> [k \in SideKeys |-> FALSE], failed |-> FALSE]

ReadSnapshotField(fs, key, value) ==
  IF key = "lastUpdateId" THEN [fs EXCEPT !.lastUpdateId = <<value>>]
  ELSE IF ReadsInto(value, fs.instrument, fs.sides[key])
    THEN [fs EXCEPT !.sides[key] = Appended(value, fs.instrument, key, @), !.seen[key] = TRUE]
  ELSE Failed(fs)

-----------------------------------------------------------------------------

DecodesUpdate == "updates" \in DOMAIN fields

DecoderInit ==
  /\ given = [key \in UpdateKeys \cup SnapshotKeys |-> <<>>]
  /\ fields \in {EmptyFields} \cup {EmptySnapshot(s) : s \in Known}
  /\ envelope = "none"
  /\ decoded = ""

Read(key, value) ==
  /\ decoded = ""
  /\ given[key] # <<>> => key \in Repeatable /\ \A k \in DOMAIN given : Len(given[k]) < 2
  /\ given' = [given EXCEPT ![key] = Append(@, value)]
  /\ decoded' = IF fields'.failed THEN "bad field" ELSE ""
  /\ UNCHANGED envelope

ReadUpdateField(key, value) ==
  /\ DecodesUpdate
  /\ fields' = ReadField(fields, key, value)
  /\ Read(key, value)

ReadOfSnapshot(key, value) ==
  /\ ~ DecodesUpdate
  /\ fields' = ReadSnapshotField(fields, key, value)
  /\ Read(key, value)

\* "data", in the outer object; its fields are read like those outside.  One envelope
\* at most.
OpenEnvelope ==
  /\ DecodesUpdate /\ decoded = "" /\ envelope = "none"
  /\ envelope' = "inside"
  /\ UNCHANGED <<given, fields, decoded>>

CloseEnvelope ==
  /\ decoded = "" /\ envelope = "inside"
  /\ envelope' = "left"
  /\ UNCHANGED <<given, fields, decoded>>

\* The message ends: the sides that were put off are read, and nothing may be missing.
EndOfUpdate ==
  /\ DecodesUpdate /\ decoded = "" /\ envelope # "inside"
  /\ IF fields.instrument = None
     THEN decoded' = "incomplete" /\ UNCHANGED fields
     ELSE /\ fields' = ReadDeferred(ReadDeferred(fields, "b"), "a")
          /\ decoded' = IF fields'.failed THEN "bad field"
                        ELSE IF Lacks(fields) THEN "incomplete"
                        ELSE IF fields.first[1] > fields.last[1] THEN "incomplete"
                        ELSE IF ~ fields.eventTime[1] THEN "incomplete"
                        ELSE "ok"
  /\ UNCHANGED <<given, envelope>>

EndOfSnapshot ==
  /\ ~ DecodesUpdate /\ decoded = ""
  /\ decoded' = IF fields.lastUpdateId # None /\ \A side \in SideKeys : fields.seen[side]
                THEN "ok" ELSE "incomplete"
  /\ UNCHANGED <<given, fields, envelope>>

DecoderNext ==
  \/ \E key \in UpdateKeys : \E value \in ValuesOf[key] : ReadUpdateField(key, value)
  \/ \E key \in SnapshotKeys : \E value \in ValuesOf[key] : ReadOfSnapshot(key, value)
  \/ OpenEnvelope \/ CloseEnvelope \/ EndOfUpdate \/ EndOfSnapshot

DecoderSpec == DecoderInit /\ [][DecoderNext]_decoderVars

-----------------------------------------------------------------------------
(* What a message means, whatever the order of its keys. *)

\* The instrument it is for, if it says so.
MeantFor == IF DecodesUpdate THEN given["s"] ELSE <<fields.instrument>>

AllLevels(side) == FlattenSeq(given[side])

\* What no message may hold.
Offends ==
  \/ FALSE \in ToSet(given["e"])
  \/ Unknown \in ToSet(given["s"])
  \/ DecodesUpdate /\ \E side \in SideKeys : Len(given[side]) > 1
  \/ IF DecodesUpdate
     THEN Len(AllLevels("b")) + Len(AllLevels("a")) > LevelLimit
     ELSE \E side \in SideKeys : Len(AllLevels(side)) > LevelLimit
  \/ /\ MeantFor # None /\ MeantFor[1] \in Known
     /\ \E side \in SideKeys : \E lv \in ToSet(AllLevels(side)) : ~ Readable(lv, MeantFor[1])

\* What every message must hold.
Complete ==
  /\ \A key \in IF DecodesUpdate THEN UpdateKeys ELSE SnapshotKeys : given[key] # <<>>
  /\ DecodesUpdate => Last(given["U"]) <= Last(given["u"]) /\ Last(given["E"])

\* Each side's levels, whole and in their own order; in an update one side follows the
\* other, whichever was read first.
ReadWhole ==
  LET With(side, out) == Appended(AllLevels(side), MeantFor[1], side, out) IN
  IF DecodesUpdate
  THEN \E x, y \in SideKeys : x # y /\ fields.updates = With(y, With(x, <<>>))
  ELSE \A side \in SideKeys : fields.sides[side] = With(side, <<>>)

\* A message is decoded to the same levels whatever the order of its fields: each side's
\* once, in its own order and in the increments of the instrument the message is for.
\* Only a message that offends or lacks something is refused.  A symbol given twice is
\* not covered: nothing refuses it, and a side between the two is read in the increments
\* of the first (depth.rs:38-49, 139-163).  Which side comes first depends on the order;
\* BidsFirst below says otherwise.
DecodedInAnyOrder ==
  Len(given["s"]) <= 1 =>
    /\ decoded = "ok" =>
         /\ Complete /\ ~ Offends
         /\ DecodesUpdate => /\ fields.instrument = MeantFor
                             /\ fields.first[1] = Last(given["U"])
                             /\ fields.last[1] = Last(given["u"])
         /\ ReadWhole
    /\ decoded = "bad field" => Offends
    /\ decoded = "incomplete" => ~ Complete

\* depth.rs:27, of DepthUpdate::updates: "Changed levels, bids first."
BidsFirst ==
  decoded = "ok" /\ DecodesUpdate =>
    \A j, k \in DOMAIN fields.updates :
      fields.updates[j].side = "b" /\ fields.updates[k].side = "a" => j < k

=============================================================================
