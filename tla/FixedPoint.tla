----------------------------- MODULE FixedPoint -----------------------------
(***************************************************************************)
(* bowst-core: decimals and increments (fixed.rs), from the text of a      *)
(* venue's number to whole ticks or lots.  Prices and quantities take the  *)
(* fast path of parse_units when they can and the general one otherwise,   *)
(* and both must say the same.                                             *)
(*                                                                         *)
(* A text is a sequence of characters, typed one by one: a digit is        *)
(* itself, and 10, 11 and 12 are the point, the minus and any other.  The  *)
(* widths are parameters; a result is a number or an error.                *)
(***************************************************************************)
EXTENDS Integers, Sequences, SequencesExt, FiniteSets

CONSTANTS
  I64Max,         \* i64::MAX, which also bounds the fast path's u64
  I128Max,        \* i128::MAX
  MaxParseScale,  \* MAX_PARSE_SCALE and FAST_DIGITS, the largest power of ten in an i64
  MaxPower,       \* the largest power of ten in an i128
  Alphabet,       \* the characters that are typed
  MaxLength       \* bound on a text

ASSUME FixedAssumption ==
  /\ {I64Max, I128Max, MaxParseScale, MaxPower, MaxLength} \subseteq Nat
  /\ 10 ^ MaxParseScale <= I64Max /\ 10 ^ MaxPower <= I128Max
  /\ (I64Max + 1) * (I64Max + 1) <= I128Max + 1
  /\ Alphabet \subseteq 0 .. 12

VARIABLE text

Point == 10
Minus == 11

Err(what) == [err |-> what]
Ok(value) == [err |-> "", value |-> value]
Dec(mantissa, scale) == [mantissa |-> mantissa, scale |-> scale]

AbsOf(n) == IF n < 0 THEN -n ELSE n
Higher(a, b) == IF a > b THEN a ELSE b

-----------------------------------------------------------------------------
(* Dec::parse_bytes *)

\* One character; s.scale is -1 before the point.
ParseChar(s, c) ==
  LET next == s.mantissa * 10 + c IN
  IF s.err # "" THEN s
  ELSE IF c <= 9 /\ next > I128Max THEN [s EXCEPT !.err = "Overflow"]
  ELSE IF c <= 9 /\ s.scale = -1
    THEN [s EXCEPT !.mantissa = next, !.intDigits = @ + 1]
  ELSE IF c <= 9
    THEN [s EXCEPT !.mantissa = next, !.scale = @ + 1,
                   !.err = IF s.scale = MaxParseScale THEN "TooManyDecimals" ELSE ""]
  ELSE IF c = Point /\ s.scale = -1 /\ s.intDigits > 0 THEN [s EXCEPT !.scale = 0]
  ELSE [s EXCEPT !.err = "InvalidChar"]

Parse(t) ==
  LET negative == t # <<>> /\ t[1] = Minus
      start == [mantissa |-> 0, scale |-> -1, intDigits |-> 0, err |-> ""]
      s == FoldLeft(ParseChar, start, IF negative THEN Tail(t) ELSE t)
  IN  IF t = <<>> THEN Err("Empty")
      ELSE IF s.err # "" THEN Err(s.err)
      ELSE IF s.intDigits = 0 THEN Err("Empty")
      ELSE IF s.scale = 0 THEN Err("InvalidChar")
      ELSE Ok(Dec(IF negative THEN -s.mantissa ELSE s.mantissa, Higher(s.scale, 0)))

-----------------------------------------------------------------------------
(* Dec::write_to: at least one digit before the point, and the whole scale.  *)

Written(d) ==
  LET m == AbsOf(d.mantissa)
      digits == {n \in 1 .. MaxPower + 1 : 10 ^ (n - 1) <= m}
      len == Higher(d.scale + 1, Cardinality(digits))
      Digit(k) == (m \div 10 ^ (len - k)) % 10
  IN  (IF d.mantissa < 0 THEN <<Minus>> ELSE <<>>)
        \o [k \in 1 .. len - d.scale |-> Digit(k)]
        \o (IF d.scale > 0 THEN <<Point>> ELSE <<>>)
        \o [k \in 1 .. d.scale |-> Digit(len - d.scale + k)]

\* Ord for Dec: whole parts first, then the fractions at the larger scale
Below(a, b) ==
  LET IntPart(d) == d.mantissa \div 10 ^ d.scale
      common == Higher(a.scale, b.scale)
      FracPart(d) == (d.mantissa % 10 ^ d.scale) * 10 ^ (common - d.scale)
  IN  IF a.scale = b.scale THEN a.mantissa < b.mantissa
      ELSE IntPart(a) < IntPart(b) \/ (IntPart(a) = IntPart(b) /\ FracPart(a) < FracPart(b))

-----------------------------------------------------------------------------
(* Increment *)

\* Increment::new: without trailing zeros
Increment(mantissa, scale) ==
  LET zeros == {n \in 0 .. scale : mantissa % 10 ^ n = 0}
      n == CHOOSE z \in zeros : \A y \in zeros : y <= z
  IN  Dec(mantissa \div 10 ^ n, scale - n)

\* Mutant: the quotient is truncated towards zero, as / does.
RoundQuotientToZero(numerator, denominator, rounding) ==
  LET quotient == AbsOf(numerator) \div denominator
      exact == numerator % denominator = 0
      floor == IF numerator < 0 THEN -quotient ELSE quotient
      units == IF rounding = "Up" /\ ~ exact THEN floor + 1 ELSE floor
  IN  IF rounding = "Exact" /\ ~ exact THEN Err("NotMultiple")
      ELSE IF units > I64Max \/ units < - I64Max - 1 THEN Err("Overflow")
      ELSE Ok(units)

\* round_quotient, and the result as an i64
RoundQuotient(numerator, denominator, rounding) ==
  LET floor == numerator \div denominator
      exact == numerator % denominator = 0
      units == IF rounding = "Up" /\ ~ exact THEN floor + 1 ELSE floor
  IN  IF rounding = "Exact" /\ ~ exact THEN Err("NotMultiple")
      ELSE IF units > I64Max \/ units < - I64Max - 1 THEN Err("Overflow")
      ELSE Ok(units)

Fits(n, max) == - max - 1 <= n /\ n <= max

\* Increment::to_units: in 64 bits if that is enough, else in 128
ToUnits(inc, d, rounding) ==
  LET common == Higher(d.scale, inc.scale)
      numerator == d.mantissa * 10 ^ (common - d.scale)
      denominator == inc.mantissa * 10 ^ (common - inc.scale)
      small == /\ Fits(d.mantissa, I64Max)
               /\ common - d.scale <= MaxParseScale /\ Fits(numerator, I64Max)
               /\ common - inc.scale <= MaxParseScale /\ Fits(denominator, I64Max)
      large == /\ common - d.scale <= MaxPower /\ Fits(numerator, I128Max)
               /\ common - inc.scale <= MaxPower /\ Fits(denominator, I128Max)
  IN  IF small \/ large THEN RoundQuotient(numerator, denominator, rounding)
      ELSE Err("Overflow")

NotHandled == -1

Value(digits) == FoldLeft(LAMBDA v, c : v * 10 + c, 0, digits)

\* Mutant: dropped digits are not looked at.
UnitsOfTruncated(inc, int, kept, dropped) ==
  Value(int \o kept) * 10 ^ (inc.scale - Len(kept))

UnitsOf(inc, int, kept, dropped) ==
  LET units == Value(int \o kept) * 10 ^ (inc.scale - Len(kept)) IN
  IF ToSet(dropped) \ {0} # {} THEN NotHandled
  ELSE IF Len(int) + Len(kept) > MaxParseScale \/ (\E c \in ToSet(int \o kept) : c > 9)
    THEN NotHandled
  ELSE IF units > I64Max THEN NotHandled
  ELSE units

\* parse_exact_power_of_ten
FastUnits(inc, t) ==
  LET dot == SelectInSeq(t, LAMBDA c : c = Point)
      int == IF dot = 0 THEN t ELSE SubSeq(t, 1, dot - 1)
      frac == IF dot = 0 THEN <<>> ELSE SubSeq(t, dot + 1, Len(t))
      wanted == IF Len(frac) < inc.scale THEN Len(frac) ELSE inc.scale
  IN  IF \/ inc.mantissa # 1
         \/ dot # 0 /\ frac = <<>>
         \/ int = <<>> \/ Len(frac) > MaxParseScale
        THEN NotHandled
        ELSE UnitsOf(inc, int, SubSeq(frac, 1, wanted), SubSeq(frac, wanted + 1, Len(frac)))

\* The general path
SlowUnits(inc, t, rounding) ==
  IF Parse(t).err # "" THEN Parse(t) ELSE ToUnits(inc, Parse(t).value, rounding)

\* parse_units_bytes
ParseUnits(inc, t, rounding) ==
  IF FastUnits(inc, t) # NotHandled THEN Ok(FastUnits(inc, t)) ELSE SlowUnits(inc, t, rounding)

\* Increment::from_units
FromUnits(inc, units) == Dec(units * inc.mantissa, inc.scale)

-----------------------------------------------------------------------------

TextInit == text = <<>>

TypeChar(c) == Len(text) < MaxLength /\ text' = Append(text, c)

TextNext == \E c \in Alphabet : TypeChar(c)

-----------------------------------------------------------------------------

Increments == {Increment(m, s) : m \in {1, 5, 10, 100}, s \in 0 .. MaxParseScale}
Roundings == {"Down", "Up", "Exact"}

\* parse_units says what to_units of the parsed number says, for every text, tick size
\* and rounding: same result and same errors (fixed.rs:473-478).
FastPathAgrees ==
  \A inc \in Increments, rounding \in Roundings :
    ParseUnits(inc, text, rounding) = SlowUnits(inc, text, rounding)

\* n increments, in units of 10^-MaxParseScale
Scaled(inc, n) == n * inc.mantissa * 10 ^ (MaxParseScale - inc.scale)

\* Conversions lose nothing: rounding down gives the last increment at or below the
\* number, up the first at or above it, and it overflows only if that one does not fit;
\* a whole number of increments comes back as itself; what is written is what was parsed;
\* and numbers are ordered by value, whatever their scales (fixed.rs:107-116, 431-457).
ConversionsAreExact ==
  Parse(text).err = "" =>
    LET d == Parse(text).value
        v == d.mantissa * 10 ^ (MaxParseScale - d.scale)
    IN  /\ Parse(Written(d)) = Ok(d)
        /\ \A inc \in Increments :
             LET down == ToUnits(inc, d, "Down")
                 up == ToUnits(inc, d, "Up")
                 best == v \div Scaled(inc, 1)
             IN  /\ down = IF Fits(best, I64Max) THEN Ok(best) ELSE Err("Overflow")
                 /\ up.err = "" => Scaled(inc, up.value) >= v /\ Scaled(inc, up.value - 1) < v
                 /\ down.err = "" => ToUnits(inc, FromUnits(inc, down.value), "Exact") = down
                 /\ Below(d, inc) <=> v < Scaled(inc, 1)

=============================================================================
