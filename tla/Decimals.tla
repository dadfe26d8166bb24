-------------------------------- MODULE Decimals --------------------------------
(***************************************************************************)
(* Reading a decimal number into an integer that counts the last place of  *)
(* its field (parse_scaled_decimal in src/common/decimal.cpp), and writing *)
(* it back.  It is the only way that a price or a size enters the system.  *)
(*                                                                         *)
(* A character is a digit, Minus, Point, or Junk for any other.  A step is *)
(* a branch or a turn of a loop, so that every intermediate value of the   *)
(* C++ arithmetic is the value of a variable here.                         *)
(***************************************************************************)
EXTENDS Numerals, Sequences

CONSTANTS
  Minus, Point, Junk,
  NoError,
  Texts,         \* bound: the texts to be read
  Forms,        \* the ways to read one: places, sign, range of what is stored
  kMax           \* the largest std::int64_t

kMaxFractionalDigits == 9

Places == 0 .. kMaxFractionalDigits

Problems ==
  {"Empty", "NegativeNotAllowed", "Overflow", "MissingDigits",
   "TooManyFractionalDigits", "InvalidCharacter"}

ASSUME DecimalsAssumption ==
  /\ \A text \in Texts : text \in Seq((0..9) \cup {Minus, Point, Junk})
  /\ {Minus, Point, Junk} \cap (0..9) = {}
  /\ Minus # Point /\ Minus # Junk /\ Point # Junk
  /\ \A form \in Forms :
       /\ form.fractional_digits \in Places
       /\ form.allow_negative \in BOOLEAN
       /\ form.limit \in 0..kMax
       /\ power_of_ten[form.fractional_digits] <= kMax
  /\ kMax \in Nat
  /\ NoError \notin Problems

VARIABLES
  text,    \* the input
  form,    \* how it is to be read
  reader   \* the local variables, and the outcome

decimal == <<text, form, reader>>

DecimalInit(texts, forms) ==
  /\ text \in texts
  /\ form \in forms
  /\ reader = [phase    |-> "sign",
               index    |-> 1,
               begin    |-> 1,        \* where the run of digits being read begins
               end      |-> 1,        \* where the fraction ends
               negative |-> FALSE,
               value    |-> 0,
               shifts   |-> 0,        \* places that the integer is still to be moved by
               fraction |-> 0,
               error    |-> NoError]

is_digit(character) == character \in 0..9

At(position, character) == position <= Len(text) /\ text[position] = character

DigitAt(position) == position <= Len(text) /\ is_digit(text[position])

\* Whether a digit can be appended without wrapping around: asked before the
\* multiplication, after which there would be nothing to look at.
Fits(number, digit) == number <= (kMax - digit) \div 10

Goes(next) == reader' = next /\ UNCHANGED <<text, form>>

Fail(problem) == Goes([reader EXCEPT !.error = problem, !.phase = "done"])

-----------------------------------------------------------------------------
ReadSign ==
  /\ reader.phase = "sign"
  /\ \/ text = <<>> /\ Fail("Empty")
     \/ At(1, Minus) /\ ~form.allow_negative /\ Fail("NegativeNotAllowed")
     \/ /\ text # <<>>
        /\ At(1, Minus) => form.allow_negative
        /\ LET first == IF At(1, Minus) THEN 2 ELSE 1
           IN  Goes([reader EXCEPT !.negative = At(1, Minus), !.index = first,
                                   !.begin = first, !.phase = "integer"])

ReadInteger ==
  /\ reader.phase = "integer"
  /\ LET i == reader.index
     IN  \/ DigitAt(i) /\ ~Fits(reader.value, text[i]) /\ Fail("Overflow")
         \/ /\ DigitAt(i)
            /\ Fits(reader.value, text[i])
            /\ Goes([reader EXCEPT !.value = @ * 10 + text[i], !.index = i + 1])
         \/ ~DigitAt(i) /\ i = reader.begin /\ Fail("MissingDigits")
         \/ /\ ~DigitAt(i)
            /\ i # reader.begin
            /\ Goes([reader EXCEPT !.phase = "shift", !.shifts = form.fractional_digits])

\* The integer part is moved up by the scale, a place at a time.
Shift ==
  /\ reader.phase = "shift"
  /\ \/ reader.shifts > 0 /\ ~Fits(reader.value, 0) /\ Fail("Overflow")
     \/ /\ reader.shifts > 0
        /\ Fits(reader.value, 0)
        /\ Goes([reader EXCEPT !.value = @ * 10, !.shifts = @ - 1])
     \/ /\ reader.shifts = 0
        /\ Goes([reader EXCEPT !.phase = IF At(reader.index, Point) THEN "measure"
                                         ELSE "rest"])

\* The end of the run of digits that starts at a position.
RunEnd(position) ==
  CHOOSE e \in position .. Len(text) + 1 :
    /\ ~DigitAt(e)
    /\ \A i \in position .. e - 1 : DigitAt(i)

\* The digits of the fraction are counted before any is used.
Measure ==
  /\ reader.phase = "measure"
  /\ LET first == reader.index + 1
         count == RunEnd(first) - first
     IN  \/ count = 0 /\ Fail("MissingDigits")
         \/ count > form.fractional_digits /\ Fail("TooManyFractionalDigits")
         \/ /\ count \in 1 .. form.fractional_digits
            /\ Goes([reader EXCEPT !.begin = first, !.index = first,
                                   !.end = first + count, !.phase = "fraction"])

\* Neither loop nor padding is checked: "digit_count <= fractional_digits <= 9,
\* so this loop cannot overflow" (decimal.cpp:122).  The sum is.
ReadFraction ==
  /\ reader.phase = "fraction"
  /\ LET i == reader.index
         missing == form.fractional_digits - (reader.end - reader.begin)
     IN  \/ /\ i < reader.end
            /\ Goes([reader EXCEPT !.fraction = @ * 10 + text[i], !.index = i + 1])
         \/ /\ i = reader.end
            /\ Goes([reader EXCEPT !.fraction = @ * power_of_ten[missing],
                                   !.phase = "sum"])

\* Faulty: the sum is taken as it comes.
AddFractionUnchecked ==
  /\ reader.phase = "sum"
  /\ Goes([reader EXCEPT !.value = @ + reader.fraction, !.phase = "rest"])

AddFraction ==
  /\ reader.phase = "sum"
  /\ \/ reader.value > kMax - reader.fraction /\ Fail("Overflow")
     \/ /\ reader.value <= kMax - reader.fraction
        /\ Goes([reader EXCEPT !.value = @ + reader.fraction, !.phase = "rest"])

\* Faulty: the int64 is stored without a look at its range.
StorableAlways(number) == TRUE

\* What is stored may be narrower than an int64 (parse_price).
Storable(number) == number <= form.limit

\* Nothing may be left.
ReadRest ==
  /\ reader.phase = "rest"
  /\ LET whole == reader.index = Len(text) + 1
     IN  \/ ~whole /\ Fail("InvalidCharacter")
         \/ whole /\ ~Storable(reader.value) /\ Fail("Overflow")
         \/ /\ whole
            /\ Storable(reader.value)
            /\ Goes([reader EXCEPT !.value = IF reader.negative THEN -@ ELSE @,
                                   !.phase = "done"])

DecimalNext ==
  \/ ReadSign
  \/ ReadInteger
  \/ Shift
  \/ Measure
  \/ ReadFraction
  \/ AddFraction
  \/ ReadRest

DecimalSpec == DecimalInit(Texts, Forms) /\ [][DecimalNext]_decimal

-----------------------------------------------------------------------------
(***************************************************************************)
(* format_scaled_decimal.                                                  *)
(***************************************************************************)
Magnitude(units) == IF units < 0 THEN -units ELSE units

\* As many digits as it takes, and at least one.
Width(number) ==
  CHOOSE w \in 1 .. number + 1 :
    /\ number < power_of_ten[w]
    /\ \A v \in 1 .. w - 1 : number >= power_of_ten[v]

\* Faulty: the fraction is not padded to its places.
format_scaled_decimalUnpadded(units, places) ==
  LET magnitude == Magnitude(units)
      whole     == magnitude \div power_of_ten[places]
      part      == magnitude % power_of_ten[places]
  IN  (IF units < 0 THEN <<Minus>> ELSE <<>>)
        \o Numeral(whole, Width(whole))
        \o (IF places = 0 THEN <<>> ELSE <<Point>> \o Numeral(part, Width(part)))

format_scaled_decimal(units, places) ==
  LET magnitude == Magnitude(units)
      whole     == magnitude \div power_of_ten[places]
  IN  (IF units < 0 THEN <<Minus>> ELSE <<>>)
        \o Numeral(whole, Width(whole))
        \o (IF places = 0 THEN <<>> ELSE <<Point>> \o Numeral(magnitude, places))

-----------------------------------------------------------------------------
(***************************************************************************)
(* What a text says, read off the text as a whole: a sign, the position of *)
(* its point if it has one, and each digit in its place.                   *)
(***************************************************************************)
SumOf(terms) ==
  LET sum[i \in 0..Len(terms)] == IF i = 0 THEN 0 ELSE sum[i - 1] + terms[i]
  IN  sum[Len(terms)]

NumberOf(digits) ==
  SumOf([i \in 1..Len(digits) |-> digits[i] * power_of_ten[Len(digits) - i]])

\* The unsigned texts of a field: at least a digit, then perhaps a point with as
\* many digits as it has places, or fewer.
Split(digits, point) ==
  [integer  |-> SubSeq(digits, 1, point - 1),
   fraction |-> SubSeq(digits, point + 1, Len(digits))]

Splits(unsigned, places) ==
  {split \in {Split(unsigned, point) : point \in 1 .. Len(unsigned) + 1} :
     /\ split.integer # <<>>
     /\ \A i \in DOMAIN split.integer : is_digit(split.integer[i])
     /\ \A i \in DOMAIN split.fraction : is_digit(split.fraction[i])
     /\ IF split.integer = unsigned THEN split.fraction = <<>>
        ELSE /\ unsigned[Len(split.integer) + 1] = Point
             /\ Len(split.fraction) \in 1..places}

Signed(characters) == characters # <<>> /\ Head(characters) = Minus

SplitsOf(characters) ==
  Splits(IF Signed(characters) THEN Tail(characters) ELSE characters,
         form.fractional_digits)

Says(split) ==
  NumberOf(split.integer) * power_of_ten[form.fractional_digits]
    + NumberOf(split.fraction)
        * power_of_ten[form.fractional_digits - Len(split.fraction)]

\* The number that a text says is the one read, never one rounded to the field;
\* it is refused as an overflow exactly when it does not fit, and anything that
\* is not a number of the field is refused (decimal.cpp:63-143,
\* decimal.hpp:24-28).
ReadsWhatItSays ==
  reader.phase = "done" =>
    LET splits == IF Signed(text) /\ ~form.allow_negative THEN {} ELSE SplitsOf(text)
    IN  IF splits = {} THEN reader.error # NoError
        ELSE \E split \in splits :
               IF Says(split) > form.limit THEN reader.error = "Overflow"
               ELSE /\ reader.error = NoError
                    /\ reader.value = IF Signed(text) THEN -Says(split) ELSE Says(split)

\* No step computes a number that an int64 cannot hold, which would be undefined
\* behaviour (decimal.cpp:29-33, 122), whatever the text.
NothingWraps ==
  /\ reader.value \in -kMax .. kMax
  /\ reader.fraction \in 0..kMax

\* All places written, no digit in front that could be left out, and no sign on a
\* zero.
Canonical(characters) ==
  \E split \in SplitsOf(characters) :
    /\ Len(split.fraction) = form.fractional_digits
    /\ Len(split.integer) > 1 => split.integer[1] # 0
    /\ Signed(characters) => Says(split) # 0

\* "format(parse(text)) == text for any text already in canonical form"
\* (decimal.hpp:43-46), and what is formatted is always canonical, of the sign
\* and the size of the number: no two numbers are written alike.
FormatIsInverse ==
  reader.phase = "done" /\ reader.error = NoError =>
    LET written == format_scaled_decimal(reader.value, form.fractional_digits)
    IN  /\ Canonical(text) => written = text
        /\ Canonical(written)
        /\ Signed(written) <=> reader.value < 0
        /\ \E split \in SplitsOf(written) : Says(split) = Magnitude(reader.value)
=============================================================================
