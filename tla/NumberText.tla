----------------------------- MODULE NumberText ------------------------------
(***************************************************************************)
(* Numbers as text (base/LogStream.cc): convert and convertHex, which      *)
(* build the digits of an integer backwards, and formatSI and formatIEC,   *)
(* which round a number to three digits and a unit.  A character is its    *)
(* distance from '0', so a digit is itself.                                *)
(***************************************************************************)
EXTENDS Integers, Sequences, SequencesExt

CONSTANTS
  FirstValues, MaxSteps, \* a walk begins at a value of FirstValues and takes MaxSteps steps
  Bits                   \* the width of the integers that convert is given

Rem(a, b) == IF a >= 0 THEN a % b ELSE -((-a) % b)

Quot(a, b) == IF a >= 0 THEN a \div b ELSE -((-a) \div b)

(* zero[lsd]: the digits are laid out so that a negative index works. *)
Zero(lsd) == IF lsd < 0 THEN -lsd ELSE lsd

Minus == -3

RECURSIVE ConvertLoop(_, _, _)
ConvertLoop(i, base, digits) ==
  LET p == Append(digits, Zero(Rem(i, base)))
  IN  IF Quot(i, base) = 0 THEN p ELSE ConvertLoop(Quot(i, base), base, p)

(* Faulty: the digits are those of -value, which overflows at the minimum. *)
Convert_Negate(value) ==
  LET negated == IF value < 0 /\ value # -(2 ^ (Bits - 1)) THEN -value ELSE value
      p       == IF negated < 0 THEN <<0>> ELSE ConvertLoop(negated, 10, <<>>)
  IN  Reverse(IF value < 0 THEN Append(p, Minus) ELSE p)

Convert(value) ==
  LET p == ConvertLoop(value, 10, <<>>)
  IN  Reverse(IF value < 0 THEN Append(p, Minus) ELSE p)

ConvertHex(value) == Reverse(ConvertLoop(value, 16, <<>>))

-----------------------------------------------------------------------------
(* printf of number * 10^decimals / unit, as an integer.  Which way a tie is *)
(* rounded depends on the double that stands for the quotient.               *)
Rounded(number, scale, unit) ==
  LET q == (number * scale) \div unit
      r == (number * scale) % unit
  IN  CASE 2 * r < unit -> {q} [] 2 * r > unit -> {q + 1} [] 2 * r = unit -> {q, q + 1}

(* A row of the chain of ifs: numbers below limit are printed as a multiple *)
(* of unit with some decimals and a suffix of some characters.  mul and div *)
(* are 10^decimals and unit without their common factor.                    *)
Row(limit, mul, div, decimals, suffix) ==
  [limit |-> limit, mul |-> mul, div |-> div, decimals |-> decimals, suffix |-> suffix]

(* The rows of formatSI and formatIEC whose limits fit in 31 bits; the limits *)
(* of formatIEC are the first integers that are not less than the doubles.    *)
FormatSI_Late ==
  <<Row(1000, 1, 1, 0, 0), Row(10000, 1, 10, 2, 1)>>
    \o <<Row(99950, 1, 100, 1, 1), Row(999500, 1, 1000, 0, 1), Row(9995000, 1, 10000, 2, 1),
         Row(99950000, 1, 100000, 1, 1), Row(999500000, 1, 1000000, 0, 1)>>

FormatSI ==
  <<Row(1000, 1, 1, 0, 0), Row(9995, 1, 10, 2, 1), Row(99950, 1, 100, 1, 1),
    Row(999500, 1, 1000, 0, 1), Row(9995000, 1, 10000, 2, 1), Row(99950000, 1, 100000, 1, 1),
    Row(999500000, 1, 1000000, 0, 1)>>

FormatIEC ==
  <<Row(1024, 1, 1, 0, 0), Row(10235, 25, 256, 2, 2), Row(102349, 5, 512, 1, 2),
    Row(1048064, 1, 1024, 0, 2), Row(10480518, 25, 262144, 2, 2), Row(104805172, 5, 524288, 1, 2),
    Row(1073217536, 1, 1048576, 0, 2)>>

(* The texts a number can have in a format: the rounded number and the row. *)
Texts(format, number) ==
  LET row == format[CHOOSE k \in DOMAIN format :
               number < format[k].limit /\ \A m \in 1 .. k - 1 : number >= format[m].limit]
  IN  {[shown |-> n, row |-> row] : n \in Rounded(number, row.mul, row.div)}

Characters(text) ==
  LET d == text.row.decimals
  IN  Len(Convert(text.shown \div 10 ^ d)) + (IF d = 0 THEN 0 ELSE d + 1) + text.row.suffix

-----------------------------------------------------------------------------
VARIABLES value, steps

vars == <<value, steps>>

Init ==
  /\ value \in FirstValues
  /\ steps = 0

Next ==
  /\ steps < MaxSteps
  /\ value' = value + 1
  /\ steps' = steps + 1

(* The number that digits stand for. *)
Denotes(digits, base) == FoldLeft(LAMBDA acc, d : acc * base + d, 0, digits)

InRange == value \in -(2 ^ (Bits - 1)) .. 2 ^ (Bits - 1) - 1

(* convert writes a text that stands for its argument, without a leading     *)
(* zero, for every integer of the width, the smallest one and zero included; *)
(* so does convertHex for the unsigned ones.                                 *)
TextReadsBack ==
  InRange =>
    LET text   == Convert(value)
        digits == IF value < 0 THEN Tail(text) ELSE text
    IN  /\ value < 0 <=> text[1] = Minus
        /\ Denotes(digits, 10) = IF value < 0 THEN -value ELSE value
        /\ Len(digits) > 1 => digits[1] # 0
        /\ value >= 0 => Denotes(ConvertHex(value), 16) = value

(* "Format a number with 5 characters, including SI units" (LogStream.cc:97) *)
(* and the ranges of the comment on formatIEC: rounding never adds a digit   *)
(* at the end of a row (9995 is 10.0k, not 10.00k), and a number of at least *)
(* a thousand is shown with at least three digits.                           *)
FiveCharacters ==
  value >= 0 =>
    /\ \A text \in Texts(FormatSI, value) :
         Characters(text) <= 5 /\ (value >= 1000 => text.shown >= 100)
    /\ \A text \in Texts(FormatIEC, value) :
         Characters(text) <= 6 /\ (value >= 1024 => text.shown >= 100)

==============================================================================
