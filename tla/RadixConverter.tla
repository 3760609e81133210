--------------------------- MODULE RadixConverter ---------------------------
(***************************************************************************)
(* The conversion of a text of digits from one radix to another            *)
(* (TernaryWorkbench.Core). A text is a sequence of characters, and a      *)
(* character is a number:                                                  *)
(*                                                                         *)
(*    0..9  "0" to "9"      10..35  "A" to "Z"      36..61  "a" to "z"     *)
(*    62    "+"             63      "/"             64      "-"            *)
(*    65    any other character, which is a digit nowhere                  *)
(*                                                                         *)
(* An operation that throws has the result Thrown.                         *)
(***************************************************************************)
EXTENDS Integers, Sequences, SequencesExt

CONSTANT
  ExactLog  \* BigInteger.Log is a double: up to this many bits it is exact
            \* enough to count them (48 in .NET)

ASSUME ExactLogAssumption == ExactLog \in Nat

Plus == 62
Minus == 64
Foreign == 65
Characters == 0..65

Unsigned == {"Base2Unsigned", "Base8Unsigned", "Base16Unsigned", "Base64Rfc4648",
             "Base3Unbalanced", "Base9Unbalanced", "Base27Unbalanced"}
Radices == Unsigned \cup {"Base2Signed1C", "Base2Signed2C", "Base3Signed2C", "Base3Signed3C",
                          "Base3Balanced", "Base3BsdPnx", "Base10"}

Base(radix) ==
  CASE radix \in {"Base2Unsigned", "Base2Signed1C", "Base2Signed2C"} -> 2
    [] radix = "Base8Unsigned" -> 8     [] radix = "Base16Unsigned" -> 16
    [] radix = "Base64Rfc4648" -> 64    [] radix = "Base9Unbalanced" -> 9
    [] radix = "Base27Unbalanced" -> 27 [] radix = "Base10" -> 10
    [] OTHER -> 3

(* Radix.FixedLengthOptions                                                *)
FixedLengthOptions(radix) ==
  CASE radix \in {"Base2Unsigned", "Base2Signed1C", "Base2Signed2C"} -> {8, 16, 32, 64, 128}
    [] radix \in {"Base3Unbalanced", "Base3Signed2C", "Base3Signed3C", "Base3Balanced",
                  "Base3BsdPnx"} -> {3, 6, 9, 12, 24, 27, 32, 48, 81}
    [] OTHER -> {}

-----------------------------------------------------------------------------
(* Digits and their weights, most significant first.                       *)

(* BigInteger.Pow                                                          *)
Power(base, n) ==
  LET power[k \in 0..n] == IF k = 0 THEN 1 ELSE power[k - 1] * base
  IN  power[n]

NoDigit == 99

ValueOf64(c) == IF c <= 9 THEN c + 52 ELSE IF c <= 61 THEN c - 10 ELSE IF c <= 63 THEN c ELSE NoDigit
ValueOfHex(c) == IF c <= 15 THEN c ELSE IF c \in 36..41 THEN c - 26 ELSE NoDigit

ValueOfDigit(c, radix) ==
  LET value == CASE radix = "Base64Rfc4648" -> ValueOf64(c)
                 [] radix = "Base16Unsigned" -> ValueOfHex(c)
                 [] OTHER -> c
  IN  IF value < Base(radix) THEN value ELSE NoDigit

CharOfDigit(d, radix) ==
  IF radix # "Base64Rfc4648" THEN d ELSE CHOOSE c \in 0..63 : ValueOf64(c) = d

Weigh(digits, base) ==
  LET value[k \in 0..Len(digits)] == IF k = 0 THEN 0 ELSE value[k - 1] * base + digits[k]
  IN  value[Len(digits)]

Expand(value, base) ==
  LET digits[v \in Nat] == IF v = 0 THEN <<>> ELSE Append(digits[v \div base], v % base)
  IN  IF value = 0 THEN <<0>> ELSE digits[value]

Flip(digits, base) == [k \in DOMAIN digits |-> base - 1 - digits[k]]

PadLeft(text, length, c) == [k \in 1..length - Len(text) |-> c] \o text

-----------------------------------------------------------------------------
(* Parse, of a text for which it throws no FormatException.                *)

HasDigits(text, radix) ==
  text # <<>> /\ \A k \in DOMAIN text : ValueOfDigit(text[k], radix) # NoDigit

Pairs(text) == [k \in 1..Len(text) \div 2 |-> SubSeq(text, 2 * k - 1, 2 * k)]

Unsign(text) == IF text # <<>> /\ text[1] \in {Plus, Minus} THEN Tail(text) ELSE text

Parses(text, radix) ==
  CASE radix = "Base3Signed2C" -> HasDigits(text, radix) /\ text[1] # 1
    [] radix = "Base3Balanced" -> text # <<>> /\ \A k \in DOMAIN text : text[k] \in {Minus, 0, Plus}
    [] radix = "Base3BsdPnx" ->
         /\ text # <<>> /\ Len(text) % 2 = 0
         /\ \A k \in DOMAIN Pairs(text) : Pairs(text)[k] \in {<<1, 0>>, <<0, 1>>, <<1, 1>>}
    [] radix = "Base10" -> HasDigits(Unsign(text), radix)
    [] OTHER -> HasDigits(text, radix)

(* The first digit is the sign, the others are complemented if it is set.  *)
ParseComplement(text, base) ==
  IF text[1] = 0 THEN Weigh(Tail(text), base) ELSE -Weigh(Flip(Tail(text), base), base)

TritOf(c) == CASE c = Plus -> 1 [] c = Minus -> -1 [] OTHER -> 0

Parse(text, radix) ==
  LET rest == Tail(text)
  IN  CASE radix \in Unsigned ->
             Weigh([k \in DOMAIN text |-> ValueOfDigit(text[k], radix)], Base(radix))
        [] radix = "Base2Signed1C" -> ParseComplement(text, 2)
        [] radix = "Base2Signed2C" ->
             IF text[1] = 0 THEN Weigh(rest, 2) ELSE Weigh(text, 2) - Power(2, Len(text))
        [] radix = "Base3Signed2C" -> ParseComplement(text, 3)
        [] radix = "Base3Signed3C" -> Weigh(rest, 3) - text[1] * Power(3, Len(rest))
        [] radix = "Base3Balanced" -> Weigh([k \in DOMAIN text |-> TritOf(text[k])], 3)
        [] radix = "Base3BsdPnx" ->
             Weigh([k \in DOMAIN Pairs(text) |-> Pairs(text)[k][1] - Pairs(text)[k][2]], 3)
        [] radix = "Base10" ->
             (IF text[1] = Minus THEN -1 ELSE 1) * Weigh(Unsign(text), 10)

-----------------------------------------------------------------------------
(* Format. OverflowException is Thrown.                                    *)

Thrown == <<-1>>

Magnitude(value) == IF value < 0 THEN -value ELSE value

BitLength(value) == Len(Expand(value, 2))

(* (int) BigInteger.Log(value, 2) + 1: one bit too many just below a power *)
(* of two that is too large for a double to tell them apart.               *)
LogLength(value) ==
  LET bits == BitLength(value)
  IN  IF bits >= ExactLog /\ Power(2, bits) - value <= Power(2, bits - ExactLog) THEN bits + 1 ELSE bits

FormatTwosComplement(value) ==
  IF value = 0 THEN <<0>>
  ELSE LET length == LogLength(Magnitude(value))
       IN  IF value > 0 THEN <<0>> \o PadLeft(Expand(value, 2), length, 0)
           ELSE <<1>> \o PadLeft(Expand(value + Power(2, length), 2), length, 0)

(* Binary 1's and ternary 2's complement.                                  *)
FormatComplement(value, base) ==
  IF value = 0 THEN <<0>>
  ELSE IF value > 0 THEN <<0>> \o Expand(value, base)
       ELSE <<base - 1>> \o Flip(Expand(-value, base), base)

(* A negative number is 1 and what it is above -3^length.                  *)
Ternary3C(value, length) ==
  IF value >= 0 THEN <<0>> \o PadLeft(Expand(value, 3), length, 0)
  ELSE <<1>> \o (IF length = 0 THEN <<>> ELSE PadLeft(Expand(value + Power(3, length), 3), length, 0))

FormatTernary3C(value) ==
  LET length[k \in Nat] == IF Power(3, k) >= -value THEN k ELSE length[k + 1]
  IN  IF value = 0 THEN <<0>>
      ELSE IF value > 0 THEN <<0>> \o Expand(value, 3)
           ELSE Ternary3C(value, length[0])

FormatBalancedTernary(value) ==
  LET trits[v \in Int] ==
        IF v = 0 THEN <<>>
        ELSE CASE v % 3 = 0 -> Append(trits[v \div 3], 0)
               [] v % 3 = 1 -> Append(trits[(v - 1) \div 3], Plus)
               [] v % 3 = 2 -> Append(trits[(v + 1) \div 3], Minus)
  IN  IF value = 0 THEN <<0>> ELSE trits[value]

(* A trit in two bits: 10 is +, 01 is -, 11 is 0.                          *)
BitsOf(trits) ==
  [j \in 1..2 * Len(trits) |->
     LET trit == trits[(j + 1) \div 2]
     IN  IF trit = (IF j % 2 = 1 THEN Minus ELSE Plus) THEN 0 ELSE 1]

Formatted(value, radix) ==
  CASE radix \in Unsigned ->
         IF value < 0 THEN Thrown
         ELSE LET digits == Expand(value, Base(radix))
              IN  [k \in DOMAIN digits |-> CharOfDigit(digits[k], radix)]
    [] radix = "Base2Signed1C" -> FormatComplement(value, 2)
    [] radix = "Base2Signed2C" -> FormatTwosComplement(value)
    [] radix = "Base3Signed2C" -> FormatComplement(value, 3)
    [] radix = "Base3Signed3C" -> FormatTernary3C(value)
    [] radix = "Base3Balanced" -> FormatBalancedTernary(value)
    [] radix = "Base3BsdPnx" -> BitsOf(FormatBalancedTernary(value))
    [] radix = "Base10" ->
         IF value < 0 THEN <<Minus>> \o Expand(-value, 10) ELSE Expand(value, 10)

(* Mutant of DigitCount: the two bits of a trit are counted as two digits. *)
CountsBits(text, radix) == Len(text)

DigitCount(text, radix) == IF radix = "Base3BsdPnx" THEN Len(text) \div 2 ELSE Len(text)

(* Mutant of ApplyFixedOutputLength: a sign is not extended.               *)
PadWithZeros(text, value, radix, length) ==
  IF DigitCount(text, radix) > length THEN Thrown
  ELSE IF radix = "Base3BsdPnx" THEN PadLeft(text, 2 * length, 1)
  ELSE PadLeft(text, length, 0)

(* A length of 0 is none. Ternary 3's complement is formatted again, since *)
(* its sign trit has a weight; any other text is padded with its sign or   *)
(* with "0", whatever the radix.                                           *)
ApplyFixedOutputLength(text, value, radix, length) ==
  CASE length = 0 \/ DigitCount(text, radix) = length -> text
    [] length > 0 /\ DigitCount(text, radix) > length -> Thrown
    [] OTHER ->
         CASE radix = "Base3BsdPnx" -> PadLeft(text, 2 * length, 1)
           [] radix = "Base3Signed3C" -> Ternary3C(value, length - 1)
           [] radix \in {"Base2Signed1C", "Base2Signed2C", "Base3Signed2C"} ->
                PadLeft(text, length, text[1])
           [] OTHER -> PadLeft(text, length, 0)

ReversePairs(text) ==
  [j \in DOMAIN text |-> text[IF j % 2 = 1 THEN Len(text) - j ELSE Len(text) - j + 2]]

(* A minus of a decimal number stays in front.                             *)
LsdFirst(text, radix) ==
  CASE radix = "Base3BsdPnx" -> ReversePairs(text)
    [] radix = "Base10" /\ text[1] = Minus -> <<Minus>> \o Reverse(Tail(text))
    [] OTHER -> Reverse(text)

(* OutputOptions: lsdFirst, input (the fixed input length) and output (the *)
(* fixed output length); a length of 0 is none. Only the command line asks *)
(* for BctEncoding, which is not in this model.                            *)
Format(value, radix, options) ==
  LET text == Formatted(value, radix)
      fixed == IF text = Thrown THEN Thrown
               ELSE ApplyFixedOutputLength(text, value, radix, options.output)
  IN  IF fixed = Thrown \/ ~options.lsdFirst THEN fixed ELSE LsdFirst(fixed, radix)

(* The text has been trimmed; of an empty one there is nothing to convert. *)
Convert(text, from, to, options) ==
  IF text = <<>> THEN <<>>
  ELSE IF \/ options.input > 0 /\ DigitCount(text, from) > options.input
          \/ ~Parses(text, from)
  THEN Thrown
  ELSE Format(Parse(text, from), to, options)
=============================================================================
