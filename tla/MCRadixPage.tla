----------------------------- MODULE MCRadixPage -----------------------------
(* The radix page for TLC: every pair of radices, fixed length and digit   *)
(* order for one conversion of many inputs; and three conversions, a saved *)
(* history and two imports, with a few of them. A double is scaled down to *)
(* ExactLog bits, so that words of 8 bits show what words of 64 bits do.   *)
EXTENDS RadixPage

Decimal(v) ==
  [text |-> IF v < 0 THEN <<Minus>> \o Expand(-v, 10) ELSE Expand(v, 10), gap |-> "none"]
Typed(text) == [text |-> text, gap |-> "none"]

Values == (-5..5) \cup {-365, -364, -244, -243, -242, -129, -128, -127, -126, -14, -13, -9, -8,
                        8, 9, 13, 14, 125, 126, 127, 128, 242, 243, 255, 256, 364, 365}
Texts == {<<1, 0, 1, 0>>, <<1, 1, 1, 0, 1>>, <<2, 0, 1>>, <<Plus, Minus, 0>>, <<Minus, Minus>>,
          <<10, 15>>, <<36>>, <<26, 3>>, <<0, 0, 7>>, <<Foreign>>}

Conversions ==
  [inputs |-> {Decimal(v) : v \in Values} \cup {Typed(t) : t \in Texts},
   radices |-> Radices, lengths |-> {3, 6, 8}, orders |-> BOOLEAN, edits |-> 1, imports |-> 0,
   files |-> {}]

Row(text, from, to, length) ==
  [kind |-> "row", text |-> text, from |-> from, to |-> to, lsdFirst |-> FALSE, length |-> length]
ByHand ==
  [saved |-> <<>>,
   rows |-> <<Row(<<7>>, "Base10", "Base3Balanced", 8), Broken, Row(<<Minus, 7>>, "Base10", "Base10", 4),
              Row(<<>>, "Base10", "Base10", 0), Row(<<9>>, "Base10", "Base2Signed2C", 3)>>]

Imports ==
  [inputs |-> {Decimal(-5), [text |-> <<1, 1>>, gap |-> "space"], [text |-> <<1, 0>>, gap |-> "newline"]},
   radices |-> {"Base10", "Base3Balanced", "Base3Signed3C"}, lengths |-> {6}, orders |-> BOOLEAN,
   edits |-> 2, imports |-> 2, files |-> {ByHand}]

AllTrials == {Conversions, Imports}
=============================================================================
