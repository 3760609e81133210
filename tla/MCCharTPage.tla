----------------------------- MODULE MCCharTPage -----------------------------
(* The charT string page for TLC: three conversions with a saved history   *)
(* and an import of it; and one import of every file of three pieces.      *)
(* The codecs are small ones with every kind of result: symbols that only  *)
(* one of them reads, text of separators, and errors.                      *)
EXTENDS CharTPage

Errors(text, bad) == Cardinality({k \in DOMAIN text : text[k] \in bad})

\* A symbol is a line, and "bad" is no character.
Lines(text, codec) ==
  Concat([k \in DOMAIN text |->
    IF text[k] = "bad" THEN <<>> ELSE IF k = 1 THEN <<codec>> ELSE <<Lf, codec>>])

\* "8", "C" and "2" are read by charT_u8, charTC_u8 and both; "crc" is a damaged
\* symbol of charTC_u8, and charT_u8 does not read it.
Meaning == [c \in {"8", "C", "2", "crc"} |->
  CASE c = "8" -> "a" [] c = "C" -> Quote [] c = "2" -> Semicolon [] OTHER -> Lf]
Symbols(code, set) ==
  LET own == SelectSeq(code, LAMBDA c : c \in set)
  IN  [k \in DOMAIN own |-> Meaning[own[k]]]

Encode8(text) == [text |-> Lines(text, "8"), errors |-> Errors(text, {"bad"}), crcOnly |-> FALSE]
EncodeC(text) == [text |-> Lines(text, "C"), errors |-> Errors(text, {"bad"}), crcOnly |-> FALSE]
Decode8(code) ==
  [text |-> Symbols(code, {"8", "2"}) \o (IF Len(code) = 2 THEN <<Cr>> ELSE <<>>),
   errors |-> Errors(code, {"C", "crc"}), crcOnly |-> FALSE]
DecodeC(code) ==
  [text |-> Symbols(code, {"C", "2", "crc"}),
   errors |-> Errors(code, {"8", "crc"}), crcOnly |-> Errors(code, {"8"}) = 0]

Saving ==
  [texts |-> {<<"a">>, <<Quote>>, <<Quote, Semicolon, Lf>>, <<Cr, Quote, Quote>>, <<Cr, Lf>>, <<"a", "bad">>, <<Space>>},
   codes |-> {<<"8">>, <<"C">>, <<"2">>, <<"crc">>, <<"8", "8">>, <<"8", Lf, "C">>, <<Lf>>},
   files |-> {}, edits |-> 3, imports |-> 1]

Row(input, encoding) ==
  <<input, Semicolon, Semicolon, Semicolon, Space, encoding, Semicolon, Semicolon, Cr, Lf>>
Pieces ==
  {Row("a", "UTF-8"), Row("8", "ternary"), Row("8", "charT_u8"), Row("C", "charTC_u8"), Row("bad", "UTF-8"),
   Row("a", "utf"), <<Quote>>, <<Lf>>, <<"a", Semicolon>>, <<Quote, Lf, Quote>>}
ByHand(head) == {[csv |-> head \o a \o b \o c, saved |-> <<>>] : a, b, c \in Pieces}

Files == ByHand(<<Lf, Space, Header, Cr, Lf>>) \cup ByHand(<<>>) \cup {[csv |-> <<Lf>>, saved |-> <<>>]}

Importing ==
  [texts |-> {<<"a">>}, codes |-> {<<"C">>}, files |-> Files, edits |-> 0, imports |-> 1]

Overlapping ==
  [texts |-> {<<"a">>, <<Quote>>}, codes |-> {<<"C">>},
   files |-> {[csv |-> <<Header, Lf>> \o Row("a", "utf"), saved |-> <<>>]}, edits |-> 2, imports |-> 2]

AllTrials == {Saving, Importing, Overlapping}
=============================================================================
