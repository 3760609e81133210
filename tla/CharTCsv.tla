------------------------------ MODULE CharTCsv ------------------------------
(***************************************************************************)
(* The file of the charT string page: CharTStringCsvSerializer, character  *)
(* by character. A text is a sequence of tokens: separators, quotation     *)
(* marks, line feeds, carriage returns, spaces, and other tokens, each of  *)
(* which is a run of characters that mean nothing here (a letter, the name *)
(* of an encoding, the header).                                            *)
(***************************************************************************)
EXTENDS Integers, Sequences, SequencesExt

Semicolon == ";"
Quote == "quote"
Lf == "lf"
Cr == "cr"
Space == " "
Header == "header"

Occurs(token, text) == \E k \in DOMAIN text : text[k] = token

IsBlank(text) == \A k \in DOMAIN text : text[k] \in {Space, Lf, Cr}

TextTrim(text) ==
  LET inside == {k \in DOMAIN text : text[k] \notin {Space, Lf, Cr}}
  IN  IF inside = {} THEN <<>> ELSE SubSeq(text, Min(inside), Max(inside))

Concat(texts) ==
  LET upTo[k \in 0..Len(texts)] == IF k = 0 THEN <<>> ELSE upTo[k - 1] \o texts[k]
  IN  upTo[Len(texts)]

-----------------------------------------------------------------------------
(* Serialize.                                                              *)

Doubled(field) ==
  Concat([k \in DOMAIN field |-> IF field[k] = Quote THEN <<Quote, Quote>> ELSE <<field[k]>>])

(* Mutant of EscapeField: quotation marks inside are not doubled.          *)
WrapField(field) ==
  IF Occurs(Semicolon, field) \/ Occurs(Quote, field) \/ Occurs(Lf, field)
  THEN <<Quote>> \o field \o <<Quote>>
  ELSE field

(* A carriage return alone is no reason for quotes.                        *)
EscapeField(field) ==
  IF Occurs(Semicolon, field) \/ Occurs(Quote, field) \/ Occurs(Lf, field)
  THEN <<Quote>> \o Doubled(field) \o <<Quote>>
  ELSE field

RowOf(record) ==
  EscapeField(record.input) \o <<Semicolon>> \o EscapeField(record.output1) \o <<Semicolon>>
    \o EscapeField(record.output2)
    \o <<Semicolon, record.inputEncoding, Semicolon, record.encoding1, Semicolon, record.encoding2, Lf>>

Serialize(records) ==
  <<Header, Lf>> \o Concat([k \in DOMAIN records |-> RowOf(records[k])])

-----------------------------------------------------------------------------
(* Deserialize.                                                            *)

(* CR LF and a CR alone become LF.                                         *)
Normalise(text) ==
  Concat([k \in DOMAIN text |->
    IF text[k] # Cr THEN <<text[k]>>
    ELSE IF k < Len(text) /\ text[k + 1] = Lf THEN <<>> ELSE <<Lf>>])

(* The quotation mark at k is the first of two inside a quoted field.      *)
IsEscaped(text, k, inQuotes) ==
  inQuotes /\ text[k] = Quote /\ k < Len(text) /\ text[k + 1] = Quote

(* Mutant of LinesOf: a line feed inside quotes does not count.             *)
OnlyRecords(token, inQuotes) == IF token = Lf /\ ~inQuotes THEN 1 ELSE 0

LinesOf(token, inQuotes) == IF token = Lf THEN 1 ELSE 0

(* The scan of ReadRecords: the records so far, each with the number of    *)
(* its first line. "skip" is of the second of two marks.                   *)
ScanStart ==
  [records |-> <<>>, text |-> <<>>, inQuotes |-> FALSE, skip |-> FALSE, start |-> 1, line |-> 1]

(* Token k, in state s.                                                    *)
ScanToken(text, k, s) ==
  LET token == text[k]
      line == s.line + LinesOf(token, s.inQuotes)
      more == [s EXCEPT !.text = Append(@, token), !.line = line]
  IN  IF s.skip THEN [more EXCEPT !.skip = FALSE]
      ELSE IF IsEscaped(text, k, s.inQuotes) THEN [more EXCEPT !.skip = TRUE]
      ELSE IF token = Quote THEN [more EXCEPT !.inQuotes = ~@]
      ELSE IF token = Lf /\ ~s.inQuotes
      THEN [s EXCEPT !.records = Append(@, [text |-> s.text, line |-> s.start]),
                     !.text = <<>>, !.line = line, !.start = line]
      ELSE more

Scan(text) ==
  LET scan[k \in 0..Len(text)] == IF k = 0 THEN ScanStart ELSE ScanToken(text, k, scan[k - 1])
  IN  scan[Len(text)]

ReadRecords(text) ==
  LET end == Scan(text)
  IN  IF end.text = <<>> THEN end.records
      ELSE Append(end.records, [text |-> end.text, line |-> end.start])

(* Quotation marks that open or close a field are dropped, and of two      *)
(* inside one the second is.                                               *)
SplitStart == [fields |-> <<>>, text |-> <<>>, inQuotes |-> FALSE, skip |-> FALSE]

SplitToken(record, k, s) ==
  LET token == record[k]
  IN  IF s.skip THEN [s EXCEPT !.skip = FALSE]
      ELSE IF IsEscaped(record, k, s.inQuotes)
      THEN [s EXCEPT !.text = Append(@, Quote), !.skip = TRUE]
      ELSE IF token = Quote THEN [s EXCEPT !.inQuotes = ~@]
      ELSE IF token = Semicolon /\ ~s.inQuotes
      THEN [s EXCEPT !.fields = Append(@, s.text), !.text = <<>>]
      ELSE [s EXCEPT !.text = Append(@, token)]

SplitRecordFields(record) ==
  LET split[k \in 0..Len(record)] == IF k = 0 THEN SplitStart ELSE SplitToken(record, k, split[k - 1])
      end == split[Len(record)]
  IN  Append(end.fields, end.text)

ValidInputEncodings == {"UTF-8", "ternary", "charT_u8", "charTC_u8"}

FirstLine(text) ==
  LET breaks == {k \in DOMAIN text : text[k] = Lf}
  IN  IF breaks = {} THEN text ELSE SubSeq(text, 1, Min(breaks) - 1)

(* The items at these places, in order.                                    *)
Picked(items, places) ==
  LET upTo[k \in 0..Len(items)] ==
        IF k = 0 THEN <<>>
        ELSE IF k \in places THEN Append(upTo[k - 1], items[k])
        ELSE upTo[k - 1]
  IN  upTo[Len(items)]

IsRow(text) ==
  LET fields == SplitRecordFields(text)
  IN  Len(fields) = 6 /\ \E e \in ValidInputEncodings : TextTrim(fields[4]) = <<e>>

ParsedRow(text) ==
  LET fields == SplitRecordFields(text)
  IN  [input |-> fields[1], inputEncoding |-> TextTrim(fields[4])[1]]

(* The rows that parse and the errors, in order. A file without its header *)
(* is one error; a row that fails stops no other.                          *)
Deserialize(csv) ==
  LET all == ReadRecords(Normalise(csv))
      records == Picked(all, {k \in DOMAIN all : ~IsBlank(all[k].text)})
      rows == Tail(records)
      good == {k \in DOMAIN rows : IsRow(rows[k].text)}
      valid == Picked(rows, good)
  IN  IF records = <<>> THEN [validRows |-> <<>>, errors |-> <<>>]
      ELSE IF TextTrim(FirstLine(records[1].text)) # <<Header>>
      THEN [validRows |-> <<>>, errors |-> <<records[1]>>]
      ELSE [validRows |-> [k \in DOMAIN valid |-> ParsedRow(valid[k].text)],
            errors |-> Picked(rows, DOMAIN rows \ good)]
=============================================================================
