----------------------------- MODULE CharTPage -----------------------------
(***************************************************************************)
(* The page of the charT string converter: a text is encoded with both     *)
(* codecs, or decoded with both; the history can be saved as a file, and a *)
(* file can be imported, which runs its conversions again. The import is   *)
(* awaited, so anything may be done to the page before it goes on. The     *)
(* codecs are CharT's subject: here they are parameters.                   *)
(***************************************************************************)
EXTENDS CharTCsv, FiniteSets

CONSTANTS
  EncodeU8(_), EncodeUc(_),  \* a text to its code and the number of its errors
  DecodeU8(_), DecodeUc(_),  \* a code to its text and its errors; errors that
                             \* are of a checksum only are warnings
  Trials  \* what is tried together: texts, codes, files to import, and the bounds
          \* edits (conversions) and imports (imports begun)

ASSUME TrialsAssumption ==
  \A t \in Trials :
    /\ t.texts \subseteq Seq(STRING) /\ t.codes \subseteq Seq(STRING)
    /\ t.files \subseteq [csv : Seq(STRING), saved : {<<>>}]
    /\ t.edits \in Nat /\ t.imports \in Nat

VARIABLES
  trial,
  direction,         \* _direction: "encode" or "decode"
  inputText,         \* _inputText
  u8, uc,            \* _u8Output and _u8Errors, _ucOutput and _ucErrors
  ucCrcWarnings,     \* _ucCrcWarnings
  detectedEncoding,  \* _detectedEncoding
  history,           \* _history
  importErrors,      \* _importErrors
  imports,           \* the imports begun
  files,             \* what can be imported: the history last saved, and others
  edits              \* how many changes converted an input

shown == <<direction, inputText, u8, uc, ucCrcWarnings, detectedEncoding>>
vars == <<trial, shown, history, importErrors, imports, files, edits>>

Inputs == IF direction = "encode" THEN trial.texts ELSE trial.codes
NoOutput == [text |-> <<>>, errors |-> 0, crcOnly |-> FALSE]

TypeOK ==
  /\ trial \in Trials
  /\ direction \in {"encode", "decode"} /\ inputText \in Inputs \cup {<<>>}
  /\ detectedEncoding \in {"unknown", "charT_u8", "charTC_u8", "ambiguous"}
  /\ edits <= trial.edits /\ Len(imports) <= trial.imports
  /\ \A k \in DOMAIN history :
       /\ history[k].inputEncoding \in ValidInputEncodings \cup {"unknown", "ambiguous"}
       /\ history[k].inputEncoding = "UTF-8" <=> history[k].encoding1 = "charT_u8"
  /\ \A k \in DOMAIN imports : imports[k].state = "read" =>
       Len(history) >= imports[k].imported

Init ==
  /\ trial \in Trials
  /\ direction = "encode" /\ inputText = <<>> /\ u8 = NoOutput /\ uc = NoOutput
  /\ ucCrcWarnings = FALSE /\ detectedEncoding = "unknown"
  /\ history = <<>> /\ importErrors = <<>> /\ imports = <<>> /\ files = trial.files /\ edits = 0

-----------------------------------------------------------------------------
(* Conversions.                                                            *)

Record(input, output1, output2, inputEncoding, encoding1, encoding2) ==
  [input |-> input, output1 |-> output1, output2 |-> output2,
   inputEncoding |-> inputEncoding, encoding1 |-> encoding1, encoding2 |-> encoding2]

(* Mutant of OnDirectionChanged: the text is cleared, its results stay.    *)
ResultsStay ==
  /\ direction' = IF direction = "encode" THEN "decode" ELSE "encode"
  /\ inputText' = <<>>
  /\ UNCHANGED <<u8, uc, ucCrcWarnings, detectedEncoding, trial, history, importErrors, imports, files, edits>>

OnDirectionChanged ==
  /\ direction' = IF direction = "encode" THEN "decode" ELSE "encode"
  /\ inputText' = <<>> /\ u8' = NoOutput /\ uc' = NoOutput
  /\ ucCrcWarnings' = FALSE /\ detectedEncoding' = "unknown"
  /\ UNCHANGED <<trial, history, importErrors, imports, files, edits>>

Detect(code) ==
  CASE DecodeU8(code).errors = 0 /\ DecodeUc(code).errors = 0 -> "ambiguous"
    [] DecodeU8(code).errors = 0 /\ DecodeUc(code).errors > 0 -> "charT_u8"
    [] DecodeU8(code).errors > 0 /\ DecodeUc(code).errors = 0 -> "charTC_u8"
    [] OTHER -> "unknown"

(* Of a text that is blank the results go, but not the detected encoding,  *)
(* which is not shown then.                                                *)
ClearResults ==
  /\ u8' = NoOutput /\ uc' = NoOutput /\ ucCrcWarnings' = FALSE
  /\ UNCHANGED <<detectedEncoding, history>>

(* A text with errors leaves no record.                                    *)
ConvertText ==
  /\ u8' = EncodeU8(inputText') /\ uc' = EncodeUc(inputText')
  /\ ucCrcWarnings' = FALSE
  /\ history' = IF u8'.errors = 0 /\ uc'.errors = 0
                THEN Append(history, Record(inputText', u8'.text, uc'.text, "UTF-8", "charT_u8", "charTC_u8"))
                ELSE history
  /\ UNCHANGED detectedEncoding

(* Mutant of ConvertCode: the encodings of input and output are swapped.    *)
EncodingsSwapped ==
  /\ u8' = DecodeU8(inputText') /\ uc' = DecodeUc(inputText')
  /\ ucCrcWarnings' = (uc'.errors > 0 /\ uc'.crcOnly)
  /\ detectedEncoding' = Detect(inputText')
  /\ history' = Append(history, Record(inputText', u8'.text, uc'.text, "UTF-8", detectedEncoding', "UTF-8"))

(* A code always does.                                                     *)
ConvertCode ==
  /\ u8' = DecodeU8(inputText') /\ uc' = DecodeUc(inputText')
  /\ ucCrcWarnings' = (uc'.errors > 0 /\ uc'.crcOnly)
  /\ detectedEncoding' = Detect(inputText')
  /\ history' = Append(history, Record(inputText', u8'.text, uc'.text, detectedEncoding', "UTF-8", "UTF-8"))

Convert ==
  /\ edits < trial.edits /\ edits' = edits + 1
  /\ CASE IsBlank(inputText') -> ClearResults
       [] ~IsBlank(inputText') /\ direction = "encode" -> ConvertText
       [] OTHER -> ConvertCode
  /\ UNCHANGED <<trial, direction, importErrors, imports, files>>

(* Typed, or pasted, which is awaited before the page is touched.          *)
ChangeText == \E text \in Inputs :
  text # inputText /\ inputText' = text /\ Convert

-----------------------------------------------------------------------------
(* The file and its import.                                                *)

DownloadHistoryAsync ==
  /\ history # <<>>
  /\ files' = {[csv |-> Serialize(history), saved |-> history]} \cup trial.files
  /\ files' # files
  /\ UNCHANGED <<trial, shown, history, importErrors, imports, edits>>

ImportCsvAsync == \E file \in files :
  /\ Len(imports) < trial.imports
  /\ importErrors' = <<>>
  /\ imports' = Append(imports, [file |-> file, state |-> "reading", imported |-> 0, skipped |-> 0])
  /\ UNCHANGED <<trial, shown, history, files, edits>>

Reading == {k \in DOMAIN imports : imports[k].state = "reading"}

ReadFails == \E k \in Reading :
  /\ imports' = [imports EXCEPT ![k].state = "failed"]
  /\ UNCHANGED <<trial, shown, history, importErrors, files, edits>>

(* RunEncode, RunDecodeBoth, RunDecodeU8 and RunDecodeUc: unlike Convert,  *)
(* a text with errors leaves a record too.                                 *)
Rerun(row) ==
  CASE row.inputEncoding = "UTF-8" ->
         Record(row.input, EncodeU8(row.input).text, EncodeUc(row.input).text, "UTF-8", "charT_u8", "charTC_u8")
    [] row.inputEncoding = "ternary" ->
         Record(row.input, DecodeU8(row.input).text, DecodeUc(row.input).text, "ternary", "UTF-8", "UTF-8")
    [] row.inputEncoding = "charT_u8" ->
         Record(row.input, DecodeU8(row.input).text, <<>>, "charT_u8", "UTF-8", "")
    [] row.inputEncoding = "charTC_u8" ->
         Record(row.input, DecodeUc(row.input).text, <<>>, "charTC_u8", "UTF-8", "")

FinishImport == \E k \in Reading :
  LET result == Deserialize(imports[k].file.csv)
  IN  /\ history' = history \o [j \in DOMAIN result.validRows |-> Rerun(result.validRows[j])]
      /\ importErrors' = importErrors \o result.errors
      /\ imports' = [imports EXCEPT ![k].state = "read", ![k].imported = Len(result.validRows),
                                    ![k].skipped = Len(result.errors)]
      /\ UNCHANGED <<trial, shown, files, edits>>

CloseErrors ==
  /\ importErrors # <<>> /\ importErrors' = <<>>
  /\ UNCHANGED <<trial, shown, history, imports, files, edits>>

Next ==
  \/ OnDirectionChanged \/ ChangeText
  \/ DownloadHistoryAsync \/ ImportCsvAsync \/ ReadFails \/ FinishImport \/ CloseErrors

Spec == Init /\ [][Next]_vars

-----------------------------------------------------------------------------
(* Properties.                                                             *)

(* What the page shows is of the text it shows, in the direction it shows: *)
(* no result outlives its text, over changes of direction, blank texts and *)
(* imports that finish in between (CharTStringConverter.razor:206-271).    *)
ShownIsOfTheText ==
  IF IsBlank(inputText) THEN u8 = NoOutput /\ uc = NoOutput /\ ~ucCrcWarnings
  ELSE IF direction = "encode"
  THEN u8 = EncodeU8(inputText) /\ uc = EncodeUc(inputText) /\ ~ucCrcWarnings
  ELSE /\ u8 = DecodeU8(inputText) /\ uc = DecodeUc(inputText)
       /\ detectedEncoding = Detect(inputText)
       /\ (detectedEncoding \in {"charTC_u8", "ambiguous"}) => ~ucCrcWarnings

(* The record that an import makes of one that was saved: of a decoded     *)
(* text only the output of the codec its encoding names.                   *)
Restored(r) ==
  CASE r.inputEncoding \in {"UTF-8", "ternary"} -> r
    [] r.inputEncoding = "charT_u8" -> [r EXCEPT !.output2 = <<>>, !.encoding2 = ""]
    [] r.inputEncoding = "charTC_u8" ->
         IF r.encoding2 = "" THEN r ELSE [r EXCEPT !.output1 = r.output2, !.output2 = <<>>, !.encoding2 = ""]

HasCr(r) == Occurs(Cr, r.input) \/ Occurs(Cr, r.output1) \/ Occurs(Cr, r.output2)
IsNamed(r) == r.inputEncoding \in ValidInputEncodings

IsSubsequence(s, t) ==
  LET matched[k \in 0..Len(t)] ==
        IF k = 0 THEN 0
        ELSE IF matched[k - 1] < Len(s) /\ s[matched[k - 1] + 1] = t[k] THEN matched[k - 1] + 1
        ELSE matched[k - 1]
  IN  matched[Len(t)] = Len(s)

(* A saved history comes back: every record of it whose encoding is one of *)
(* the four, in order, whatever separators, quotation marks and line feeds *)
(* are in its texts; and without a carriage return in a text nothing else  *)
(* does, and every other record is one error. A carriage return breaks its *)
(* own record only (CharTStringCsvSerializer.cs:46-62, 77-253;             *)
(* CharTStringConverter.razor:314-399).                                    *)
SavedTextsComeBack ==
  [][\A k \in Reading :
       LET saved == imports[k].file.saved
           kept == Picked(saved, {j \in DOMAIN saved : IsNamed(saved[j]) /\ ~HasCr(saved[j])})
           restored == [j \in DOMAIN kept |-> Restored(kept[j])]
           added == SubSeq(history', Len(history) + 1, Len(history'))
       IN  (imports'[k].state = "read" /\ saved # <<>>) =>
             /\ IsSubsequence(restored, added)
             /\ (\A j \in DOMAIN saved : ~HasCr(saved[j])) =>
                  added = restored /\ imports'[k].skipped = Len(saved) - Len(kept)]_vars

LineFeeds(text, first, last) == Cardinality({j \in first..last : text[j] = Lf})

(* The line that an error names is where its row begins, behind rows of    *)
(* any number of lines and blank ones (CharTStringCsvSerializer.cs:168-210). *)
ErrorsAtTheirLines ==
  [][\A k \in Reading :
       LET text == Normalise(imports[k].file.csv)
           errors == SubSeq(importErrors', Len(importErrors) + 1, Len(importErrors'))
           startsAt(p, e) ==
             /\ p = 1 \/ text[p - 1] = Lf
             /\ LineFeeds(text, 1, p - 1) = e.line - 1
             /\ SubSeq(text, p, p + Len(e.text) - 1) = e.text
       IN  imports'[k].state = "read" =>
             \A j \in DOMAIN errors : \E p \in 1..Len(text) - Len(errors[j].text) + 1 : startsAt(p, errors[j])]_vars

=============================================================================
