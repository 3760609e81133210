------------------------------ MODULE RadixPage ------------------------------
(***************************************************************************)
(* The page of the radix converter: every change of the input or of a      *)
(* setting converts again and adds to the history; the history can be      *)
(* saved as a file, and a file can be imported. Reading a file is the only *)
(* thing the page awaits: anything may be done to the page before the      *)
(* import goes on, another import included.                                *)
(*                                                                         *)
(* A file is a sequence of rows below a header. A row is broken if it does *)
(* not have its six fields in order (or ended up so: see Rows).            *)
(***************************************************************************)
EXTENDS RadixConverter, FiniteSets

CONSTANT
  Trials  \* what is tried together: inputs, radices, lengths, digit orders, files
          \* to import, and the bounds edits (changes that convert an input)
          \* and imports (imports begun)

(* An input is a text and the white space around it: "none", "space" or a  *)
(* "newline" at its end, which only a paste can bring.                     *)
Inputs == [text : Seq(Characters), gap : {"none", "space", "newline"}]

Broken == [kind |-> "broken"]
FileRow ==
  [kind : {"row"}, text : Seq(Characters), from : Radices, to : Radices,
   lsdFirst : BOOLEAN, length : Nat] \cup {Broken}

ASSUME TrialsAssumption ==
  \A t \in Trials :
    /\ t.inputs \subseteq Inputs /\ \A i \in t.inputs : i.text # <<>>
    /\ {"Base10", "Base3Balanced"} \subseteq t.radices /\ t.radices \subseteq Radices
    /\ t.lengths \subseteq Nat \ {0} /\ t.orders \subseteq BOOLEAN
    /\ t.edits \in Nat /\ t.imports \in Nat
    /\ t.files \subseteq [rows : Seq(FileRow), saved : {<<>>}]

VARIABLES
  trial,
  settings,      \* _fromRadix, _toRadix, _lsdFirst, _fixedInputLength, _fixedOutputLength
  inputValue,    \* _inputValue
  outputValue,   \* _outputValue; Thrown is the message that a conversion failed
  history,       \* _history
  importErrors,  \* _importErrors: one number per row that failed
  imports,       \* the imports begun: the file, and once it is read the counts shown
  files,         \* what can be imported: the history last saved, and others
  edits          \* how many changes converted an input

vars == <<trial, settings, inputValue, outputValue, history, importErrors, imports, files, edits>>

NoInput == [text |-> <<>>, gap |-> "none"]

Options(s) == [lsdFirst |-> s.lsdFirst, input |-> s.input, output |-> s.output]

Record(input, output, s) ==
  [input |-> input, output |-> output, from |-> s.from, to |-> s.to,
   lsdFirst |-> s.lsdFirst, length |-> s.output]

TypeOK ==
  /\ settings.from \in trial.radices /\ settings.to \in trial.radices
  /\ settings.input \in FixedLengthOptions(settings.from) \cup {0}
  /\ settings.output \in FixedLengthOptions(settings.to) \cup {0}
  /\ inputValue \in trial.inputs \cup {NoInput}
  /\ edits <= trial.edits /\ Len(imports) <= trial.imports
  /\ \A k \in DOMAIN history : history[k].output # Thrown
  /\ \A k \in DOMAIN importErrors : importErrors[k] \in 1..Len(imports)

Init ==
  /\ trial \in Trials
  /\ settings = [from |-> "Base10", to |-> "Base3Balanced", lsdFirst |-> FALSE, input |-> 0, output |-> 0]
  /\ inputValue = NoInput /\ outputValue = <<>>
  /\ history = <<>> /\ importErrors = <<>> /\ imports = <<>> /\ files = trial.files
  /\ edits = 0

-----------------------------------------------------------------------------
(* Conversions.                                                            *)

(* With the input and the settings the page now has. The record keeps the  *)
(* white space that the conversion ignored.                                *)
Recalculate ==
  LET output == Convert(inputValue'.text, settings'.from, settings'.to, Options(settings'))
  IN  /\ outputValue' = output
      /\ history' = IF output \in {<<>>, Thrown} THEN history
                    ELSE Append(history, Record(inputValue', output, settings'))

(* A change of the input or of a setting.                                  *)
Edit ==
  /\ edits' = IF inputValue'.text = <<>> THEN edits ELSE edits + 1
  /\ edits' <= trial.edits
  /\ Recalculate
  /\ UNCHANGED <<trial, importErrors, imports, files>>

Enter == \E input \in trial.inputs :
  /\ input # inputValue /\ input.gap # "newline"
  /\ inputValue' = input /\ UNCHANGED settings
  /\ Edit

PasteAsync == \E input \in trial.inputs :
  /\ input # inputValue
  /\ inputValue' = input /\ UNCHANGED settings
  /\ Edit

(* Mutant of OnSettingChanged: only the radices change.                    *)
LengthsKept(from, to) == settings' = [settings EXCEPT !.from = from, !.to = to]

(* Fixed lengths that the new radices do not offer are reset.              *)
OnSettingChanged(from, to) ==
  settings' = [settings EXCEPT
    !.from = from, !.to = to,
    !.input = IF @ \in FixedLengthOptions(from) THEN @ ELSE 0,
    !.output = IF @ \in FixedLengthOptions(to) THEN @ ELSE 0]

ChangeRadix == \E from, to \in trial.radices :
  /\ \/ from = settings.from /\ to # settings.to
     \/ to = settings.to /\ from # settings.from
  /\ OnSettingChanged(from, to) /\ UNCHANGED inputValue
  /\ Edit

ChangeOrder ==
  /\ (~settings.lsdFirst) \in trial.orders
  /\ settings' = [settings EXCEPT !.lsdFirst = ~@] /\ UNCHANGED inputValue
  /\ Edit

ChangeLength == \E input, output \in trial.lengths \cup {0} :
  /\ input \in FixedLengthOptions(settings.from) \cup {0}
  /\ output \in FixedLengthOptions(settings.to) \cup {0}
  /\ \/ input = settings.input /\ output # settings.output
     \/ output = settings.output /\ input # settings.input
  /\ settings' = [settings EXCEPT !.input = input, !.output = output] /\ UNCHANGED inputValue
  /\ Edit

-----------------------------------------------------------------------------
(* The file and its import.                                                *)

(* ConversionCsvSerializer.Serialize as Deserialize reads it: an input     *)
(* with a line break is quoted, and the quoted field is read as a broken   *)
(* row and a row whose input is a quotation mark.                          *)
Rows(record) ==
  LET row(text) == [kind |-> "row", text |-> text, from |-> record.from, to |-> record.to,
                    lsdFirst |-> record.lsdFirst, length |-> record.length]
  IN  IF record.input.gap = "newline" THEN <<Broken, row(<<Foreign>>)>>
      ELSE <<row(record.input.text)>>

Serialize(records) ==
  LET rows[k \in 0..Len(records)] == IF k = 0 THEN <<>> ELSE rows[k - 1] \o Rows(records[k])
  IN  rows[Len(records)]

DownloadHistoryAsync ==
  /\ history # <<>>
  /\ files' = {[rows |-> Serialize(history), saved |-> history]} \cup trial.files
  /\ files' # files
  /\ UNCHANGED <<trial, settings, inputValue, outputValue, history, importErrors, imports, edits>>

BeingRead == {k \in DOMAIN imports : imports[k].state = "reading"}

(* Mutant of Cleared: the list is cleared by its close button only.        *)
NotCleared == importErrors

Cleared == <<>>

(* The list of errors is cleared before the file is read...                *)
ImportCsvAsync == \E file \in files :
  /\ Len(imports) < trial.imports
  /\ importErrors' = Cleared
  /\ imports' = Append(imports, [file |-> file, state |-> "reading", during |-> BeingRead,
                                 imported |-> 0, skipped |-> 0])
  /\ UNCHANGED <<trial, settings, inputValue, outputValue, history, files, edits>>

ReadFails == \E k \in BeingRead :
  /\ imports' = [imports EXCEPT ![k].state = "failed"]
  /\ UNCHANGED <<trial, settings, inputValue, outputValue, history, importErrors, files, edits>>

Reconvert(row) ==
  Convert(row.text, row.from, row.to,
          [lsdFirst |-> row.lsdFirst, input |-> 0, output |-> row.length])

(* Mutant of Imported: the first row that fails ends the import.           *)
UntilFirstFailure(file) ==
  LET good(k) == file[k].kind = "row" /\ Reconvert(file[k]) # Thrown
  IN  {k \in DOMAIN file : \A j \in 1..k : good(j)}

(* The rows of a file that convert, and those that do not.                 *)
Imported(file) ==
  {k \in DOMAIN file : file[k].kind = "row" /\ Reconvert(file[k]) # Thrown}

RecordOf(row) ==
  [input |-> [text |-> row.text, gap |-> "none"], output |-> Reconvert(row),
   from |-> row.from, to |-> row.to, lsdFirst |-> row.lsdFirst, length |-> row.length]

InOrder(file, ks) ==
  LET rows[k \in 0..Len(file)] ==
        IF k = 0 THEN <<>>
        ELSE IF k \in ks THEN Append(rows[k - 1], RecordOf(file[k])) ELSE rows[k - 1]
  IN  rows[Len(file)]

(* ... and once it is read, every row that parses is converted again.      *)
FinishImport == \E k \in BeingRead :
  LET rows == imports[k].file.rows
      done == Imported(rows)
      skipped == Len(rows) - Cardinality(done)
  IN  /\ history' = history \o InOrder(rows, done)
      /\ importErrors' = importErrors \o [j \in 1..skipped |-> k]
      /\ imports' = [imports EXCEPT ![k].state = "read", ![k].imported = Cardinality(done),
                                    ![k].skipped = skipped]
      /\ UNCHANGED <<trial, settings, inputValue, outputValue, files, edits>>

CloseErrors ==
  /\ importErrors # <<>> /\ importErrors' = <<>>
  /\ UNCHANGED <<trial, settings, inputValue, outputValue, history, imports, files, edits>>

Next ==
  \/ Enter \/ PasteAsync \/ ChangeRadix \/ ChangeOrder \/ ChangeLength
  \/ DownloadHistoryAsync \/ ImportCsvAsync \/ ReadFails \/ FinishImport \/ CloseErrors

Spec == Init /\ [][Next]_vars

-----------------------------------------------------------------------------
(* Properties.                                                             *)

MostSignificantFirst(record) ==
  IF record.lsdFirst THEN LsdFirst(record.output, record.to) ELSE record.output

(* Every output in the history reads back as the value of its input, in    *)
(* either digit order and at every fixed length, so Format and Parse are   *)
(* inverse in all fourteen radices (RadixConverter.cs:52-131, 566-601).    *)
(* Not so where "0" is not the digit zero or goes before a minus: Base64   *)
(* and negative decimals of a fixed length, which an import can ask for    *)
(* though the page offers no length for them.                              *)
OutputReadsBack ==
  \A k \in DOMAIN history :
    LET r == history[k]
        value == Parse(r.input.text, r.from)
    IN  (r.output # <<>> /\ ~(r.length > 0 /\ r.to \in {"Base64Rfc4648", "Base10"})) =>
          Parses(MostSignificantFirst(r), r.to) /\ Parse(MostSignificantFirst(r), r.to) = value

(* The values that a number of digits can hold.                            *)
Representable(value, radix, length) ==
  CASE length = 0 -> radix \in Unsigned => value >= 0
    [] length > 0 /\ radix \in Unsigned -> value \in 0..Power(Base(radix), length) - 1
    [] length > 0 /\ radix \in {"Base2Signed1C", "Base3Signed2C"} ->
         Magnitude(value) < Power(Base(radix), length - 1)
    [] length > 0 /\ radix \in {"Base2Signed2C", "Base3Signed3C"} ->
         value >= -Power(Base(radix), length - 1) /\ value < Power(Base(radix), length - 1)
    [] OTHER -> 2 * Magnitude(value) < Power(3, length)

(* The values that FormatTwosComplement gives a digit too many: the least  *)
(* one of each length, and those a double takes for the power of two above *)
(* them.                                                                   *)
TwosComplementGap(value, length) ==
  \/ value = -Power(2, length - 1)
  \/ /\ length - 1 >= ExactLog
     /\ Power(2, length - 1) - Magnitude(value) \in 0..Power(2, length - 1 - ExactLog)

(* A conversion is refused exactly when the input is no number of its      *)
(* radix, is too long, or has a value the fixed output length cannot hold; *)
(* but for two's complement, where values are refused that do fit          *)
(* (OutputOptions.cs:11-12, RadixConverter.cs:31-38, 438-456, 569-631).    *)
RefusesOnlyMisfits ==
  LET text == inputValue.text
      parses == Parses(text, settings.from) /\ (settings.input = 0 \/ DigitCount(text, settings.from) <= settings.input)
      value == Parse(text, settings.from)
      gap == settings.to = "Base2Signed2C" /\ settings.output > 0 /\ TwosComplementGap(value, settings.output)
  IN  text # <<>> =>
        IF outputValue = Thrown
        THEN ~parses \/ gap \/ ~Representable(value, settings.to, settings.output)
        ELSE /\ parses /\ Representable(value, settings.to, settings.output)
             /\ settings.output = 0 \/ DigitCount(outputValue, settings.to) = settings.output

(* The records of a history that have no line break in their input, and no *)
(* white space around it.                                                  *)
Kept(records) ==
  LET kept[k \in 0..Len(records)] ==
        IF k = 0 THEN <<>>
        ELSE IF records[k].input.gap = "newline" THEN kept[k - 1]
        ELSE Append(kept[k - 1], [records[k] EXCEPT !.input.gap = "none"])
  IN  kept[Len(records)]

(* A saved history comes back: an import of it adds the same records in    *)
(* the same order, whatever was done in between, with the white space      *)
(* around an input gone. Each record whose input ended in a line break is  *)
(* lost, as two rows that are skipped; it costs no other row               *)
(* (ConversionCsvSerializer.cs:41-64, 86-193; RadixConverter.razor:317-345). *)
SavedHistoryComesBack ==
  [][\A k \in BeingRead :
       LET saved == imports[k].file.saved
       IN  (imports'[k].state = "read" /\ saved # <<>>) =>
             /\ history' = history \o Kept(saved)
             /\ imports'[k].skipped = 2 * (Len(saved) - Len(Kept(saved)))]_vars

(* The list of errors is of one import, or of imports whose reading        *)
(* overlapped: those of an import that was over when the next one began    *)
(* are gone; and it never lists a part of an import's errors               *)
(* (RadixConverter.razor:294-345).                                         *)
ErrorsOfOneImport ==
  LET listed == {importErrors[j] : j \in DOMAIN importErrors}
      errorsOf(k) == {j \in DOMAIN importErrors : importErrors[j] = k}
  IN  \A a, b \in listed :
        /\ Cardinality(errorsOf(a)) = imports[a].skipped
        /\ a < b => a \in imports[b].during
=============================================================================
