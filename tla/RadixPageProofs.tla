--------------------------- MODULE RadixPageProofs ---------------------------
(***************************************************************************)
(* Proofs about RadixPage for every set of trials and every precision of a *)
(* double: the list of errors is of one import, a saved history comes      *)
(* back, every output reads back as its input, and only a value that does  *)
(* not fit is refused.                                                     *)
(***************************************************************************)
EXTENDS RadixPage, RadixConverterProofs, FiniteSetTheorems

(* What an input converts to, no length being asked of it.                 *)
Conversion(input, from, to, lsdFirst, length) ==
  [input |-> input,
   output |-> Convert(input.text, from, to, [lsdFirst |-> lsdFirst, input |-> 0, output |-> length]),
   from |-> from, to |-> to, lsdFirst |-> lsdFirst, length |-> length]

Records ==
  {r \in {Conversion(input, from, to, lsdFirst, length) :
            input \in Inputs, from \in Radices, to \in Radices, lsdFirst \in BOOLEAN, length \in Nat} :
     r.output # Thrown}

Files == [rows : Seq(FileRow), saved : Seq(Records)]

SettingsInv ==
  /\ settings \in [from : Radices, to : Radices, lsdFirst : BOOLEAN, input : Nat, output : Nat]
  /\ settings.from \in trial.radices /\ settings.to \in trial.radices
  /\ settings.input \in FixedLengthOptions(settings.from) \cup {0}
  /\ settings.output \in FixedLengthOptions(settings.to) \cup {0}
  /\ inputValue \in trial.inputs \cup {NoInput}
  /\ edits \in Nat /\ edits <= trial.edits

Imports == [file : Files, state : {"reading", "failed", "read"}, during : SUBSET Nat,
            imported : Nat, skipped : Nat]

ListsInv ==
  /\ trial \in Trials
  /\ history \in Seq(Records)
  /\ imports \in Seq(Imports) /\ Len(imports) <= trial.imports
  /\ importErrors \in Seq(Nat)
  /\ files \subseteq Files

Listed == {importErrors[j] : j \in DOMAIN importErrors}
ErrorsOf(k) == {j \in DOMAIN importErrors : importErrors[j] = k}

(* A listed import has been read, and all its errors are listed. An import *)
(* that is listed or still being read overlaps each that began after it:   *)
(* it was being read then.                                                 *)
ErrorsInv ==
  /\ \A a \in Listed : /\ a \in DOMAIN imports /\ imports[a].state = "read"
                       /\ Cardinality(ErrorsOf(a)) = imports[a].skipped
  /\ \A b \in DOMAIN imports : \A a \in Listed \cup BeingRead : a < b => a \in imports[b].during

PageInv == SettingsInv /\ ListsInv /\ ErrorsInv

-----------------------------------------------------------------------------
(* Records and rows.                                                       *)

(* A record is the conversion its columns ask for.                         *)
LEMMA RecordParts ==
  ASSUME NEW r \in Records
  PROVE  /\ r = Conversion(r.input, r.from, r.to, r.lsdFirst, r.length)
         /\ r.input \in Inputs /\ r.from \in Radices /\ r.to \in Radices
         /\ r.lsdFirst \in BOOLEAN /\ r.length \in Nat
         /\ r.output # Thrown
  <1>1. PICK input \in Inputs, from \in Radices, to \in Radices, lsdFirst \in BOOLEAN, length \in Nat :
          r = Conversion(input, from, to, lsdFirst, length)
    BY DEF Records
  <1>2. /\ r.input = input /\ r.from = from /\ r.to = to
        /\ r.lsdFirst = lsdFirst /\ r.length = length
    BY <1>1 DEF Conversion
  <1>3. r.output # Thrown
    BY DEF Records
  <1> QED
    BY <1>1, <1>2, <1>3

(* Convert without an input length gives what it gave with one: the length *)
(* is only checked.                                                        *)
LEMMA InputLengthOnlyRefuses ==
  ASSUME NEW text, NEW from, NEW to, NEW options, NEW lsdFirst, NEW length,
         options.lsdFirst = lsdFirst, options.output = length,
         Convert(text, from, to, options) # Thrown
  PROVE  Convert(text, from, to, options) =
           Convert(text, from, to, [lsdFirst |-> lsdFirst, input |-> 0, output |-> length])
  <1> DEFINE free == [lsdFirst |-> lsdFirst, input |-> 0, output |-> length]
  <1>1. free.lsdFirst = lsdFirst /\ free.output = length /\ free.input = 0
    OBVIOUS
  <1> HIDE DEF free
  <1>2. \A value : Format(value, to, options) = Format(value, to, free)
    BY <1>1 DEF Format
  <1>3. ~(free.input > 0)
    BY <1>1
  <1>4. Convert(text, from, to, options) = Convert(text, from, to, free)
    <2>1. CASE text = <<>>
      BY <2>1 DEF Convert
    <2>2. CASE text # <<>>
      <3>1. Parses(text, from) /\ Convert(text, from, to, options) = Format(Parse(text, from), to, options)
        BY <2>2 DEF Convert
      <3>2. Convert(text, from, to, free) = Format(Parse(text, from), to, free)
        BY <2>2, <3>1, <1>3 DEF Convert
      <3> QED
        BY <3>1, <3>2, <1>2
    <2> QED
      BY <2>1, <2>2
  <1> QED
    BY <1>4 DEF free

(* What the page records is a record.                                      *)
LEMMA RecordIsGood ==
  ASSUME NEW input \in Inputs, NEW output,
         NEW s \in [from : Radices, to : Radices, lsdFirst : BOOLEAN, input : Nat, output : Nat],
         output = Convert(input.text, s.from, s.to, Options(s)), output # Thrown
  PROVE  Record(input, output, s) \in Records
  <1>1. Options(s).lsdFirst = s.lsdFirst /\ Options(s).output = s.output
    BY DEF Options
  <1>2. output = Convert(input.text, s.from, s.to,
                         [lsdFirst |-> s.lsdFirst, input |-> 0, output |-> s.output])
    BY <1>1, InputLengthOnlyRefuses
  <1>3. Record(input, output, s) = Conversion(input, s.from, s.to, s.lsdFirst, s.output)
    BY <1>2 DEF Record, Conversion
  <1>4. Conversion(input, s.from, s.to, s.lsdFirst, s.output).output # Thrown
    BY <1>2 DEF Conversion
  <1> QED
    BY <1>3, <1>4 DEF Records

(* A text with a character of no radix is refused.                         *)
LEMMA ForeignRefused ==
  ASSUME NEW from \in Radices, NEW to, NEW options
  PROVE  Convert(<<Foreign>>, from, to, options) = Thrown
  <1> DEFINE text == <<Foreign>>
  <1>1. text # <<>> /\ DOMAIN text = {1} /\ text[1] = 65 /\ Len(text) = 1
    BY DEF Foreign
  <1>2. ValueOfDigit(65, from) = NoDigit
    BY DEF ValueOfDigit, ValueOf64, ValueOfHex, NoDigit, Base
  <1> HIDE DEF text
  <1>3. ~ HasDigits(text, from)
    BY <1>1, <1>2 DEF HasDigits
  <1>4. Unsign(text) = text
    BY <1>1 DEF Unsign, Plus, Minus
  <1>5. ~ Parses(text, from)
    BY <1>1, <1>3, <1>4 DEF Parses, Plus, Minus
  <1> QED
    BY <1>5, <1>1 DEF Convert, text

(* A row that keeps the columns of a record converts to that record again. *)
LEMMA RecordOfGoodRow ==
  ASSUME NEW row \in FileRow, row.kind = "row", Reconvert(row) # Thrown
  PROVE  /\ RecordOf(row) \in Records
         /\ RecordOf(row) = Conversion([text |-> row.text, gap |-> "none"], row.from, row.to,
                                       row.lsdFirst, row.length)
  <1>1. /\ row.text \in Seq(Characters) /\ row.from \in Radices /\ row.to \in Radices
        /\ row.lsdFirst \in BOOLEAN /\ row.length \in Nat
    BY DEF FileRow, Broken
  <1> DEFINE input == [text |-> row.text, gap |-> "none"]
  <1>2. input \in Inputs /\ input.text = row.text
    BY <1>1 DEF Inputs
  <1> HIDE DEF input
  <1>3. RecordOf(row) = Conversion(input, row.from, row.to, row.lsdFirst, row.length)
    BY <1>2 DEF RecordOf, Conversion, Reconvert, input
  <1>4. Conversion(input, row.from, row.to, row.lsdFirst, row.length).output # Thrown
    BY <1>2 DEF Conversion, Reconvert
  <1> QED
    BY <1>1, <1>2, <1>3, <1>4 DEF Records, input

(* The rows of one record: one that comes back, or two that are skipped.   *)
LEMMA RowsOfRecord ==
  ASSUME NEW r \in Records
  PROVE  /\ r.input.gap = "newline" =>
              \E row \in FileRow : /\ Rows(r) = <<Broken, row>> /\ row.kind = "row"
                                   /\ Reconvert(row) = Thrown
         /\ r.input.gap # "newline" =>
              \E row \in FileRow : /\ Rows(r) = <<row>> /\ row.kind = "row"
                                   /\ Reconvert(row) # Thrown
                                   /\ RecordOf(row) = [r EXCEPT !.input.gap = "none"]
         /\ Rows(r) \in Seq(FileRow)
  <1> DEFINE row(text) == [kind |-> "row", text |-> text, from |-> r.from, to |-> r.to,
                           lsdFirst |-> r.lsdFirst, length |-> r.length]
  <1>1. /\ r = Conversion(r.input, r.from, r.to, r.lsdFirst, r.length)
        /\ r.input \in Inputs /\ r.from \in Radices /\ r.to \in Radices
        /\ r.lsdFirst \in BOOLEAN /\ r.length \in Nat /\ r.output # Thrown
    BY RecordParts
  <1>2. \A text \in Seq(Characters) : row(text) \in FileRow /\ row(text).kind = "row"
    BY <1>1 DEF FileRow
  <1>3. <<Foreign>> \in Seq(Characters) /\ r.input.text \in Seq(Characters)
    BY <1>1 DEF Foreign, Characters, Inputs
  <1>4. Broken \in FileRow
    BY DEF FileRow
  <1>5. CASE r.input.gap = "newline"
    <2>1. Rows(r) = <<Broken, row(<<Foreign>>)>>
      BY <1>5 DEF Rows
    <2>2. Reconvert(row(<<Foreign>>)) = Thrown
      BY <1>1, ForeignRefused DEF Reconvert
    <2>3. PICK foreign \in FileRow : foreign = row(<<Foreign>>) /\ foreign.kind = "row"
      BY <1>2, <1>3
    <2>4. Rows(r) = <<Broken, foreign>> /\ Reconvert(foreign) = Thrown
      BY <2>1, <2>2, <2>3
    <2>5. Rows(r) \in Seq(FileRow)
      BY <2>4, <1>4
    <2> QED
      BY <2>3, <2>4, <2>5, <1>5
  <1>6. CASE r.input.gap # "newline"
    <2>1. Rows(r) = <<row(r.input.text)>>
      BY <1>6 DEF Rows
    <2>2. Reconvert(row(r.input.text)) = r.output
      BY <1>1 DEF Reconvert, Conversion
    <2>3. r.input = [text |-> r.input.text, gap |-> r.input.gap]
      BY <1>1 DEF Inputs
    <2>4. RecordOf(row(r.input.text)) = [r EXCEPT !.input.gap = "none"]
      <3>1. RecordOf(row(r.input.text)) =
              [input |-> [text |-> r.input.text, gap |-> "none"], output |-> r.output,
               from |-> r.from, to |-> r.to, lsdFirst |-> r.lsdFirst, length |-> r.length]
        BY <2>2 DEF RecordOf
      <3>2. r = [input |-> [text |-> r.input.text, gap |-> r.input.gap], output |-> r.output,
                 from |-> r.from, to |-> r.to, lsdFirst |-> r.lsdFirst, length |-> r.length]
        BY <1>1, <2>3 DEF Conversion
      <3> QED
        BY <3>1, <3>2
    <2> QED
      BY <2>1, <2>2, <2>4, <1>1, <1>2, <1>3, <1>6
  <1> QED
    BY <1>5, <1>6

-----------------------------------------------------------------------------
(* The recursive functions of the file, by their values.                   *)

(* The recursion of Serialize, unfolded once and for all.                  *)
LEMMA SerializeUnfolds ==
  ASSUME NEW records \in Seq(Records)
  PROVE  \E R \in [0..Len(records) -> Seq(FileRow)] :
           /\ Serialize(records) = R[Len(records)]
           /\ R[0] = <<>>
           /\ \A k \in 1..Len(records) : R[k] = R[k - 1] \o Rows(records[k])
  <1> DEFINE n == Len(records)
             A == Seq(FileRow)
             next(s, k) == s \o Rows(records[k])
             step == [p \in A \X (0 + 1..n) |-> next(p[1], p[2])]
             Is(f) == f = [k \in 0..n |-> IF k = 0 THEN <<>> ELSE next(f[k - 1], k)]
             R == CHOOSE f : Is(f)
  <1>1. n \in Nat /\ n \in Int /\ 0 \in Int /\ <<>> \in A
    OBVIOUS
  <1>2. \A a \in A, k \in 1..n : next(a, k) \in A
    <2>1. \A k \in 1..n : Rows(records[k]) \in A
      BY RowsOfRecord
    <2> QED
      BY <2>1
  <1>3. Serialize(records) = R[n]
    BY DEF Serialize
  <1> HIDE DEF A, n, next
  <1>4. step \in [A \X (0 + 1..n) -> A]
    BY <1>2, <1>1
  <1>5. ASSUME NEW a \in A, NEW k \in 0..n, k # 0 PROVE step[<<a, k>>] = next(a, k)
    <2>1. <<a, k>> \in A \X (0 + 1..n)
      BY <1>1, <1>5
    <2> QED
      BY <2>1
  <1>6. PICK f \in [0..n -> A] : Unfolds(f, 0, n, <<>>, step)
    <2> HIDE DEF step
    <2> QED
      BY <1>1, <1>4, Recursion
  <1>7. \A k \in 0..n : f[k] = IF k = 0 THEN <<>> ELSE next(f[k - 1], k)
    <2> HIDE DEF step
    <2>1. \A k \in 0..n : k # 0 => f[k - 1] \in A
      BY <1>1
    <2> QED
      BY <1>5, <1>6, <2>1 DEF Unfolds
  <1>8. Is(f)
    BY <1>7
  <1>9. R = [k \in 0..n |-> IF k = 0 THEN <<>> ELSE next(R[k - 1], k)]
    <2> HIDE DEF Is
    <2>1. Is(R)
      BY <1>8
    <2> QED
      BY <2>1 DEF Is
  <1> HIDE DEF R
  <1>10. R[0] = <<>> /\ \A k \in 1..n : R[k] = next(R[k - 1], k)
    BY <1>9, <1>1
  <1>11. \A k \in 0..n : R[k] \in A
    <2> DEFINE Good == {k \in 0..n : R[k] \in A}
    <2>1. 0 \in Good
      BY <1>1, <1>10
    <2>2. \A k \in 0..n - 1 : k \in Good => k + 1 \in Good
      BY <1>1, <1>10, <1>2
    <2>3. 0..n \subseteq Good
      <3> HIDE DEF Good
      <3> QED
        BY <1>1, <2>1, <2>2, IntervalInduction
    <2> QED
      BY <2>3
  <1>12. R \in [0..n -> A]
    BY <1>9, <1>11
  <1> QED
    BY <1>3, <1>10, <1>12 DEF A, n, next

(* The recursion of InOrder, likewise.                                     *)
LEMMA InOrderUnfolds ==
  ASSUME NEW file \in Seq(FileRow)
  PROVE  \E R \in [0..Len(file) -> Seq(Records)] :
           /\ InOrder(file, Imported(file)) = R[Len(file)]
           /\ R[0] = <<>>
           /\ \A k \in 1..Len(file) : R[k] = IF k \in Imported(file) THEN Append(R[k - 1], RecordOf(file[k])) ELSE R[k - 1]
  <1> DEFINE n == Len(file)
             A == Seq(Records)
             next(s, k) == IF k \in Imported(file) THEN Append(s, RecordOf(file[k])) ELSE s
             step == [p \in A \X (0 + 1..n) |-> next(p[1], p[2])]
             Is(f) == f = [k \in 0..n |-> IF k = 0 THEN <<>> ELSE next(f[k - 1], k)]
             R == CHOOSE f : Is(f)
  <1>1. n \in Nat /\ n \in Int /\ 0 \in Int /\ <<>> \in A
    OBVIOUS
  <1>2. \A a \in A, k \in 1..n : next(a, k) \in A
    <2>1. ASSUME NEW k \in Imported(file) PROVE RecordOf(file[k]) \in Records
      <3>1. file[k] \in FileRow /\ file[k].kind = "row" /\ Reconvert(file[k]) # Thrown
        BY DEF Imported
      <3> QED
        BY <3>1, RecordOfGoodRow
    <2> QED
      BY <2>1
  <1>3. InOrder(file, Imported(file)) = R[n]
    BY DEF InOrder
  <1> HIDE DEF A, n, next
  <1>4. step \in [A \X (0 + 1..n) -> A]
    BY <1>2, <1>1
  <1>5. ASSUME NEW a \in A, NEW k \in 0..n, k # 0 PROVE step[<<a, k>>] = next(a, k)
    <2>1. <<a, k>> \in A \X (0 + 1..n)
      BY <1>1, <1>5
    <2> QED
      BY <2>1
  <1>6. PICK f \in [0..n -> A] : Unfolds(f, 0, n, <<>>, step)
    <2> HIDE DEF step
    <2> QED
      BY <1>1, <1>4, Recursion
  <1>7. \A k \in 0..n : f[k] = IF k = 0 THEN <<>> ELSE next(f[k - 1], k)
    <2> HIDE DEF step
    <2>1. \A k \in 0..n : k # 0 => f[k - 1] \in A
      BY <1>1
    <2> QED
      BY <1>5, <1>6, <2>1 DEF Unfolds
  <1>8. Is(f)
    BY <1>7
  <1>9. R = [k \in 0..n |-> IF k = 0 THEN <<>> ELSE next(R[k - 1], k)]
    <2> HIDE DEF Is
    <2>1. Is(R)
      BY <1>8
    <2> QED
      BY <2>1 DEF Is
  <1> HIDE DEF R
  <1>10. R[0] = <<>> /\ \A k \in 1..n : R[k] = next(R[k - 1], k)
    BY <1>9, <1>1
  <1>11. \A k \in 0..n : R[k] \in A
    <2> DEFINE Good == {k \in 0..n : R[k] \in A}
    <2>1. 0 \in Good
      BY <1>1, <1>10
    <2>2. \A k \in 0..n - 1 : k \in Good => k + 1 \in Good
      BY <1>1, <1>10, <1>2
    <2>3. 0..n \subseteq Good
      <3> HIDE DEF Good
      <3> QED
        BY <1>1, <2>1, <2>2, IntervalInduction
    <2> QED
      BY <2>3
  <1>12. R \in [0..n -> A]
    BY <1>9, <1>11
  <1> QED
    BY <1>3, <1>10, <1>12 DEF A, n, next

(* The recursion of Kept, likewise.                                        *)
LEMMA KeptUnfolds ==
  ASSUME NEW records \in Seq(Records)
  PROVE  \E R \in [0..Len(records) -> Seq(Records)] :
           /\ Kept(records) = R[Len(records)]
           /\ R[0] = <<>>
           /\ \A k \in 1..Len(records) : R[k] = IF records[k].input.gap = "newline" THEN R[k - 1]
                  ELSE Append(R[k - 1], [records[k] EXCEPT !.input.gap = "none"])
  <1> DEFINE n == Len(records)
             A == Seq(Records)
             next(s, k) == IF records[k].input.gap = "newline" THEN s ELSE Append(s, [records[k] EXCEPT !.input.gap = "none"])
             step == [p \in A \X (0 + 1..n) |-> next(p[1], p[2])]
             Is(f) == f = [k \in 0..n |-> IF k = 0 THEN <<>> ELSE next(f[k - 1], k)]
             R == CHOOSE f : Is(f)
  <1>1. n \in Nat /\ n \in Int /\ 0 \in Int /\ <<>> \in A
    OBVIOUS
  <1>2. \A a \in A, k \in 1..n : next(a, k) \in A
    <2>1. ASSUME NEW k \in 1..n, records[k].input.gap # "newline"
          PROVE  [records[k] EXCEPT !.input.gap = "none"] \in Records
      <3> DEFINE r == records[k]
      <3>1. r \in Records
        OBVIOUS
      <3> HIDE DEF r
      <3>2. r.input.gap # "newline"
        BY <2>1 DEF r
      <3>3. PICK row \in FileRow : /\ row.kind = "row" /\ Reconvert(row) # Thrown
                                   /\ RecordOf(row) = [r EXCEPT !.input.gap = "none"]
        BY <3>1, <3>2, RowsOfRecord
      <3> QED
        BY <3>3, RecordOfGoodRow DEF r
    <2> QED
      BY <2>1
  <1>3. Kept(records) = R[n]
    BY DEF Kept
  <1> HIDE DEF A, n, next
  <1>4. step \in [A \X (0 + 1..n) -> A]
    BY <1>2, <1>1
  <1>5. ASSUME NEW a \in A, NEW k \in 0..n, k # 0 PROVE step[<<a, k>>] = next(a, k)
    <2>1. <<a, k>> \in A \X (0 + 1..n)
      BY <1>1, <1>5
    <2> QED
      BY <2>1
  <1>6. PICK f \in [0..n -> A] : Unfolds(f, 0, n, <<>>, step)
    <2> HIDE DEF step
    <2> QED
      BY <1>1, <1>4, Recursion
  <1>7. \A k \in 0..n : f[k] = IF k = 0 THEN <<>> ELSE next(f[k - 1], k)
    <2> HIDE DEF step
    <2>1. \A k \in 0..n : k # 0 => f[k - 1] \in A
      BY <1>1
    <2> QED
      BY <1>5, <1>6, <2>1 DEF Unfolds
  <1>8. Is(f)
    BY <1>7
  <1>9. R = [k \in 0..n |-> IF k = 0 THEN <<>> ELSE next(R[k - 1], k)]
    <2> HIDE DEF Is
    <2>1. Is(R)
      BY <1>8
    <2> QED
      BY <2>1 DEF Is
  <1> HIDE DEF R
  <1>10. R[0] = <<>> /\ \A k \in 1..n : R[k] = next(R[k - 1], k)
    BY <1>9, <1>1
  <1>11. \A k \in 0..n : R[k] \in A
    <2> DEFINE Good == {k \in 0..n : R[k] \in A}
    <2>1. 0 \in Good
      BY <1>1, <1>10
    <2>2. \A k \in 0..n - 1 : k \in Good => k + 1 \in Good
      BY <1>1, <1>10, <1>2
    <2>3. 0..n \subseteq Good
      <3> HIDE DEF Good
      <3> QED
        BY <1>1, <2>1, <2>2, IntervalInduction
    <2> QED
      BY <2>3
  <1>12. R \in [0..n -> A]
    BY <1>9, <1>11
  <1> QED
    BY <1>3, <1>10, <1>12 DEF A, n, next

-----------------------------------------------------------------------------
(* A saved history, imported.                                              *)

LEMMA Concatenated ==
  ASSUME NEW S, NEW s \in Seq(S), NEW t \in Seq(S)
  PROVE  /\ s \o t \in Seq(S) /\ Len(s \o t) = Len(s) + Len(t)
         /\ \A i \in 1..Len(s) : (s \o t)[i] = s[i]
         /\ \A i \in 1..Len(t) : (s \o t)[Len(s) + i] = t[i]
  OBVIOUS

(* Rows that are appended do not change what was imported before them.     *)
LEMMA RowsBegin ==
  ASSUME NEW n \in Nat, NEW S, NEW R \in [0..n -> Seq(S)], NEW own \in [1..n -> Seq(S)],
         \A k \in 1..n : R[k] = R[k - 1] \o own[k],
         NEW k \in 0..n
  PROVE  /\ Len(R[k]) <= Len(R[n])
         /\ \A j \in 1..Len(R[k]) : R[n][j] = R[k][j]
  <1> DEFINE Begins(m) == Len(R[k]) <= Len(R[m]) /\ \A j \in 1..Len(R[k]) : R[m][j] = R[k][j]
             Good == {m \in k..n : Begins(m)}
  <1>1. k \in Good /\ k \in Int /\ n \in Int
    OBVIOUS
  <1>2. ASSUME NEW m \in k..n - 1, m \in Good PROVE m + 1 \in Good
    <2> DEFINE a == R[m]
               b == own[m + 1]
    <2>1. m + 1 \in 1..n /\ (m + 1) - 1 = m /\ m \in 0..n
      OBVIOUS
    <2>2. a \in Seq(S) /\ b \in Seq(S) /\ R[m + 1] = a \o b /\ R[k] \in Seq(S)
      BY <2>1
    <2>3. Len(R[k]) <= Len(a) /\ \A j \in 1..Len(R[k]) : a[j] = R[k][j]
      BY <1>2
    <2> HIDE DEF a, b
    <2>4. Len(R[m + 1]) = Len(a) + Len(b) /\ \A j \in 1..Len(a) : R[m + 1][j] = a[j]
      BY <2>2, Concatenated
    <2>5. Len(a) \in Nat /\ Len(b) \in Nat /\ Len(R[k]) \in Nat
      BY <2>2
    <2>6. Begins(m + 1)
      BY <2>3, <2>4, <2>5
    <2> QED
      BY <2>6
  <1>3. k..n \subseteq Good
    <2> HIDE DEF Good
    <2> QED
      BY <1>1, <1>2, IntervalInduction
  <1>4. n \in Good
    BY <1>3
  <1> QED
    BY <1>4

(* The rows of a saved history, of any length, import to the records that  *)
(* are kept; induction over the records that have been written.            *)
LEMMA SavedRows ==
  ASSUME NEW records \in Seq(Records)
  PROVE  LET rows == Serialize(records)
         IN  /\ InOrder(rows, Imported(rows)) = Kept(records)
             /\ Len(rows) - Cardinality(Imported(rows)) = 2 * (Len(records) - Len(Kept(records)))
  <1> DEFINE n == Len(records)
             own == [k \in 1..n |-> Rows(records[k])]
             rows == Serialize(records)
             done == Imported(rows)
             D(p) == {j \in done : j <= p}
  <1>1. n \in Nat /\ n \in Int /\ 0 \in Int
    OBVIOUS
  <1>2. PICK R \in [0..n -> Seq(FileRow)] :
          /\ rows = R[n] /\ R[0] = <<>>
          /\ \A k \in 1..n : R[k] = R[k - 1] \o Rows(records[k])
    BY SerializeUnfolds
  <1>3. rows \in Seq(FileRow) /\ Len(rows) \in Nat /\ DOMAIN rows = 1..Len(rows)
    BY <1>1, <1>2
  <1>4. PICK P \in [0..Len(rows) -> Seq(Records)] :
          /\ InOrder(rows, done) = P[Len(rows)] /\ P[0] = <<>>
          /\ \A k \in 1..Len(rows) :
               P[k] = IF k \in done THEN Append(P[k - 1], RecordOf(rows[k])) ELSE P[k - 1]
    BY <1>3, InOrderUnfolds
  <1>5. PICK K \in [0..n -> Seq(Records)] :
          /\ Kept(records) = K[n] /\ K[0] = <<>>
          /\ \A k \in 1..n : K[k] = IF records[k].input.gap = "newline" THEN K[k - 1]
                                     ELSE Append(K[k - 1], [records[k] EXCEPT !.input.gap = "none"])
    BY KeptUnfolds
  <1>6. own \in [1..n -> Seq(FileRow)]
    <2>1. \A k \in 1..n : records[k] \in Records
      OBVIOUS
    <2>2. \A k \in 1..n : Rows(records[k]) \in Seq(FileRow)
      BY <2>1, RowsOfRecord
    <2> QED
      BY <2>2
  <1>7. \A k \in 1..n : R[k] = R[k - 1] \o own[k]
    BY <1>2
  <1>8. \A j \in Nat : j \in done <=> j \in 1..Len(rows) /\ rows[j].kind = "row" /\ Reconvert(rows[j]) # Thrown
    BY <1>3 DEF Imported
  <1>9. done \subseteq 1..Len(rows)
    BY <1>3 DEF Imported
  <1> HIDE DEF n, own, rows, done
  <1>10. \A k \in 0..n : Len(R[k]) \in Nat /\ Len(R[k]) <= Len(rows) /\ \A j \in 1..Len(R[k]) : rows[j] = R[k][j]
    <2> SUFFICES ASSUME NEW k \in 0..n
                 PROVE  /\ Len(R[k]) \in Nat /\ Len(R[k]) <= Len(rows)
                        /\ \A j \in 1..Len(R[k]) : rows[j] = R[k][j]
      OBVIOUS
    <2>1. Len(R[k]) <= Len(R[n]) /\ \A j \in 1..Len(R[k]) : R[n][j] = R[k][j]
      BY <1>1, <1>6, <1>7, RowsBegin
    <2>2. R[k] \in Seq(FileRow) /\ rows = R[n]
      BY <1>2
    <2> QED
      BY <2>1, <2>2
  <1>11. \A p \in Nat : IsFiniteSet(D(p)) /\ Cardinality(D(p)) \in Nat
    <2> SUFFICES ASSUME NEW p \in Nat PROVE IsFiniteSet(D(p)) /\ Cardinality(D(p)) \in Nat
      OBVIOUS
    <2>1. D(p) \subseteq 1..Len(rows)
      BY <1>9
    <2> HIDE DEF D
    <2>2. IsFiniteSet(1..Len(rows))
      BY <1>3, FS_Interval
    <2> QED
      BY <2>1, <2>2, FS_Subset, FS_CardinalityType
  <1> DEFINE Good == {k \in 0..n : /\ P[Len(R[k])] = K[k]
                                   /\ Cardinality(D(Len(R[k]))) = Len(K[k])
                                   /\ Len(R[k]) = Len(K[k]) + 2 * (k - Len(K[k]))}
  <1>12. 0 \in Good
    <2>1. R[0] = <<>> /\ K[0] = <<>> /\ P[0] = <<>> /\ Len(<<>>) = 0
      BY <1>2, <1>4, <1>5
    <2>2. D(0) = {}
      <3>1. \A j \in 1..Len(rows) : ~(j <= 0)
        BY <1>3
      <3> QED
        BY <3>1, <1>9
    <2> HIDE DEF D
    <2>3. Cardinality(D(0)) = 0
      BY <2>2, FS_EmptySet
    <2>4. Len(R[0]) = 0 /\ Len(K[0]) = 0
      BY <2>1
    <2>5. P[Len(R[0])] = K[0] /\ Cardinality(D(Len(R[0]))) = Len(K[0])
      BY <2>1, <2>3, <2>4
    <2>6. Len(R[0]) = Len(K[0]) + 2 * (0 - Len(K[0]))
      BY <2>4
    <2>7. 0 \in 0..n
      BY <1>1
    <2> QED
      BY <2>5, <2>6, <2>7, Zenon
  <1>13. ASSUME NEW k \in 0..n - 1, k \in Good PROVE k + 1 \in Good
    <2> DEFINE r == records[k + 1]
               l == Len(R[k])
    <2>1. k + 1 \in 1..n /\ (k + 1) - 1 = k /\ k \in 0..n /\ k + 1 \in 0..n /\ k \in Nat
      BY <1>1
    <2>2. r \in Records
      BY <2>1 DEF n
    <2>3. R[k + 1] = R[k] \o Rows(r) /\ R[k] \in Seq(FileRow) /\ K[k] \in Seq(Records)
      BY <1>2, <1>5, <2>1
    <2>4. l \in Nat /\ Len(K[k]) \in Nat
      BY <2>3
    <2>5. P[l] = K[k] /\ Cardinality(D(l)) = Len(K[k]) /\ l = Len(K[k]) + 2 * (k - Len(K[k]))
      BY <1>13
    <2>6. Len(R[k + 1]) \in Nat /\ Len(R[k + 1]) <= Len(rows)
          /\ \A j \in 1..Len(R[k + 1]) : rows[j] = R[k + 1][j]
      BY <1>10, <2>1
    <2>7. CASE r.input.gap = "newline"
      <3>1. PICK row \in FileRow : Rows(r) = <<Broken, row>> /\ row.kind = "row" /\ Reconvert(row) = Thrown
        BY <2>2, <2>7, RowsOfRecord
      <3>2. Len(R[k + 1]) = l + 2 /\ R[k + 1][l + 1] = Broken /\ R[k + 1][l + 2] = row
        <4>1. <<Broken, row>> \in Seq(FileRow) /\ Len(<<Broken, row>>) = 2
              /\ <<Broken, row>>[1] = Broken /\ <<Broken, row>>[2] = row
          BY DEF FileRow
        <4> QED
          BY <4>1, <2>3, <3>1, Concatenated
      <3> HIDE DEF l, r
      <3>3. rows[l + 1] = Broken /\ rows[l + 2] = row /\ l + 1 \in Nat /\ l + 2 \in Nat
            /\ l + 1 \in 1..Len(rows) /\ l + 2 \in 1..Len(rows)
        BY <3>2, <2>4, <2>6, <1>3
      <3>4. Broken.kind # "row"
        BY DEF Broken
      <3>5. l + 1 \notin done /\ l + 2 \notin done
        BY <3>1, <3>3, <3>4, <1>8
      <3>6. P[l + 2] = P[l]
        <4>1. (l + 1) - 1 = l /\ (l + 2) - 1 = l + 1
          BY <2>4
        <4> QED
          BY <1>4, <3>3, <3>5, <4>1
      <3>7. D(l + 2) = D(l)
        <4>1. \A j \in done : j \in Nat /\ (j <= l + 2 <=> j <= l \/ j = l + 1 \/ j = l + 2)
          BY <1>9, <2>4
        <4> QED
          BY <4>1, <3>5
      <3>8. K[k + 1] = K[k]
        BY <1>5, <2>1, <2>7 DEF r
      <3> HIDE DEF D
      <3> QED
        BY <3>2, <3>6, <3>7, <3>8, <2>1, <2>4, <2>5
    <2>8. CASE r.input.gap # "newline"
      <3>1. PICK row \in FileRow : /\ Rows(r) = <<row>> /\ row.kind = "row" /\ Reconvert(row) # Thrown
                                   /\ RecordOf(row) = [r EXCEPT !.input.gap = "none"]
        BY <2>2, <2>8, RowsOfRecord
      <3>2. Len(R[k + 1]) = l + 1 /\ R[k + 1][l + 1] = row
        <4>1. <<row>> \in Seq(FileRow) /\ Len(<<row>>) = 1 /\ <<row>>[1] = row
          OBVIOUS
        <4> QED
          BY <4>1, <2>3, <3>1, Concatenated
      <3> HIDE DEF l
      <3>3. rows[l + 1] = row /\ l + 1 \in Nat /\ l + 1 \in 1..Len(rows) /\ (l + 1) - 1 = l
        BY <3>2, <2>4, <2>6, <1>3
      <3>4. l + 1 \in done
        BY <3>1, <3>3, <1>8
      <3>5. K[k + 1] = Append(K[k], [r EXCEPT !.input.gap = "none"])
        BY <1>5, <2>1, <2>8
      <3> HIDE DEF r
      <3>6. P[l + 1] = K[k + 1]
        BY <1>4, <3>1, <3>3, <3>4, <3>5, <2>5
      <3>7. D(l + 1) = D(l) \cup {l + 1} /\ l + 1 \notin D(l)
        <4>1. \A j \in done : j \in Nat /\ (j <= l + 1 <=> j <= l \/ j = l + 1)
          BY <1>9, <2>4
        <4> QED
          BY <4>1, <3>4, <2>4
      <3>8. Len(K[k + 1]) = Len(K[k]) + 1
        BY <3>5, <2>3
      <3> HIDE DEF D
      <3>9. Cardinality(D(l + 1)) = Cardinality(D(l)) + 1
        BY <3>7, <2>4, <1>11, FS_AddElement
      <3> QED
        BY <3>2, <3>6, <3>8, <3>9, <2>1, <2>4, <2>5
    <2> QED
      BY <2>7, <2>8
  <1>14. n \in Good
    <2>1. 0..n \subseteq Good
      <3> HIDE DEF Good
      <3> QED
        BY <1>1, <1>12, <1>13, IntervalInduction
    <2> HIDE DEF Good
    <2> QED
      BY <2>1, <1>1
  <1>15. D(Len(rows)) = done
    <2>1. \A j \in 1..Len(rows) : j <= Len(rows)
      BY <1>3
    <2> QED
      BY <2>1, <1>9
  <1>16. Len(Kept(records)) \in Nat
    BY <1>1, <1>5
  <1>17. /\ InOrder(rows, done) = Kept(records)
         /\ Len(rows) - Cardinality(done) = 2 * (n - Len(Kept(records)))
    <2>1. rows = R[n] /\ InOrder(rows, done) = P[Len(rows)] /\ Kept(records) = K[n]
      BY <1>2, <1>4, <1>5
    <2> HIDE DEF D
    <2>2. /\ P[Len(rows)] = K[n] /\ Cardinality(D(Len(rows))) = Len(K[n])
          /\ Len(rows) = Len(K[n]) + 2 * (n - Len(K[n]))
      BY <2>1, <1>14
    <2> QED
      BY <2>1, <2>2, <1>1, <1>15, <1>16
  <1> QED
    BY <1>17 DEF rows, done, n

-----------------------------------------------------------------------------
(* The initial state and each step keep the invariant.                     *)

(* The parts of a trial.                                                   *)
LEMMA TrialParts ==
  ASSUME NEW t \in Trials
  PROVE  /\ t.inputs \subseteq Inputs
         /\ "Base10" \in t.radices /\ "Base3Balanced" \in t.radices /\ t.radices \subseteq Radices
         /\ t.lengths \subseteq Nat /\ t.orders \subseteq BOOLEAN
         /\ t.edits \in Nat /\ t.imports \in Nat
         /\ t.files \subseteq Files
  <1>1. <<>> \in Seq(Records)
    OBVIOUS
  <1> QED
    BY TrialsAssumption, <1>1 DEF Files

LEMMA Lengths ==
  ASSUME NEW radix
  PROVE  FixedLengthOptions(radix) \subseteq Nat
  BY DEF FixedLengthOptions

LEMMA InitPage == Init => PageInv
  <1> SUFFICES ASSUME Init PROVE PageInv
    OBVIOUS
  <1>1. trial \in Trials
    BY DEF Init
  <1>2. SettingsInv
    <2>1. "Base10" \in Radices /\ "Base3Balanced" \in Radices
      BY DEF Radices
    <2> QED
      BY <1>1, <2>1, TrialParts DEF Init, SettingsInv
  <1>3. ListsInv
    BY <1>1, TrialParts DEF Init, ListsInv
  <1>4. ErrorsInv
    BY DEF Init, ErrorsInv, Listed, BeingRead
  <1> QED
    BY <1>2, <1>3, <1>4 DEF PageInv

(* What a change of the input or of a setting leaves: settings the page    *)
(* offers, and one more record at most.                                    *)
LEMMA EditStep ==
  ASSUME PageInv, Edit,
         settings' \in [from : Radices, to : Radices, lsdFirst : BOOLEAN, input : Nat, output : Nat],
         settings'.from \in trial.radices, settings'.to \in trial.radices,
         settings'.input \in FixedLengthOptions(settings'.from) \cup {0},
         settings'.output \in FixedLengthOptions(settings'.to) \cup {0},
         inputValue' \in trial.inputs \cup {NoInput}
  PROVE  PageInv'
  <1>1. UNCHANGED <<trial, importErrors, imports, files>>
    BY DEF Edit
  <1>2. trial \in Trials
    BY DEF PageInv, ListsInv
  <1>3. SettingsInv'
    <2>1. edits' \in Nat /\ edits' <= trial.edits
      BY <1>2, TrialParts DEF PageInv, SettingsInv, Edit
    <2> QED
      BY <1>1, <2>1 DEF SettingsInv
  <1>4. history' \in Seq(Records)
    <2> DEFINE output == Convert(inputValue'.text, settings'.from, settings'.to, Options(settings'))
    <2>1. history \in Seq(Records)
      BY DEF PageInv, ListsInv
    <2>2. history' = IF output \in {<<>>, Thrown} THEN history
                     ELSE Append(history, Record(inputValue', output, settings'))
      BY DEF Edit, Recalculate
    <2>3. inputValue' \in Inputs
      <3>1. NoInput \in Inputs
        BY DEF Inputs, NoInput
      <3>2. trial.inputs \subseteq Inputs
        BY <1>2, TrialParts
      <3> QED
        BY <3>1, <3>2
    <2> HIDE DEF output
    <2>4. output # Thrown => Record(inputValue', output, settings') \in Records
      BY <2>3, RecordIsGood DEF output
    <2> QED
      BY <2>1, <2>2, <2>4
  <1>5. ListsInv'
    BY <1>1, <1>4 DEF PageInv, ListsInv
  <1>6. ErrorsInv'
    BY <1>1 DEF PageInv, ErrorsInv, Listed, ErrorsOf, BeingRead
  <1> QED
    BY <1>3, <1>5, <1>6 DEF PageInv

LEMMA SettingsSteps ==
  ASSUME PageInv, Enter \/ PasteAsync \/ ChangeRadix \/ ChangeOrder \/ ChangeLength
  PROVE  PageInv'
  <1>1. /\ trial \in Trials /\ SettingsInv
        /\ settings \in [from : Radices, to : Radices, lsdFirst : BOOLEAN, input : Nat, output : Nat]
    BY DEF PageInv, ListsInv, SettingsInv
  <1>2. CASE Enter \/ PasteAsync
    <2>1. inputValue' \in trial.inputs /\ settings' = settings /\ Edit
      BY <1>2 DEF Enter, PasteAsync
    <2> QED
      BY <2>1, <1>1, EditStep DEF SettingsInv
  <1>3. CASE ChangeRadix
    <2>1. PICK from, to \in trial.radices :
            OnSettingChanged(from, to) /\ UNCHANGED inputValue /\ Edit
      BY <1>3 DEF ChangeRadix
    <2>2. from \in Radices /\ to \in Radices
      BY <1>1, TrialParts
    <2>3. /\ settings' \in [from : Radices, to : Radices, lsdFirst : BOOLEAN, input : Nat, output : Nat]
          /\ settings'.from = from /\ settings'.to = to
          /\ settings'.input \in FixedLengthOptions(from) \cup {0}
          /\ settings'.output \in FixedLengthOptions(to) \cup {0}
      BY <2>1, <2>2, <1>1 DEF OnSettingChanged
    <2> QED
      BY <2>1, <2>3, <1>1, EditStep DEF SettingsInv
  <1>4. CASE ChangeOrder
    <2>1. settings' = [settings EXCEPT !.lsdFirst = ~@] /\ UNCHANGED inputValue /\ Edit
      BY <1>4 DEF ChangeOrder
    <2>2. /\ settings' \in [from : Radices, to : Radices, lsdFirst : BOOLEAN, input : Nat, output : Nat]
          /\ settings'.from = settings.from /\ settings'.to = settings.to
          /\ settings'.input = settings.input /\ settings'.output = settings.output
      BY <2>1, <1>1
    <2> QED
      BY <2>1, <2>2, <1>1, EditStep DEF SettingsInv
  <1>5. CASE ChangeLength
    <2>1. PICK input \in FixedLengthOptions(settings.from) \cup {0}, output \in FixedLengthOptions(settings.to) \cup {0} :
            settings' = [settings EXCEPT !.input = input, !.output = output] /\ UNCHANGED inputValue /\ Edit
      BY <1>5 DEF ChangeLength
    <2>2. input \in Nat /\ output \in Nat
      BY Lengths
    <2>3. /\ settings' \in [from : Radices, to : Radices, lsdFirst : BOOLEAN, input : Nat, output : Nat]
          /\ settings'.from = settings.from /\ settings'.to = settings.to
          /\ settings'.input = input /\ settings'.output = output
      BY <2>1, <2>2, <1>1
    <2> QED
      BY <2>1, <2>3, <1>1, EditStep DEF SettingsInv
  <1> QED
    BY <1>2, <1>3, <1>4, <1>5

LEMMA DownloadStep ==
  ASSUME PageInv, DownloadHistoryAsync
  PROVE  PageInv'
  <1>1. /\ UNCHANGED <<trial, settings, inputValue, outputValue, history, importErrors, imports, edits>>
        /\ files' = {[rows |-> Serialize(history), saved |-> history]} \cup trial.files
    BY DEF DownloadHistoryAsync
  <1>2. trial \in Trials /\ history \in Seq(Records)
    BY DEF PageInv, ListsInv
  <1>3. Serialize(history) \in Seq(FileRow)
    <2>1. PICK R \in [0..Len(history) -> Seq(FileRow)] : Serialize(history) = R[Len(history)]
      BY <1>2, SerializeUnfolds
    <2>2. Len(history) \in 0..Len(history)
      BY <1>2
    <2> QED
      BY <2>1, <2>2
  <1>4. files' \subseteq Files
    BY <1>1, <1>2, <1>3, TrialParts DEF Files
  <1>5. SettingsInv' /\ ErrorsInv'
    BY <1>1 DEF PageInv, SettingsInv, ErrorsInv, Listed, ErrorsOf, BeingRead
  <1>6. ListsInv'
    BY <1>1, <1>4 DEF PageInv, ListsInv
  <1> QED
    BY <1>5, <1>6 DEF PageInv

LEMMA ImportStep ==
  ASSUME PageInv, ImportCsvAsync
  PROVE  PageInv'
  <1>1. PICK file \in files :
          /\ Len(imports) < trial.imports /\ importErrors' = <<>>
          /\ imports' = Append(imports, [file |-> file, state |-> "reading", during |-> BeingRead,
                                        imported |-> 0, skipped |-> 0])
          /\ UNCHANGED <<trial, settings, inputValue, outputValue, history, files, edits>>
    BY DEF ImportCsvAsync, Cleared
  <1>2. trial \in Trials /\ files \subseteq Files /\ imports \in Seq(Imports)
    BY DEF PageInv, ListsInv
  <1> DEFINE new == [file |-> file, state |-> "reading", during |-> BeingRead, imported |-> 0, skipped |-> 0]
             n == Len(imports)
  <1>3. n \in Nat /\ DOMAIN imports = 1..n /\ BeingRead \subseteq 1..n
    BY <1>2 DEF BeingRead
  <1>4. new \in Imports /\ new.during = BeingRead /\ new.state = "reading"
    BY <1>2, <1>3 DEF Imports
  <1>5. imports' = Append(imports, new)
    BY <1>1
  <1> HIDE DEF new
  <1>6. /\ imports' \in Seq(Imports) /\ DOMAIN imports' = 1..n + 1 /\ Len(imports') = n + 1
        /\ imports'[n + 1] = new /\ \A k \in 1..n : imports'[k] = imports[k]
    BY <1>2, <1>4, <1>5
  <1>7. SettingsInv'
    BY <1>1 DEF PageInv, SettingsInv
  <1>8. ListsInv'
    <2>1. n + 1 <= trial.imports
      BY <1>1, <1>2, <1>3, TrialParts
    <2> QED
      BY <1>1, <1>6, <2>1 DEF PageInv, ListsInv
  <1>9. ErrorsInv'
    <2>1. Listed' = {}
      BY <1>1 DEF Listed
    <2>2. BeingRead' \subseteq BeingRead \cup {n + 1}
      BY <1>3, <1>6 DEF BeingRead
    <2>3. ASSUME NEW b \in DOMAIN imports', NEW a \in BeingRead', a < b
          PROVE  a \in imports'[b].during
      <3>1. a \in BeingRead
        BY <2>2, <2>3, <1>3, <1>6
      <3>2. CASE b = n + 1
        BY <3>1, <3>2, <1>4, <1>6
      <3>3. CASE b # n + 1
        <4>1. b \in DOMAIN imports /\ imports'[b] = imports[b]
          BY <3>3, <1>3, <1>6
        <4> QED
          BY <3>1, <4>1, <2>3 DEF PageInv, ErrorsInv
      <3> QED
        BY <3>2, <3>3
    <2> QED
      BY <2>1, <2>3 DEF ErrorsInv
  <1> QED
    BY <1>7, <1>8, <1>9 DEF PageInv

LEMMA Replaced ==
  ASSUME NEW S, NEW s \in Seq(S), NEW k \in DOMAIN s, NEW e \in S
  PROVE  LET t == [s EXCEPT ![k] = e]
         IN  /\ t \in Seq(S) /\ DOMAIN t = DOMAIN s /\ Len(t) = Len(s)
             /\ t[k] = e /\ \A a \in DOMAIN s : a # k => t[a] = s[a]
  OBVIOUS

LEMMA ReadFailsStep ==
  ASSUME PageInv, ReadFails
  PROVE  PageInv'
  <1>1. PICK k \in BeingRead :
          /\ imports' = [imports EXCEPT ![k].state = "failed"]
          /\ UNCHANGED <<trial, settings, inputValue, outputValue, history, importErrors, files, edits>>
    BY DEF ReadFails
  <1>2. trial \in Trials /\ imports \in Seq(Imports) /\ k \in DOMAIN imports /\ imports[k].state = "reading"
    BY DEF PageInv, ListsInv, BeingRead
  <1>3. /\ imports' \in Seq(Imports) /\ DOMAIN imports' = DOMAIN imports /\ Len(imports') = Len(imports)
        /\ imports'[k].state = "failed" /\ imports'[k].during = imports[k].during
        /\ \A a \in DOMAIN imports : a # k => imports'[a] = imports[a]
    <2> DEFINE e == [imports[k] EXCEPT !.state = "failed"]
    <2>1. imports[k] \in Imports
      BY <1>2
    <2>2. e \in Imports /\ e.state = "failed" /\ e.during = imports[k].during
      BY <2>1 DEF Imports
    <2>3. imports' = [imports EXCEPT ![k] = e]
      BY <1>1
    <2> HIDE DEF e
    <2> QED
      BY <2>2, <2>3, <1>2, Replaced
  <1>4. SettingsInv' /\ ListsInv'
    BY <1>1, <1>3 DEF PageInv, SettingsInv, ListsInv
  <1>5. ErrorsInv'
    <2>1. Listed' = Listed /\ \A a : ErrorsOf(a)' = ErrorsOf(a)
      BY <1>1 DEF Listed, ErrorsOf
    <2>2. BeingRead' \subseteq BeingRead
      BY <1>3 DEF BeingRead
    <2>3. k \notin Listed
      BY <1>2 DEF PageInv, ErrorsInv
    <2>4. \A a \in Listed : /\ a \in DOMAIN imports /\ imports[a].state = "read"
                            /\ Cardinality(ErrorsOf(a)) = imports[a].skipped
      BY DEF PageInv, ErrorsInv
    <2>5. \A a \in Listed' : /\ a \in DOMAIN imports' /\ imports'[a].state = "read"
                             /\ Cardinality(ErrorsOf(a)') = imports'[a].skipped
      BY <2>1, <2>3, <2>4, <1>3
    <2>6. \A b \in DOMAIN imports' : \A a \in Listed' \cup BeingRead' : a < b => a \in imports'[b].during
      <3>1. \A b \in DOMAIN imports' : imports'[b].during = imports[b].during
        BY <1>3
      <3> QED
        BY <3>1, <2>1, <2>2, <1>3 DEF PageInv, ErrorsInv
    <2> QED
      BY <2>5, <2>6 DEF ErrorsInv
  <1> QED
    BY <1>4, <1>5 DEF PageInv

LEMMA CloseStep ==
  ASSUME PageInv, CloseErrors
  PROVE  PageInv'
  <1>1. importErrors' = <<>>
        /\ UNCHANGED <<trial, settings, inputValue, outputValue, history, imports, files, edits>>
    BY DEF CloseErrors
  <1>2. SettingsInv' /\ ListsInv'
    BY <1>1 DEF PageInv, SettingsInv, ListsInv
  <1>3. ErrorsInv'
    <2>1. Listed' = {} /\ BeingRead' = BeingRead
      BY <1>1 DEF Listed, BeingRead
    <2> QED
      BY <2>1, <1>1 DEF PageInv, ErrorsInv
  <1> QED
    BY <1>2, <1>3 DEF PageInv

(* The rows of a file that fail, counted.                                  *)
LEMMA Skipped ==
  ASSUME NEW rows \in Seq(FileRow)
  PROVE  /\ Cardinality(Imported(rows)) \in Nat
         /\ Len(rows) - Cardinality(Imported(rows)) \in Nat
         /\ InOrder(rows, Imported(rows)) \in Seq(Records)
  <1>1. Len(rows) \in Nat /\ Imported(rows) \subseteq 1..Len(rows)
    BY DEF Imported
  <1>2. IsFiniteSet(1..Len(rows)) /\ Cardinality(1..Len(rows)) = Len(rows)
    <2>1. Cardinality(1..Len(rows)) = IF 1 > Len(rows) THEN 0 ELSE Len(rows) - 1 + 1
      BY <1>1, FS_Interval
    <2> QED
      BY <1>1, <2>1, FS_Interval
  <1>3. IsFiniteSet(Imported(rows)) /\ Cardinality(Imported(rows)) <= Len(rows)
    BY <1>1, <1>2, FS_Subset
  <1>4. Cardinality(Imported(rows)) \in Nat
    BY <1>3, FS_CardinalityType
  <1>5. PICK P \in [0..Len(rows) -> Seq(Records)] : InOrder(rows, Imported(rows)) = P[Len(rows)]
    BY InOrderUnfolds
  <1>6. InOrder(rows, Imported(rows)) \in Seq(Records)
    BY <1>1, <1>5
  <1> QED
    BY <1>1, <1>3, <1>4, <1>6

(* The records and errors of an import that was read are all its own.      *)
LEMMA FinishStep ==
  ASSUME PageInv, FinishImport
  PROVE  PageInv'
  <1> DEFINE rowsOf(k) == imports[k].file.rows
             countOf(k) == Cardinality(Imported(rowsOf(k)))
             skippedOf(k) == Len(rowsOf(k)) - countOf(k)
  <1>1. PICK k \in BeingRead :
          /\ history' = history \o InOrder(rowsOf(k), Imported(rowsOf(k)))
          /\ importErrors' = importErrors \o [j \in 1..skippedOf(k) |-> k]
          /\ imports' = [imports EXCEPT ![k].state = "read", ![k].imported = countOf(k),
                                        ![k].skipped = skippedOf(k)]
          /\ UNCHANGED <<trial, settings, inputValue, outputValue, files, edits>>
    BY DEF FinishImport
  <1>2. /\ trial \in Trials /\ imports \in Seq(Imports) /\ importErrors \in Seq(Nat)
        /\ history \in Seq(Records) /\ k \in DOMAIN imports /\ k \in Nat
        /\ imports[k].state = "reading" /\ imports[k] \in Imports
    BY DEF PageInv, ListsInv, BeingRead
  <1>3. rowsOf(k) \in Seq(FileRow)
    BY <1>2 DEF Imports, Files
  <1> DEFINE skipped == skippedOf(k)
             count == countOf(k)
             errors == [j \in 1..skipped |-> k]
             n == Len(importErrors)
  <1>4. skipped \in Nat /\ count \in Nat /\ InOrder(rowsOf(k), Imported(rowsOf(k))) \in Seq(Records)
    BY <1>3, Skipped
  <1>5. history' \in Seq(Records)
    BY <1>1, <1>2, <1>4
  <1>6. imports' = [imports EXCEPT ![k].state = "read", ![k].imported = count, ![k].skipped = skipped]
        /\ importErrors' = importErrors \o errors
    BY <1>1
  <1> HIDE DEF skipped, count, rowsOf, countOf, skippedOf
  <1>7. /\ imports' \in Seq(Imports) /\ DOMAIN imports' = DOMAIN imports /\ Len(imports') = Len(imports)
        /\ imports'[k].state = "read" /\ imports'[k].skipped = skipped
        /\ imports'[k].during = imports[k].during
        /\ \A a \in DOMAIN imports : a # k => imports'[a] = imports[a]
    <2> DEFINE e == [imports[k] EXCEPT !.state = "read", !.imported = count, !.skipped = skipped]
    <2>1. /\ e \in Imports /\ e.state = "read" /\ e.skipped = skipped
          /\ e.during = imports[k].during
      BY <1>2, <1>4 DEF Imports
    <2>2. imports' = [imports EXCEPT ![k] = e]
      BY <1>6
    <2> HIDE DEF e
    <2> QED
      BY <2>1, <2>2, <1>2, Replaced
  <1>8. errors \in Seq(Nat) /\ Len(errors) = skipped /\ \A j \in 1..skipped : errors[j] = k
    BY <1>2, <1>4
  <1> HIDE DEF errors
  <1>9. /\ n \in Nat /\ DOMAIN importErrors = 1..n
        /\ importErrors' \in Seq(Nat) /\ DOMAIN importErrors' = 1..n + skipped
        /\ \A j \in 1..n : importErrors'[j] = importErrors[j]
        /\ \A j \in 1..n + skipped : j \notin 1..n => importErrors'[j] = k
    <2>1. Len(importErrors') = n + skipped /\ importErrors' \in Seq(Nat) /\ n \in Nat
      <3>1. Len(importErrors \o errors) = n + Len(errors) /\ importErrors \o errors \in Seq(Nat)
        BY <1>2, <1>8, Concatenated
      <3> QED
        BY <3>1, <1>2, <1>6, <1>8
    <2>2. ASSUME NEW j \in 1..n + skipped, j \notin 1..n PROVE importErrors'[j] = k
      <3>1. j - n \in 1..skipped /\ j = n + (j - n)
        BY <2>1, <2>2, <1>4
      <3> QED
        BY <3>1, <1>2, <1>6, <1>8, Concatenated
    <2>3. \A j \in 1..n : importErrors'[j] = importErrors[j]
      BY <1>2, <1>6, <1>8, Concatenated
    <2> QED
      BY <2>1, <2>2, <2>3, <1>2
  <1>10. SettingsInv' /\ ListsInv'
    BY <1>1, <1>5, <1>7, <1>9 DEF PageInv, SettingsInv, ListsInv
  <1>11. ErrorsInv'
    <2>1. \A a \in Listed : /\ a \in DOMAIN imports /\ imports[a].state = "read"
                            /\ Cardinality(ErrorsOf(a)) = imports[a].skipped
      BY DEF PageInv, ErrorsInv
    <2>2. k \notin Listed
      BY <2>1, <1>2
    <2>3. Listed' \subseteq Listed \cup {k}
      BY <1>9 DEF Listed
    <2>4. BeingRead' \subseteq BeingRead
      BY <1>7 DEF BeingRead
    <2>5. ASSUME NEW a \in Listed'
          PROVE  /\ a \in DOMAIN imports' /\ imports'[a].state = "read"
                 /\ Cardinality(ErrorsOf(a)') = imports'[a].skipped
      <3>1. CASE a = k
        <4>1. \A j \in 1..n : importErrors[j] # k
          BY <2>2, <1>9 DEF Listed
        <4>2. ErrorsOf(a)' = n + 1..n + skipped
          BY <3>1, <4>1, <1>4, <1>9 DEF ErrorsOf
        <4>3. Cardinality(n + 1..n + skipped) = skipped
          <5>1. n + 1 \in Int /\ n + skipped \in Int /\ (n + skipped) - (n + 1) + 1 = skipped
            BY <1>4, <1>9
          <5>2. Cardinality(n + 1..n + skipped) =
                  IF n + 1 > n + skipped THEN 0 ELSE (n + skipped) - (n + 1) + 1
            BY <5>1, FS_Interval
          <5> QED
            BY <5>1, <5>2, <1>4, <1>9
        <4> QED
          BY <3>1, <4>2, <4>3, <1>2, <1>7
      <3>2. CASE a # k
        <4>1. a \in Listed
          BY <3>2, <2>3
        <4>2. ErrorsOf(a)' = ErrorsOf(a)
          BY <3>2, <1>4, <1>9 DEF ErrorsOf
        <4> QED
          BY <3>2, <4>1, <4>2, <2>1, <1>7
      <3> QED
        BY <3>1, <3>2
    <2>6. \A b \in DOMAIN imports' : \A a \in Listed' \cup BeingRead' : a < b => a \in imports'[b].during
      <3>1. \A b \in DOMAIN imports' : imports'[b].during = imports[b].during
        BY <1>7
      <3>2. Listed' \cup BeingRead' \subseteq Listed \cup BeingRead
        BY <2>3, <2>4
      <3> QED
        BY <3>1, <3>2, <1>7 DEF PageInv, ErrorsInv
    <2> QED
      BY <2>5, <2>6 DEF ErrorsInv
  <1> QED
    BY <1>10, <1>11 DEF PageInv

LEMMA NextPage == PageInv /\ [Next]_vars => PageInv'
  <1> SUFFICES ASSUME PageInv, [Next]_vars PROVE PageInv'
    OBVIOUS
  <1>1. CASE Enter \/ PasteAsync \/ ChangeRadix \/ ChangeOrder \/ ChangeLength
    BY <1>1, SettingsSteps
  <1>2. CASE DownloadHistoryAsync
    BY <1>2, DownloadStep
  <1>3. CASE ImportCsvAsync
    BY <1>3, ImportStep
  <1>4. CASE ReadFails
    BY <1>4, ReadFailsStep
  <1>5. CASE FinishImport
    BY <1>5, FinishStep
  <1>6. CASE CloseErrors
    BY <1>6, CloseStep
  <1>7. CASE UNCHANGED vars
    <2>1. UNCHANGED <<trial, settings, inputValue, outputValue, history, importErrors, imports, files, edits>>
      BY <1>7 DEF vars
    <2>2. SettingsInv' /\ ListsInv'
      BY <2>1 DEF PageInv, SettingsInv, ListsInv
    <2>3. ErrorsInv'
      BY <2>1 DEF PageInv, ErrorsInv, Listed, ErrorsOf, BeingRead
    <2> QED
      BY <2>2, <2>3 DEF PageInv
  <1> QED
    BY <1>1, <1>2, <1>3, <1>4, <1>5, <1>6, <1>7 DEF Next

(* What the handlers of RadixConverter.razor rely on between their awaits  *)
(* holds in every state of the page.                                       *)
THEOREM PageInvHolds == Spec => []PageInv
  BY InitPage, NextPage, PTL DEF Spec

-----------------------------------------------------------------------------
(* The fields of RadixConverter.razor hold what they can: a length is one  *)
(* its radix offers (OnSettingChanged clears the others), and every record *)
(* of the history is of a conversion that succeeded.                       *)
THEOREM PageTyped == Spec => []TypeOK
  <1>1. PageInv => TypeOK
    <2> SUFFICES ASSUME PageInv PROVE TypeOK
      OBVIOUS
    <2>1. ASSUME NEW k \in DOMAIN history PROVE history[k].output # Thrown
      <3>1. history[k] \in Records
        BY DEF PageInv, ListsInv
      <3> QED
        BY <3>1, RecordParts
    <2>2. ASSUME NEW k \in DOMAIN importErrors PROVE importErrors[k] \in 1..Len(imports)
      <3>1. importErrors[k] \in DOMAIN imports
        BY DEF PageInv, ErrorsInv, Listed
      <3> QED
        BY <3>1 DEF PageInv, ListsInv
    <2> QED
      BY <2>1, <2>2 DEF TypeOK, PageInv, SettingsInv, ListsInv
  <1> QED
    BY <1>1, PageInvHolds, PTL

(* The error list of RadixConverter.razor is of one import, or of imports  *)
(* whose reading overlapped, and lists all their errors, for any number of *)
(* imports whose awaits interleave in any order.                           *)
THEOREM ErrorsAreOfOneImport == Spec => []ErrorsOfOneImport
  <1>1. PageInv => ErrorsOfOneImport
    <2> SUFFICES ASSUME PageInv, NEW a \in Listed, NEW b \in Listed
                 PROVE  /\ Cardinality(ErrorsOf(a)) = imports[a].skipped
                        /\ a < b => a \in imports[b].during
      BY DEF ErrorsOfOneImport, Listed, ErrorsOf
    <2> QED
      BY DEF PageInv, ErrorsInv
  <1> QED
    BY <1>1, PageInvHolds, PTL

-----------------------------------------------------------------------------
(* A file that was saved has the rows of the history it was saved of.      *)
IsSaved(file) == file.saved # <<>> => file.rows = Serialize(file.saved)

SavedInv ==
  /\ \A file \in files : IsSaved(file)
  /\ \A k \in DOMAIN imports : IsSaved(imports[k].file)

LEMMA TrialFilesSaved ==
  ASSUME NEW t \in Trials, NEW file \in t.files
  PROVE  IsSaved(file)
  <1>1. file.saved = <<>>
    BY TrialsAssumption
  <1> QED
    BY <1>1 DEF IsSaved

LEMMA InitSaved == Init => SavedInv
  <1> SUFFICES ASSUME Init PROVE SavedInv
    OBVIOUS
  <1>1. trial \in Trials /\ files = trial.files /\ imports = <<>>
    BY DEF Init
  <1> QED
    BY <1>1, TrialFilesSaved DEF SavedInv

(* A file that is being read stays the file that was chosen.               *)
LEMMA ImportsStep ==
  ASSUME PageInv, [Next]_vars
  PROVE  \/ imports' = imports
         \/ /\ ImportCsvAsync
            /\ DOMAIN imports' = 1..Len(imports) + 1 /\ imports'[Len(imports) + 1].file \in files
            /\ \A k \in DOMAIN imports : imports'[k] = imports[k]
         \/ /\ ReadFails
            /\ DOMAIN imports' = DOMAIN imports
            /\ \A k \in DOMAIN imports : imports'[k].file = imports[k].file
            /\ \A k \in DOMAIN imports : imports'[k] = imports[k] \/ imports'[k].state = "failed"
         \/ \E k \in BeingRead :
              LET rows == imports[k].file.rows
              IN  /\ DOMAIN imports' = DOMAIN imports
                  /\ history' = history \o InOrder(rows, Imported(rows))
                  /\ imports'[k].skipped = Len(rows) - Cardinality(Imported(rows))
                  /\ UNCHANGED files
                  /\ imports'[k].file = imports[k].file
                  /\ \A j \in DOMAIN imports : j # k => imports'[j] = imports[j]
  <1>1. imports \in Seq(Imports)
    BY DEF PageInv, ListsInv
  <1>2. CASE ImportCsvAsync
    <2>1. PICK file \in files :
            imports' = Append(imports, [file |-> file, state |-> "reading", during |-> BeingRead,
                                        imported |-> 0, skipped |-> 0])
      BY <1>2 DEF ImportCsvAsync
    <2> DEFINE new == [file |-> file, state |-> "reading", during |-> BeingRead, imported |-> 0, skipped |-> 0]
    <2>2. new \in Imports /\ new.file = file
      <3>1. file \in Files
        BY DEF PageInv, ListsInv
      <3>2. BeingRead \subseteq Nat
        BY <1>1 DEF BeingRead
      <3> QED
        BY <3>1, <3>2 DEF Imports
    <2>3. imports' = Append(imports, new)
      BY <2>1
    <2> HIDE DEF new
    <2>4. /\ DOMAIN imports' = 1..Len(imports) + 1 /\ imports'[Len(imports) + 1] = new
          /\ \A k \in DOMAIN imports : imports'[k] = imports[k]
      BY <1>1, <2>2, <2>3
    <2> QED
      BY <1>2, <2>2, <2>4
  <1>3. CASE ReadFails
    <2>1. PICK k \in BeingRead : imports' = [imports EXCEPT ![k].state = "failed"]
      BY <1>3 DEF ReadFails
    <2> DEFINE e == [imports[k] EXCEPT !.state = "failed"]
    <2>2. k \in DOMAIN imports /\ imports[k] \in Imports
      BY <1>1 DEF BeingRead
    <2>3. e \in Imports /\ e.state = "failed" /\ e.file = imports[k].file
      BY <2>2 DEF Imports
    <2>4. imports' = [imports EXCEPT ![k] = e]
      BY <2>1
    <2> HIDE DEF e
    <2>5. /\ DOMAIN imports' = DOMAIN imports /\ imports'[k] = e
          /\ \A j \in DOMAIN imports : j # k => imports'[j] = imports[j]
      BY <1>1, <2>2, <2>3, <2>4, Replaced
    <2> QED
      BY <1>3, <2>3, <2>5
  <1>4. CASE FinishImport
    <2> DEFINE rowsOf(k) == imports[k].file.rows
               countOf(k) == Cardinality(Imported(rowsOf(k)))
               skippedOf(k) == Len(rowsOf(k)) - countOf(k)
    <2>1. PICK k \in BeingRead :
            /\ history' = history \o InOrder(rowsOf(k), Imported(rowsOf(k)))
            /\ imports' = [imports EXCEPT ![k].state = "read", ![k].imported = countOf(k),
                                          ![k].skipped = skippedOf(k)]
            /\ UNCHANGED files
      BY <1>4 DEF FinishImport
    <2>2. k \in DOMAIN imports /\ imports[k] \in Imports
      BY <1>1 DEF BeingRead
    <2>3. rowsOf(k) \in Seq(FileRow)
      BY <2>2 DEF Imports, Files
    <2>4. countOf(k) \in Nat /\ skippedOf(k) \in Nat
      BY <2>3, Skipped
    <2> DEFINE e == [imports[k] EXCEPT !.state = "read", !.imported = countOf(k), !.skipped = skippedOf(k)]
    <2> HIDE DEF countOf, skippedOf
    <2>5. e \in Imports /\ e.skipped = skippedOf(k) /\ e.file = imports[k].file
      BY <2>2, <2>4 DEF Imports
    <2>6. imports' = [imports EXCEPT ![k] = e]
      BY <2>1
    <2> HIDE DEF e
    <2>7. /\ DOMAIN imports' = DOMAIN imports /\ imports'[k] = e
          /\ \A j \in DOMAIN imports : j # k => imports'[j] = imports[j]
      BY <1>1, <2>2, <2>5, <2>6, Replaced
    <2>8. imports'[k].skipped = Len(rowsOf(k)) - Cardinality(Imported(rowsOf(k)))
      BY <2>5, <2>7 DEF skippedOf, countOf
    <2> QED
      BY <2>1, <2>5, <2>7, <2>8
  <1>5. CASE \/ Enter \/ PasteAsync \/ ChangeRadix \/ ChangeOrder \/ ChangeLength
             \/ DownloadHistoryAsync \/ CloseErrors \/ UNCHANGED vars
    BY <1>5 DEF Enter, PasteAsync, ChangeRadix, ChangeOrder, ChangeLength, Edit,
                DownloadHistoryAsync, CloseErrors, vars
  <1> QED
    BY <1>2, <1>3, <1>4, <1>5 DEF Next

LEMMA NextSaved == PageInv /\ SavedInv /\ [Next]_vars => SavedInv'
  <1> SUFFICES ASSUME PageInv, SavedInv, [Next]_vars PROVE SavedInv'
    OBVIOUS
  <1>1. imports \in Seq(Imports) /\ trial \in Trials
    BY DEF PageInv, ListsInv
  <1>2. \A file \in files' : IsSaved(file)
    <2>1. CASE files' = files
      BY <2>1 DEF SavedInv
    <2>2. CASE DownloadHistoryAsync
      <3>1. files' = {[rows |-> Serialize(history), saved |-> history]} \cup trial.files
        BY <2>2 DEF DownloadHistoryAsync
      <3>2. IsSaved([rows |-> Serialize(history), saved |-> history])
        BY DEF IsSaved
      <3> QED
        BY <3>1, <3>2, <1>1, TrialFilesSaved
    <2>3. files' = files \/ DownloadHistoryAsync
      BY DEF Next, Enter, PasteAsync, ChangeRadix, ChangeOrder, ChangeLength, Edit,
             ImportCsvAsync, ReadFails, FinishImport, CloseErrors, vars
    <2> QED
      BY <2>1, <2>2, <2>3
  <1>3. \A k \in DOMAIN imports' : IsSaved(imports'[k].file)
    <2>1. \A k \in DOMAIN imports : IsSaved(imports[k].file)
      BY DEF SavedInv
    <2>2. \A k \in DOMAIN imports' :
            \/ k \in DOMAIN imports /\ imports'[k].file = imports[k].file
            \/ imports'[k].file \in files
      <3>1. DOMAIN imports = 1..Len(imports) /\ Len(imports) \in Nat
        BY <1>1
      <3> QED
        BY <3>1, ImportsStep
    <2> QED
      BY <2>1, <2>2 DEF SavedInv
  <1> QED
    BY <1>2, <1>3 DEF SavedInv

(* Whatever was converted, saved and imported before, and however long the *)
(* history is, ImportCsvAsync adds the records of a saved file as they     *)
(* were, but for those whose input has a line break: Serialize writes such *)
(* a record as two lines and Deserialize skips both.                       *)
THEOREM HistoryComesBack == Spec => SavedHistoryComesBack
  <1> DEFINE Back(k) ==
        (imports'[k].state = "read" /\ imports[k].file.saved # <<>>) =>
          /\ history' = history \o Kept(imports[k].file.saved)
          /\ imports'[k].skipped =
               2 * (Len(imports[k].file.saved) - Len(Kept(imports[k].file.saved)))
  <1>1. ASSUME PageInv, SavedInv, [Next]_vars, NEW k \in BeingRead PROVE Back(k)
    <2> SUFFICES ASSUME imports'[k].state = "read", imports[k].file.saved # <<>>
                 PROVE  /\ history' = history \o Kept(imports[k].file.saved)
                        /\ imports'[k].skipped =
                             2 * (Len(imports[k].file.saved) - Len(Kept(imports[k].file.saved)))
      OBVIOUS
    <2>1. k \in DOMAIN imports /\ imports[k].state = "reading" /\ imports[k] \in Imports
      BY <1>1 DEF BeingRead, PageInv, ListsInv
    <2> DEFINE saved == imports[k].file.saved
               rows == imports[k].file.rows
    <2>2. saved \in Seq(Records) /\ rows = Serialize(saved)
      BY <1>1, <2>1 DEF Imports, Files, SavedInv, IsSaved
    <2>3. /\ history' = history \o InOrder(rows, Imported(rows))
          /\ imports'[k].skipped = Len(rows) - Cardinality(Imported(rows))
      BY <1>1, <2>1, ImportsStep
    <2>4. /\ InOrder(rows, Imported(rows)) = Kept(saved)
          /\ Len(rows) - Cardinality(Imported(rows)) = 2 * (Len(saved) - Len(Kept(saved)))
      BY <2>2, SavedRows
    <2> QED
      BY <2>3, <2>4
  <1>2. PageInv /\ SavedInv /\ [Next]_vars => [\A k \in BeingRead : Back(k)]_vars
    BY <1>1
  <1>3. SavedHistoryComesBack <=> [][\A k \in BeingRead : Back(k)]_vars
    BY PTL DEF SavedHistoryComesBack
  <1> HIDE DEF Back
  <1> QED
    BY <1>2, <1>3, InitSaved, NextSaved, PageInvHolds, PTL DEF Spec

-----------------------------------------------------------------------------
(* What was converted.                                                     *)

(* The radices of balanced trits, and those whose sign has a weight.       *)
Balanced == {"Base3Balanced", "Base3BsdPnx"}
Signed == {"Base2Signed2C", "Base3Signed3C"}

(* The values that n digits hold, one kind of radix at a time.             *)
LEMMA RepresentableIs ==
  ASSUME NEW v, NEW radix, NEW n \in Nat
  PROVE  /\ n = 0 => (Representable(v, radix, n) <=> (radix \in Unsigned => v >= 0))
         /\ n # 0 /\ radix \in Unsigned =>
              (Representable(v, radix, n) <=> v \in 0..Power(Base(radix), n) - 1)
         /\ n # 0 /\ radix \in Complements =>
              (Representable(v, radix, n) <=> Magnitude(v) < Power(Base(radix), n - 1))
         /\ n # 0 /\ radix \in Signed =>
              (Representable(v, radix, n) <=> v >= -Power(Base(radix), n - 1) /\ v < Power(Base(radix), n - 1))
         /\ n # 0 /\ radix \in Balanced =>
              (Representable(v, radix, n) <=> 2 * Magnitude(v) < Power(3, n))
  <1>1. n # 0 => n > 0
    OBVIOUS
  <1>2. CASE n = 0
    BY <1>2 DEF Representable
  <1>3. CASE n # 0
    <2>1. CASE radix \in Unsigned
      <3>1. radix \notin Complements /\ radix \notin Signed /\ radix \notin Balanced
        BY <2>1 DEF Unsigned, Complements, Signed, Balanced
      <3> QED
        BY <1>1, <1>3, <2>1, <3>1 DEF Representable, Complements, Signed
    <2>2. CASE radix \in Complements
      <3>1. radix \notin Unsigned /\ radix \notin Signed /\ radix \notin Balanced
        BY <2>2 DEF Unsigned, Complements, Signed, Balanced
      <3> QED
        BY <1>1, <1>3, <2>2, <3>1 DEF Representable, Complements, Signed
    <2>3. CASE radix \in Signed
      <3>1. radix \notin Unsigned /\ radix \notin Complements /\ radix \notin Balanced
        BY <2>3 DEF Unsigned, Complements, Signed, Balanced
      <3> QED
        BY <1>1, <1>3, <2>3, <3>1 DEF Representable, Complements, Signed
    <2>4. CASE radix \in Balanced
      <3>1. radix \notin Unsigned /\ radix \notin Complements /\ radix \notin Signed
        BY <2>4 DEF Unsigned, Complements, Signed, Balanced
      <3> QED
        BY <1>1, <1>3, <2>4, <3>1 DEF Representable, Complements, Signed
    <2>5. CASE radix \notin Unsigned \cup Complements \cup Signed \cup Balanced
      BY <1>3, <2>5
    <2> QED
      BY <2>1, <2>2, <2>3, <2>4, <2>5
  <1> QED
    BY <1>2, <1>3

(* Only an unsigned radix refuses a value whatever the length: those below *)
(* zero.                                                                   *)
LEMMA FormatRefuses ==
  ASSUME NEW v \in Int, NEW radix \in Radices
  PROVE  Formatted(v, radix) = Thrown <=> radix \in Unsigned /\ v < 0
  <1>1. CASE radix \in Unsigned
    <2>1. CASE v < 0
      BY <1>1, <2>1 DEF Formatted, Unsigned
    <2>2. CASE ~(v < 0)
      <3>1. v \in Nat /\ 0 \in Nat
        BY <2>2
      <3>2. Formatted(v, radix) # Thrown
        BY <1>1, <3>1, UnsignedFormats
      <3> QED
        BY <2>2, <3>2
    <2> QED
      BY <2>1, <2>2
  <1>2. CASE radix \in Complements
    <2>1. Formatted(v, radix) # Thrown
      <3>1. 0 \in Nat
        OBVIOUS
      <3> QED
        BY <1>2, <3>1, ComplementFormats
    <2> QED
      BY <1>2, <2>1 DEF Complements, Unsigned
  <1>3. CASE radix = "Base2Signed2C"
    <2>1. Formatted(v, "Base2Signed2C") # Thrown
      <3>1. 0 \in Nat
        OBVIOUS
      <3> QED
        BY <3>1, TwosFormats
    <2> QED
      BY <1>3, <2>1 DEF Unsigned
  <1>4. CASE radix = "Base3Signed3C"
    <2>1. Formatted(v, Signed3C) # Thrown
      BY ThreesFormats
    <2> QED
      BY <1>4, <2>1 DEF Signed3C, Unsigned
  <1>5. CASE radix = "Base10"
    <2>1. Formatted(v, "Base10") # Thrown
      BY DecimalFormats
    <2> QED
      BY <1>5, <2>1 DEF Unsigned
  <1>6. CASE radix \in Balanced
    <2>1. PICK text \in Seq(TritChars) : text = FormatBalancedTernary(v) /\ text # <<>>
      <3>1. PICK text : text = FormatBalancedTernary(v)
        OBVIOUS
      <3>2. text \in Seq(TritChars) /\ Len(text) \in Nat \ {0}
        BY <3>1, BalancedWeighs
      <3> QED
        BY <3>1, <3>2
    <2>2. CASE radix = "Base3Balanced"
      <3>1. Reads(text, "Base3Balanced", Weigh(TritsOf(text), 3))
        BY <2>1, TritsRead
      <3>2. text # Thrown
        BY <3>1, TextIsNotThrown DEF Reads
      <3> QED
        BY <2>1, <2>2, <3>2 DEF Formatted, Unsigned
    <2>3. CASE radix = "Base3BsdPnx"
      <3>1. Reads(BitsOf(text), "Base3BsdPnx", Weigh(TritsOf(text), 3))
        BY <2>1, BitsRead
      <3>2. BitsOf(text) # Thrown
        BY <3>1, TextIsNotThrown DEF Reads
      <3> QED
        BY <2>1, <2>3, <3>2 DEF Formatted, Unsigned
    <2> QED
      BY <1>6, <2>2, <2>3 DEF Balanced
  <1> QED
    BY <1>1, <1>2, <1>3, <1>4, <1>5, <1>6 DEF Radices, Complements, Balanced

(* A value has too many digits for a fixed length only if the length does  *)
(* not hold it, or it is of the gap.                                       *)
LEMMA MisfitIs ==
  ASSUME NEW v \in Int, NEW radix \in Radices, NEW n \in Nat, n = 0 \/ radix # "Base10"
  PROVE  /\ Misfit(v, radix, n) =>
              \/ radix = "Base2Signed2C" /\ n > 0 /\ TwosComplementGap(v, n)
              \/ ~Representable(v, radix, n)
         /\ ~Misfit(v, radix, n) => Representable(v, radix, n)
  <1>1. CASE n = 0
    <2>1. Representable(v, radix, n) <=> (radix \in Unsigned => v >= 0)
      BY <1>1, RepresentableIs
    <2>2. Misfit(v, radix, n) <=> Formatted(v, radix) = Thrown
      BY <1>1 DEF Misfit
    <2>3. Formatted(v, radix) = Thrown <=> radix \in Unsigned /\ v < 0
      BY FormatRefuses
    <2>4. v < 0 <=> ~(v >= 0)
      OBVIOUS
    <2> QED
      BY <2>1, <2>2, <2>3, <2>4
  <1>2. CASE n # 0
    <2>0. n \in Nat \ {0} /\ n > 0 /\ n - 1 \in Nat
      BY <1>2
    <2>1. ASSUME radix \in Unsigned
          PROVE  Misfit(v, radix, n) <=> ~Representable(v, radix, n)
      <3>1. Representable(v, radix, n) <=> v \in 0..Power(Base(radix), n) - 1
        BY <1>2, <2>1, RepresentableIs
      <3>2. DigitCount(Formatted(v, radix), radix) = Len(Formatted(v, radix))
        BY <2>1 DEF DigitCount, Unsigned
      <3>3. CASE v < 0
        <4>1. Misfit(v, radix, n)
          BY <2>1, <3>3, FormatRefuses DEF Misfit
        <4>2. v \notin 0..Power(Base(radix), n) - 1
          BY <3>3
        <4> QED
          BY <3>1, <4>1, <4>2
      <3>4. CASE ~(v < 0)
        <4>1. v \in Nat /\ 0 \in Nat
          BY <3>4
        <4>2. PICK text : /\ text = Formatted(v, radix)
                          /\ Len(text) \in Nat \ {0} /\ text # Thrown
                          /\ \A m \in Nat \ {0} : Len(text) <= m <=> v < Power(Base(radix), m)
          BY <2>1, <4>1, UnsignedFormats
        <4>3. Base(radix) \in Nat /\ Base(radix) >= 2
          BY <2>1, Bases
        <4>4. PICK p \in Nat : p = Power(Base(radix), n)
          <5>1. Power(Base(radix), n) \in Nat
            BY <4>3, PowersGrow
          <5> QED
            BY <5>1
        <4>5. Len(text) <= n <=> v < p
          BY <2>0, <4>2, <4>4
        <4>6. v \in 0..p - 1 <=> v < p
          BY <4>1
        <4>7. Misfit(v, radix, n) <=> Len(text) > n
          BY <2>0, <3>2, <4>2 DEF Misfit
        <4>8. Len(text) > n <=> ~(Len(text) <= n)
          BY <4>2
        <4> QED
          BY <3>1, <4>4, <4>5, <4>6, <4>7, <4>8
      <3> QED
        BY <3>3, <3>4
    <2>2. ASSUME radix \in Complements
          PROVE  Misfit(v, radix, n) <=> ~Representable(v, radix, n)
      <3>1. Representable(v, radix, n) <=> Magnitude(v) < Power(Base(radix), n - 1)
        BY <1>2, <2>2, RepresentableIs
      <3>2. DigitCount(Formatted(v, radix), radix) = Len(Formatted(v, radix))
        BY <2>2 DEF DigitCount, Complements
      <3>3. PICK text : /\ text = Formatted(v, radix)
                        /\ Len(text) \in Nat \ {0} /\ text # Thrown
                        /\ \A m \in Nat \ {0} : Len(text) <= m <=> Magnitude(v) < Power(Base(radix), m - 1)
        <4>1. 0 \in Nat
          OBVIOUS
        <4> QED
          BY <2>2, <4>1, ComplementFormats
      <3>4. Len(text) <= n <=> Magnitude(v) < Power(Base(radix), n - 1)
        BY <2>0, <3>3
      <3>5. Misfit(v, radix, n) <=> Len(text) > n
        BY <2>0, <3>2, <3>3 DEF Misfit
      <3>6. Len(text) > n <=> ~(Len(text) <= n)
        BY <3>3
      <3> QED
        BY <3>1, <3>4, <3>5, <3>6
    <2>3. ASSUME radix \in Balanced
          PROVE  Misfit(v, radix, n) <=> ~Representable(v, radix, n)
      <3>1. Representable(v, radix, n) <=> 2 * Magnitude(v) < Power(3, n)
        BY <1>2, <2>3, RepresentableIs
      <3>2. PICK text : text = FormatBalancedTernary(v)
        OBVIOUS
      <3>3. /\ text \in Seq(TritChars) /\ Len(text) \in Nat \ {0}
            /\ \A m \in Nat \ {0} : Len(text) <= m <=> 2 * Magnitude(v) < Power(3, m)
        BY <3>2, BalancedWeighs
      <3>4. DigitCount(Formatted(v, radix), radix) = Len(text)
        <4>1. CASE radix = "Base3Balanced"
          <5>1. Formatted(v, radix) = text
            BY <3>2, <4>1 DEF Formatted, Unsigned
          <5> QED
            BY <4>1, <5>1 DEF DigitCount
        <4>2. CASE radix = "Base3BsdPnx"
          <5>1. Formatted(v, radix) = BitsOf(text)
            BY <3>2, <4>2 DEF Formatted, Unsigned
          <5>2. text # <<>>
            BY <3>3
          <5>3. DigitCount(BitsOf(text), "Base3BsdPnx") = Len(text)
            BY <3>3, <5>2, BitsRead
          <5> QED
            BY <4>2, <5>1, <5>3
        <4> QED
          BY <2>3, <4>1, <4>2 DEF Balanced
      <3>5. Formatted(v, radix) # Thrown
        BY <2>3, FormatRefuses DEF Balanced, Unsigned
      <3>6. Misfit(v, radix, n) <=> Len(text) > n
        BY <2>0, <3>4, <3>5 DEF Misfit
      <3>7. Len(text) <= n <=> 2 * Magnitude(v) < Power(3, n)
        BY <2>0, <3>3
      <3>8. Len(text) > n <=> ~(Len(text) <= n)
        BY <3>3
      <3> QED
        BY <3>1, <3>6, <3>7, <3>8
    <2>4. ASSUME radix = "Base3Signed3C"
          PROVE  Misfit(v, radix, n) <=> ~Representable(v, radix, n)
      <3>1. Base(radix) = 3 /\ radix \in Signed
        BY <2>4 DEF Base, Signed
      <3>2. Representable(v, radix, n) <=> Holds3C(v, n)
        <4>1. Representable(v, radix, n) <=> v >= -Power(Base(radix), n - 1) /\ v < Power(Base(radix), n - 1)
          BY <1>2, <3>1, RepresentableIs
        <4> QED
          BY <3>1, <4>1 DEF Holds3C
      <3>3. PICK text : text = Formatted(v, Signed3C)
        OBVIOUS
      <3>4. /\ Len(text) \in Nat \ {0} /\ text # Thrown
            /\ \A m \in Nat \ {0} : Len(text) <= m <=> Holds3C(v, m)
        BY <3>3, ThreesFormats
      <3>5. Formatted(v, radix) = text
        BY <2>4, <3>3 DEF Signed3C
      <3>6. DigitCount(text, radix) = Len(text)
        BY <2>4 DEF DigitCount
      <3>7. Misfit(v, radix, n) <=> Len(text) > n
        BY <2>0, <3>4, <3>5, <3>6 DEF Misfit
      <3>8. Len(text) <= n <=> Holds3C(v, n)
        BY <2>0, <3>4
      <3>9. Len(text) > n <=> ~(Len(text) <= n)
        BY <3>4
      <3> QED
        BY <3>2, <3>7, <3>8, <3>9
    <2>5. ASSUME radix = "Base2Signed2C"
          PROVE  /\ Misfit(v, radix, n) => TwosComplementGap(v, n) \/ ~Representable(v, radix, n)
                 /\ ~Misfit(v, radix, n) => Representable(v, radix, n)
      <3>1. Base(radix) = 2 /\ radix \in Signed
        BY <2>5 DEF Base, Signed
      <3>2. PICK p \in Nat : p = Power(2, n - 1)
        <4>1. Power(2, n - 1) \in Nat
          BY <2>0, TwosPowers
        <4> QED
          BY <4>1
      <3>3. Representable(v, radix, n) <=> v >= -p /\ v < p
        <4>1. Representable(v, radix, n) <=> v >= -Power(Base(radix), n - 1) /\ v < Power(Base(radix), n - 1)
          BY <1>2, <3>1, RepresentableIs
        <4> QED
          BY <3>1, <3>2, <4>1
      <3>4. PICK text : text = Formatted(v, "Base2Signed2C")
        OBVIOUS
      <3>5. /\ Len(text) \in Nat \ {0} /\ text # Thrown
            /\ \A m \in Nat \ {0} : Len(text) <= m => Magnitude(v) < Power(2, m - 1)
            /\ \A m \in Nat \ {0} :
                 m < Len(text) => Magnitude(v) >= Power(2, m - 1) \/ TooLong(Magnitude(v), m)
        <4>1. 0 \in Nat
          OBVIOUS
        <4> QED
          BY <3>4, <4>1, TwosFormats
      <3>6. Formatted(v, radix) = text
        BY <2>5, <3>4
      <3>7. DigitCount(text, radix) = Len(text)
        BY <2>5 DEF DigitCount
      <3>8. Misfit(v, radix, n) <=> n < Len(text)
        BY <2>0, <3>5, <3>6, <3>7 DEF Misfit
      <3>9. Len(text) <= n => Magnitude(v) < p
        BY <2>0, <3>2, <3>5
      <3>10. n < Len(text) => Magnitude(v) >= p \/ TooLong(Magnitude(v), n)
        BY <2>0, <3>2, <3>5
      <3>11. n < Len(text) <=> ~(Len(text) <= n)
        BY <3>5
      <3>12. Magnitude(v) = (IF v < 0 THEN -v ELSE v)
        BY DEF Magnitude
      <3>13. TooLong(Magnitude(v), n) => TwosComplementGap(v, n)
        BY DEF TooLong, TwosComplementGap
      <3>14. v = -p => TwosComplementGap(v, n)
        BY <3>2 DEF TwosComplementGap
      <3>15. Magnitude(v) < p => v >= -p /\ v < p
        BY <3>12
      <3>16. Magnitude(v) >= p => v = -p \/ ~(v >= -p /\ v < p)
        BY <3>12
      <3> QED
        BY <3>3, <3>8, <3>9, <3>10, <3>11, <3>13, <3>14, <3>15, <3>16
    <2>6. radix \in Unsigned \cup Complements \cup Balanced \cup {"Base3Signed3C", "Base2Signed2C"}
      BY <1>2 DEF Radices, Complements, Balanced
    <2> QED
      BY <2>0, <2>1, <2>2, <2>3, <2>4, <2>5, <2>6
  <1> QED
    BY <1>1, <1>2

(* Every record of the history reads back.                                 *)
THEOREM OutputsReadBack == Spec => []OutputReadsBack
  <1>1. PageInv => OutputReadsBack
    <2> SUFFICES ASSUME PageInv, NEW k \in DOMAIN history,
                        history[k].output # <<>>,
                        ~(history[k].length > 0 /\ history[k].to \in {"Base64Rfc4648", "Base10"})
                 PROVE  /\ Parses(MostSignificantFirst(history[k]), history[k].to)
                        /\ Parse(MostSignificantFirst(history[k]), history[k].to)
                             = Parse(history[k].input.text, history[k].from)
      BY DEF OutputReadsBack
    <2>1. PICK r : r = history[k]
      OBVIOUS
    <2>2. r \in Records
      BY <2>1 DEF PageInv, ListsInv
    <2>3. /\ r = Conversion(r.input, r.from, r.to, r.lsdFirst, r.length)
          /\ r.input \in Inputs /\ r.from \in Radices /\ r.to \in Radices
          /\ r.lsdFirst \in BOOLEAN /\ r.length \in Nat
          /\ r.output # Thrown
      BY <2>2, RecordParts
    <2>4. PICK options : options = [lsdFirst |-> r.lsdFirst, input |-> 0, output |-> r.length]
      OBVIOUS
    <2>5. /\ options.input \in Nat /\ r.lsdFirst = options.lsdFirst /\ r.length = options.output
          /\ r.output = Convert(r.input.text, r.from, r.to, options)
      BY <2>3, <2>4 DEF Conversion
    <2>6. r.input.text \in Seq(Characters)
      BY <2>3 DEF Inputs
    <2>7. r.output \notin {<<>>, Thrown} /\ ~(r.length > 0 /\ r.to \in {"Base64Rfc4648", "Base10"})
      BY <2>1, <2>3
    <2>8. Reads(FirstDigitFirst(r.output, r.to, r.lsdFirst), r.to, Parse(r.input.text, r.from))
      BY <2>3, <2>5, <2>6, <2>7, ConversionReadsBack
    <2>9. MostSignificantFirst(r) = FirstDigitFirst(r.output, r.to, r.lsdFirst)
      BY DEF MostSignificantFirst, FirstDigitFirst
    <2> QED
      BY <2>1, <2>8, <2>9 DEF Reads
  <1> QED
    BY <1>1, PageInvHolds, PTL

-----------------------------------------------------------------------------
(* What is shown is what the input and the settings convert to.            *)
OutputInv == outputValue = Convert(inputValue.text, settings.from, settings.to, Options(settings))

LEMMA NextOutput == OutputInv /\ [Next]_vars => OutputInv'
  <1> SUFFICES ASSUME OutputInv, [Next]_vars PROVE OutputInv'
    OBVIOUS
  <1>1. CASE Edit
    BY <1>1 DEF Edit, Recalculate, OutputInv
  <1>2. CASE UNCHANGED <<settings, inputValue, outputValue>>
    BY <1>2 DEF OutputInv
  <1>3. Edit \/ UNCHANGED <<settings, inputValue, outputValue>>
    BY DEF Next, vars, Enter, PasteAsync, ChangeRadix, ChangeOrder, ChangeLength,
           DownloadHistoryAsync, ImportCsvAsync, ReadFails, FinishImport, CloseErrors
  <1> QED
    BY <1>1, <1>2, <1>3

(* A length can be fixed only where "0" is a leading zero.                 *)
LEMMA LengthsOffered ==
  ASSUME NEW radix, NEW n \in FixedLengthOptions(radix) \cup {0}
  PROVE  n \in Nat /\ (n = 0 \/ radix \notin {"Base64Rfc4648", "Base10"})
  BY DEF FixedLengthOptions

(* RadixConverter.razor refuses an input only for a reason, and refuses    *)
(* every input it has a reason to.                                         *)
THEOREM RefusalsAreMeant == Spec => []RefusesOnlyMisfits
  <1>1. PageInv /\ OutputInv => RefusesOnlyMisfits
    <2> SUFFICES ASSUME PageInv, OutputInv, inputValue.text # <<>> PROVE RefusesOnlyMisfits
      BY DEF RefusesOnlyMisfits
    <2> DEFINE s == settings
               text == inputValue.text
               parses == Parses(text, s.from) /\ (s.input = 0 \/ DigitCount(text, s.from) <= s.input)
               value == Parse(text, s.from)
               gap == s.to = "Base2Signed2C" /\ s.output > 0 /\ TwosComplementGap(value, s.output)
    <2>1. /\ s.from \in Radices /\ s.to \in Radices /\ s.lsdFirst \in BOOLEAN /\ s.input \in Nat
          /\ s.output \in FixedLengthOptions(s.to) \cup {0}
      BY DEF PageInv, SettingsInv
    <2>2. text \in Seq(Characters)
      <3>1. inputValue \in Inputs
        <4>1. trial.inputs \subseteq Inputs
          BY TrialParts DEF PageInv, ListsInv
        <4>2. NoInput \in Inputs
          BY DEF NoInput, Inputs
        <4> QED
          BY <4>1, <4>2 DEF PageInv, SettingsInv
      <3> QED
        BY <3>1 DEF Inputs
    <2>3. s.output \in Nat /\ (s.output = 0 \/ s.to \notin {"Base64Rfc4648", "Base10"})
      BY <2>1, LengthsOffered
    <2>4. /\ Options(s).input = s.input /\ Options(s).output = s.output
          /\ Options(s).lsdFirst = s.lsdFirst
      BY DEF Options
    <2>5. outputValue = IF parses THEN Format(value, s.to, Options(s)) ELSE Thrown
      <3>1. Options(s).input \in Nat
        BY <2>1, <2>4
      <3>2. Convert(text, s.from, s.to, Options(s)) =
              IF Accepted(text, s.from, Options(s)) THEN Format(value, s.to, Options(s)) ELSE Thrown
        BY <2>1, <2>2, <3>1, Converts
      <3>3. Accepted(text, s.from, Options(s)) <=> parses
        BY <2>4 DEF Accepted
      <3> QED
        BY <3>2, <3>3 DEF OutputInv
    <2>6. parses => value \in Int
      BY <2>1, <2>2, ParseIsInt
    <2>7. ASSUME parses
          PROVE  /\ outputValue = Thrown => gap \/ ~Representable(value, s.to, s.output)
                 /\ outputValue # Thrown =>
                      /\ Representable(value, s.to, s.output)
                      /\ s.output = 0 \/ DigitCount(outputValue, s.to) = s.output
      <3>0. PICK options, out : options = Options(s) /\ out = outputValue
        OBVIOUS
      <3>1. PICK v \in Int, to \in Radices, n \in Nat, lsdFirst \in BOOLEAN :
              v = value /\ to = s.to /\ n = s.output /\ lsdFirst = s.lsdFirst
        BY <2>1, <2>3, <2>6, <2>7
      <3>2. /\ n = options.output /\ lsdFirst = options.lsdFirst
            /\ n = 0 \/ to \notin {"Base64Rfc4648", "Base10"}
            /\ n = 0 \/ to # "Base10"
            /\ out = Format(v, to, options)
        BY <2>3, <2>4, <2>5, <2>7, <3>0, <3>1
      <3>3. /\ Misfit(v, to, n) => out = Thrown
            /\ ~Misfit(v, to, n) => out # Thrown /\ (n > 0 => DigitCount(out, to) = n)
        BY <3>2, FormatReads
      <3>4. /\ Misfit(v, to, n) =>
                 \/ to = "Base2Signed2C" /\ n > 0 /\ TwosComplementGap(v, n)
                 \/ ~Representable(v, to, n)
            /\ ~Misfit(v, to, n) => Representable(v, to, n)
        BY <3>2, MisfitIs
      <3>5. n = 0 \/ n > 0
        OBVIOUS
      <3> QED
        BY <3>0, <3>1, <3>3, <3>4, <3>5
    <2>8. ~parses => outputValue = Thrown
      BY <2>5
    <2> HIDE DEF parses
    <2> QED
      BY <2>7, <2>8 DEF RefusesOnlyMisfits, parses
  <1>2. Init => OutputInv
    BY DEF Init, OutputInv, NoInput, Convert
  <1> QED
    BY <1>1, <1>2, NextOutput, PageInvHolds, PTL DEF Spec
=============================================================================
