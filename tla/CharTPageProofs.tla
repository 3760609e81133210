-------------------------- MODULE CharTPageProofs --------------------------
(***************************************************************************)
(* Proofs about the charT page and its file, for every pair of codecs,     *)
(* every set of texts and files and every bound.                           *)
(***************************************************************************)
EXTENDS CharTPage, DataInduction, SequenceTheorems, FiniteSetTheorems

(* Proof, for every pair of codecs, every set of texts and files and       *)
(* every bound: what is shown has no state to it but the text it was made  *)
(* of, so the invariant is inductive once the direction is known.          *)
IInv == direction \in {"encode", "decode"} /\ ShownIsOfTheText

LEMMA EmptyIsBlank == IsBlank(<<>>)
  BY DEF IsBlank

LEMMA InitIInv == Init => IInv
  BY EmptyIsBlank DEF Init, IInv, ShownIsOfTheText, NoOutput

(* A code that charTC_u8 reads without errors has no warnings.             *)
LEMMA DetectedHasNoErrors ==
  ASSUME NEW code, Detect(code) \in {"charTC_u8", "ambiguous"}
  PROVE  DecodeUc(code).errors = 0
  BY DEF Detect

(* The three ends of Convert, each with the facts it assigns.              *)
LEMMA ConvertKeeps == IInv /\ Convert => IInv'
  <1> SUFFICES ASSUME IInv, Convert PROVE IInv'
    OBVIOUS
  <1>1. direction' = direction /\ direction \in {"encode", "decode"}
    BY DEF Convert, IInv
  <1>2. CASE IsBlank(inputText')
    <2>1. ClearResults
      BY <1>2 DEF Convert
    <2> QED
      BY <2>1, <1>1, <1>2 DEF ClearResults, IInv, ShownIsOfTheText, NoOutput
  <1>3. CASE ~IsBlank(inputText') /\ direction = "encode"
    <2>1. ConvertText
      BY <1>3 DEF Convert
    <2>2. u8' = EncodeU8(inputText') /\ uc' = EncodeUc(inputText') /\ ~ucCrcWarnings'
      BY <2>1 DEF ConvertText
    <2> QED
      BY <2>2, <1>1, <1>3 DEF IInv, ShownIsOfTheText
  <1>4. CASE ~IsBlank(inputText') /\ direction # "encode"
    <2>1. ConvertCode
      BY <1>4 DEF Convert
    <2>2. /\ u8' = DecodeU8(inputText') /\ uc' = DecodeUc(inputText')
          /\ detectedEncoding' = Detect(inputText')
          /\ ucCrcWarnings' = (uc'.errors > 0 /\ uc'.crcOnly)
      BY <2>1 DEF ConvertCode
    <2>3. detectedEncoding' \in {"charTC_u8", "ambiguous"} => ~ucCrcWarnings'
      <3> SUFFICES ASSUME detectedEncoding' \in {"charTC_u8", "ambiguous"} PROVE ~ucCrcWarnings'
        OBVIOUS
      <3>1. uc'.errors = 0
        BY <2>2, DetectedHasNoErrors
      <3>2. ~(uc'.errors > 0)
        BY <3>1
      <3> QED
        BY <2>2, <3>2
    <2> QED
      BY <2>2, <2>3, <1>1, <1>4 DEF IInv, ShownIsOfTheText
  <1> QED
    BY <1>2, <1>3, <1>4

LEMMA StepIInv == IInv /\ [Next]_vars => IInv'
  <1> SUFFICES ASSUME IInv, [Next]_vars PROVE IInv'
    OBVIOUS
  <1>1. CASE OnDirectionChanged
    BY <1>1, EmptyIsBlank DEF OnDirectionChanged, IInv, ShownIsOfTheText, NoOutput
  <1>2. CASE ChangeText
    BY <1>2, ConvertKeeps DEF ChangeText
  <1>3. CASE \/ DownloadHistoryAsync \/ ImportCsvAsync \/ ReadFails
             \/ FinishImport \/ CloseErrors \/ UNCHANGED vars
    <2>1. UNCHANGED shown
      BY <1>3 DEF DownloadHistoryAsync, ImportCsvAsync, ReadFails, FinishImport, CloseErrors, vars
    <2> QED
      BY <2>1 DEF shown, IInv, ShownIsOfTheText, NoOutput
  <1> QED
    BY <1>1, <1>2, <1>3 DEF Next

(* No result outlives its text, whatever the codecs do                     *)
(* (CharTStringConverter.razor:206-271).                                   *)
THEOREM ShownBelongs == Spec => []ShownIsOfTheText
  <1>1. IInv => ShownIsOfTheText
    BY DEF IInv
  <1> QED
    BY InitIInv, StepIInv, <1>1, PTL DEF Spec

-----------------------------------------------------------------------------
(* The recursions of the file, as functions that know their values.        *)
LEMMA ConcatUnfolds ==
  ASSUME NEW D, NEW texts \in Seq(Seq(D))
  PROVE  \E R \in [0..Len(texts) -> Seq(D)] :
           /\ Concat(texts) = R[Len(texts)]
           /\ R[0] = <<>>
           /\ \A k \in 1..Len(texts) : R[k] = R[k - 1] \o texts[k]
  <1> DEFINE n == Len(texts)
             A == Seq(D)
             next(s, k) == s \o texts[k]
             step == [p \in A \X (0 + 1..n) |-> next(p[1], p[2])]
             Is(f) == f = [k \in 0..n |-> IF k = 0 THEN <<>> ELSE next(f[k - 1], k)]
             R == CHOOSE f : Is(f)
  <1>1. n \in Nat /\ n \in Int /\ 0 \in Int /\ <<>> \in A
    OBVIOUS
  <1>2. \A a \in A, k \in 1..n : next(a, k) \in A
    OBVIOUS
  <1>3. Concat(texts) = R[n]
    BY DEF Concat
  <1> HIDE DEF A, n, next
  <1>4. step \in [A \X (0 + 1..n) -> A]
    BY <1>2, <1>1
  <1>5. ASSUME NEW a \in A, NEW k \in 0..n, k # 0 PROVE step[<<a, k>>] = next(a, k)
    <2>1. <<a, k>> \in A \X (0 + 1..n)
      BY <1>1, <1>5
    <2> QED
      BY <2>1
  <1>6. PICK f \in [0..n -> A] : Unfolds(f, 0, n, <<>>, step)
    <2> HIDE DEF step
    <2> QED
      BY <1>1, <1>4, Recursion
  <1>7. \A k \in 0..n : f[k] = IF k = 0 THEN <<>> ELSE next(f[k - 1], k)
    <2> HIDE DEF step
    <2>1. \A k \in 0..n : k # 0 => f[k - 1] \in A
      BY <1>1
    <2> QED
      BY <1>5, <1>6, <2>1 DEF Unfolds
  <1>8. Is(f)
    BY <1>7
  <1>9. R = [k \in 0..n |-> IF k = 0 THEN <<>> ELSE next(R[k - 1], k)]
    <2> HIDE DEF Is
    <2>1. Is(R)
      BY <1>8
    <2> QED
      BY <2>1 DEF Is
  <1> HIDE DEF R
  <1>10. R[0] = <<>> /\ \A k \in 1..n : R[k] = next(R[k - 1], k)
    BY <1>9, <1>1
  <1>11. \A k \in 0..n : R[k] \in A
    <2> DEFINE Good == {k \in 0..n : R[k] \in A}
    <2>1. 0 \in Good
      BY <1>1, <1>10
    <2>2. \A k \in 0..n - 1 : k \in Good => k + 1 \in Good
      BY <1>1, <1>10, <1>2
    <2>3. 0..n \subseteq Good
      <3> HIDE DEF Good
      <3> QED
        BY <1>1, <2>1, <2>2, IntervalInduction
    <2> QED
      BY <2>3
  <1>12. R \in [0..n -> A]
    BY <1>9, <1>11
  <1> QED
    BY <1>3, <1>10, <1>12 DEF A, n, next

(* At every place, picked or not.                                          *)
LEMMA PickedUnfolds ==
  ASSUME NEW D, NEW items \in Seq(D), NEW places
  PROVE  \E R \in [0..Len(items) -> Seq(D)] :
           /\ Picked(items, places) = R[Len(items)]
           /\ R[0] = <<>>
           /\ \A k \in 1..Len(items) : R[k] = IF k \in places THEN Append(R[k - 1], items[k]) ELSE R[k - 1]
  <1> DEFINE n == Len(items)
             A == Seq(D)
             next(s, k) == IF k \in places THEN Append(s, items[k]) ELSE s
             step == [p \in A \X (0 + 1..n) |-> next(p[1], p[2])]
             Is(f) == f = [k \in 0..n |-> IF k = 0 THEN <<>> ELSE next(f[k - 1], k)]
             R == CHOOSE f : Is(f)
  <1>1. n \in Nat /\ n \in Int /\ 0 \in Int /\ <<>> \in A
    OBVIOUS
  <1>2. \A a \in A, k \in 1..n : next(a, k) \in A
    OBVIOUS
  <1>3. Picked(items, places) = R[n]
    BY DEF Picked
  <1> HIDE DEF A, n, next
  <1>4. step \in [A \X (0 + 1..n) -> A]
    BY <1>2, <1>1
  <1>5. ASSUME NEW a \in A, NEW k \in 0..n, k # 0 PROVE step[<<a, k>>] = next(a, k)
    <2>1. <<a, k>> \in A \X (0 + 1..n)
      BY <1>1, <1>5
    <2> QED
      BY <2>1
  <1>6. PICK f \in [0..n -> A] : Unfolds(f, 0, n, <<>>, step)
    <2> HIDE DEF step
    <2> QED
      BY <1>1, <1>4, Recursion
  <1>7. \A k \in 0..n : f[k] = IF k = 0 THEN <<>> ELSE next(f[k - 1], k)
    <2> HIDE DEF step
    <2>1. \A k \in 0..n : k # 0 => f[k - 1] \in A
      BY <1>1
    <2> QED
      BY <1>5, <1>6, <2>1 DEF Unfolds
  <1>8. Is(f)
    BY <1>7
  <1>9. R = [k \in 0..n |-> IF k = 0 THEN <<>> ELSE next(R[k - 1], k)]
    <2> HIDE DEF Is
    <2>1. Is(R)
      BY <1>8
    <2> QED
      BY <2>1 DEF Is
  <1> HIDE DEF R
  <1>10. R[0] = <<>> /\ \A k \in 1..n : R[k] = next(R[k - 1], k)
    BY <1>9, <1>1
  <1>11. \A k \in 0..n : R[k] \in A
    <2> DEFINE Good == {k \in 0..n : R[k] \in A}
    <2>1. 0 \in Good
      BY <1>1, <1>10
    <2>2. \A k \in 0..n - 1 : k \in Good => k + 1 \in Good
      BY <1>1, <1>10, <1>2
    <2>3. 0..n \subseteq Good
      <3> HIDE DEF Good
      <3> QED
        BY <1>1, <2>1, <2>2, IntervalInduction
    <2> QED
      BY <2>3
  <1>12. R \in [0..n -> A]
    BY <1>9, <1>11
  <1> QED
    BY <1>3, <1>10, <1>12 DEF A, n, next

(* Every token is a string; the provers have to be told of those named.    *)
Encodings == ValidInputEncodings \cup {"unknown", "ambiguous"}
Outputs == {"UTF-8", "charT_u8", "charTC_u8", ""}
Token == STRING \cup {Semicolon, Quote, Lf, Cr, Space, Header} \cup Encodings \cup Outputs
Text == Seq(Token)
Found == [text : Text, line : Nat]
ScanStates ==
  [records : Seq(Found), text : Text, inQuotes : BOOLEAN, skip : BOOLEAN, start : Nat, line : Nat]

LEMMA ScanTokenTyped ==
  ASSUME NEW text \in Text, NEW k \in 1..Len(text), NEW s \in ScanStates
  PROVE  ScanToken(text, k, s) \in ScanStates
  <1> DEFINE token == text[k]
             line == s.line + LinesOf(token, s.inQuotes)
             more == [s EXCEPT !.text = Append(@, token), !.line = line]
             next == [s EXCEPT !.records = Append(@, [text |-> s.text, line |-> s.start]),
                               !.text = <<>>, !.line = line, !.start = line]
  <1>1. token \in Token
    BY DEF Text
  <1>2. line \in Nat
    BY DEF ScanStates, LinesOf
  <1>3. Append(s.text, token) \in Text
    BY <1>1 DEF ScanStates, Text
  <1>4. Append(s.records, [text |-> s.text, line |-> s.start]) \in Seq(Found)
    BY DEF ScanStates, Found
  <1>5. ScanToken(text, k, s) \in {[more EXCEPT !.skip = FALSE], [more EXCEPT !.skip = TRUE],
                                  [more EXCEPT !.inQuotes = ~@], next, more}
    BY DEF ScanToken
  <1> HIDE DEF token, line
  <1>6. more \in ScanStates
    BY <1>2, <1>3 DEF ScanStates
  <1>7. next \in ScanStates
    <2> DEFINE records == Append(s.records, [text |-> s.text, line |-> s.start])
               none == <<>>
    <2>1. none \in Text /\ records \in Seq(Found)
      BY <1>4 DEF Text
    <2> HIDE DEF records, none
    <2>2. [s EXCEPT !.records = records, !.text = none, !.line = line, !.start = line] \in ScanStates
      BY <1>2, <2>1 DEF ScanStates
    <2> QED
      BY <2>2 DEF records, none
  <1>8. [more EXCEPT !.skip = FALSE] \in ScanStates /\ [more EXCEPT !.skip = TRUE] \in ScanStates
    BY <1>6 DEF ScanStates
  <1>9. [more EXCEPT !.inQuotes = ~@] \in ScanStates
    <2> DEFINE turned == ~more.inQuotes
    <2>1. turned \in BOOLEAN
      OBVIOUS
    <2> HIDE DEF more, turned
    <2>2. [more EXCEPT !.inQuotes = turned] \in ScanStates
      BY <1>6, <2>1 DEF ScanStates
    <2> QED
      BY <2>2 DEF turned
  <1> QED
    BY <1>5, <1>6, <1>7, <1>8, <1>9

(* The states of the scan.                                                 *)
LEMMA ScanUnfolds ==
  ASSUME NEW text \in Text
  PROVE  \E R \in [0..Len(text) -> ScanStates] :
           /\ Scan(text) = R[Len(text)]
           /\ R[0] = ScanStart
           /\ \A k \in 1..Len(text) : R[k] = ScanToken(text, k, R[k - 1])
  <1> DEFINE n == Len(text)
             A == ScanStates
             next(s, k) == ScanToken(text, k, s)
             step == [p \in A \X (0 + 1..n) |-> next(p[1], p[2])]
             Is(f) == f = [k \in 0..n |-> IF k = 0 THEN ScanStart ELSE next(f[k - 1], k)]
             R == CHOOSE f : Is(f)
  <1>1. n \in Nat /\ n \in Int /\ 0 \in Int /\ ScanStart \in A
    BY DEF ScanStart, ScanStates, Text, Found
  <1>2. \A a \in A, k \in 1..n : next(a, k) \in A
    BY ScanTokenTyped
  <1>3. Scan(text) = R[n]
    BY DEF Scan
  <1> HIDE DEF A, n, next
  <1>4. step \in [A \X (0 + 1..n) -> A]
    BY <1>2, <1>1
  <1>5. ASSUME NEW a \in A, NEW k \in 0..n, k # 0 PROVE step[<<a, k>>] = next(a, k)
    <2>1. <<a, k>> \in A \X (0 + 1..n)
      BY <1>1, <1>5
    <2> QED
      BY <2>1
  <1>6. PICK f \in [0..n -> A] : Unfolds(f, 0, n, ScanStart, step)
    <2> HIDE DEF step
    <2> QED
      BY <1>1, <1>4, Recursion
  <1>7. \A k \in 0..n : f[k] = IF k = 0 THEN ScanStart ELSE next(f[k - 1], k)
    <2> HIDE DEF step
    <2>1. \A k \in 0..n : k # 0 => f[k - 1] \in A
      BY <1>1
    <2> QED
      BY <1>5, <1>6, <2>1 DEF Unfolds
  <1>8. Is(f)
    BY <1>7
  <1>9. R = [k \in 0..n |-> IF k = 0 THEN ScanStart ELSE next(R[k - 1], k)]
    <2> HIDE DEF Is
    <2>1. Is(R)
      BY <1>8
    <2> QED
      BY <2>1 DEF Is
  <1> HIDE DEF R
  <1>10. R[0] = ScanStart /\ \A k \in 1..n : R[k] = next(R[k - 1], k)
    BY <1>9, <1>1
  <1>11. \A k \in 0..n : R[k] \in A
    <2> DEFINE Good == {k \in 0..n : R[k] \in A}
    <2>1. 0 \in Good
      BY <1>1, <1>10
    <2>2. \A k \in 0..n - 1 : k \in Good => k + 1 \in Good
      BY <1>1, <1>10, <1>2
    <2>3. 0..n \subseteq Good
      <3> HIDE DEF Good
      <3> QED
        BY <1>1, <2>1, <2>2, IntervalInduction
    <2> QED
      BY <2>3
  <1>12. R \in [0..n -> A]
    BY <1>9, <1>11
  <1> QED
    BY <1>3, <1>10, <1>12 DEF A, n, next

SplitStates == [fields : Seq(Text), text : Text, inQuotes : BOOLEAN, skip : BOOLEAN]

LEMMA SplitTokenTyped ==
  ASSUME NEW record \in Text, NEW k \in 1..Len(record), NEW s \in SplitStates
  PROVE  SplitToken(record, k, s) \in SplitStates
  <1> DEFINE token == record[k]
             skipped == [s EXCEPT !.skip = FALSE]
             escaped == [s EXCEPT !.text = Append(@, Quote), !.skip = TRUE]
             turned == [s EXCEPT !.inQuotes = ~@]
             next == [s EXCEPT !.fields = Append(@, s.text), !.text = <<>>]
             more == [s EXCEPT !.text = Append(@, token)]
  <1>1. token \in Token /\ Quote \in Token
    <2>1. token \in Token
      BY DEF Text
    <2>2. Quote \in Token
      BY DEF Token
    <2> QED
      BY <2>1, <2>2
  <1>2. Append(s.text, token) \in Text /\ Append(s.text, Quote) \in Text /\ <<>> \in Text
    BY <1>1 DEF SplitStates, Text
  <1>3. Append(s.fields, s.text) \in Seq(Text)
    BY DEF SplitStates
  <1>4. SplitToken(record, k, s) \in {skipped, escaped, turned, next, more}
    BY DEF SplitToken
  <1> HIDE DEF token
  <1>5. skipped \in SplitStates /\ escaped \in SplitStates /\ more \in SplitStates
    BY <1>2 DEF SplitStates
  <1>6. turned \in SplitStates
    <2> DEFINE b == ~s.inQuotes
    <2>1. b \in BOOLEAN
      OBVIOUS
    <2> HIDE DEF b
    <2>2. [s EXCEPT !.inQuotes = b] \in SplitStates
      BY <2>1 DEF SplitStates
    <2> QED
      BY <2>2 DEF b
  <1>7. next \in SplitStates
    <2> DEFINE fields == Append(s.fields, s.text)
               none == <<>>
    <2> HIDE DEF fields, none
    <2>1. fields \in Seq(Text) /\ none \in Text
      BY <1>2, <1>3 DEF fields, none
    <2>2. [s EXCEPT !.fields = fields, !.text = none] \in SplitStates
      BY <2>1 DEF SplitStates
    <2> QED
      BY <2>2 DEF fields, none
  <1> QED
    BY <1>4, <1>5, <1>6, <1>7

(* Those of the split.                                                     *)
LEMMA SplitUnfolds ==
  ASSUME NEW record \in Text
  PROVE  \E R \in [0..Len(record) -> SplitStates] :
           /\ SplitRecordFields(record) = Append(R[Len(record)].fields, R[Len(record)].text)
           /\ R[0] = SplitStart
           /\ \A k \in 1..Len(record) : R[k] = SplitToken(record, k, R[k - 1])
  <1> DEFINE n == Len(record)
             A == SplitStates
             next(s, k) == SplitToken(record, k, s)
             step == [p \in A \X (0 + 1..n) |-> next(p[1], p[2])]
             Is(f) == f = [k \in 0..n |-> IF k = 0 THEN SplitStart ELSE next(f[k - 1], k)]
             R == CHOOSE f : Is(f)
  <1>1. n \in Nat /\ n \in Int /\ 0 \in Int /\ SplitStart \in A
    BY DEF SplitStart, SplitStates, Text
  <1>2. \A a \in A, k \in 1..n : next(a, k) \in A
    BY SplitTokenTyped
  <1>3. SplitRecordFields(record) = Append(R[n].fields, R[n].text)
    BY DEF SplitRecordFields
  <1> HIDE DEF A, n, next
  <1>4. step \in [A \X (0 + 1..n) -> A]
    BY <1>2, <1>1
  <1>5. ASSUME NEW a \in A, NEW k \in 0..n, k # 0 PROVE step[<<a, k>>] = next(a, k)
    <2>1. <<a, k>> \in A \X (0 + 1..n)
      BY <1>1, <1>5
    <2> QED
      BY <2>1
  <1>6. PICK f \in [0..n -> A] : Unfolds(f, 0, n, SplitStart, step)
    <2> HIDE DEF step
    <2> QED
      BY <1>1, <1>4, Recursion
  <1>7. \A k \in 0..n : f[k] = IF k = 0 THEN SplitStart ELSE next(f[k - 1], k)
    <2> HIDE DEF step
    <2>1. \A k \in 0..n : k # 0 => f[k - 1] \in A
      BY <1>1
    <2> QED
      BY <1>5, <1>6, <2>1 DEF Unfolds
  <1>8. Is(f)
    BY <1>7
  <1>9. R = [k \in 0..n |-> IF k = 0 THEN SplitStart ELSE next(R[k - 1], k)]
    <2> HIDE DEF Is
    <2>1. Is(R)
      BY <1>8
    <2> QED
      BY <2>1 DEF Is
  <1> HIDE DEF R
  <1>10. R[0] = SplitStart /\ \A k \in 1..n : R[k] = next(R[k - 1], k)
    BY <1>9, <1>1
  <1>11. \A k \in 0..n : R[k] \in A
    <2> DEFINE Good == {k \in 0..n : R[k] \in A}
    <2>1. 0 \in Good
      BY <1>1, <1>10
    <2>2. \A k \in 0..n - 1 : k \in Good => k + 1 \in Good
      BY <1>1, <1>10, <1>2
    <2>3. 0..n \subseteq Good
      <3> HIDE DEF Good
      <3> QED
        BY <1>1, <2>1, <2>2, IntervalInduction
    <2> QED
      BY <2>3
  <1>12. R \in [0..n -> A]
    BY <1>9, <1>11
  <1> QED
    BY <1>3, <1>10, <1>12 DEF A, n, next

-----------------------------------------------------------------------------
(* What the file is made of.                                               *)

LEMMA ConcatTyped ==
  ASSUME NEW D, NEW texts \in Seq(Seq(D))
  PROVE  Concat(texts) \in Seq(D)
  <1>1. PICK R \in [0..Len(texts) -> Seq(D)] : Concat(texts) = R[Len(texts)]
    BY ConcatUnfolds
  <1>2. Len(texts) \in 0..Len(texts)
    OBVIOUS
  <1> QED
    BY <1>1, <1>2

LEMMA PickedTyped ==
  ASSUME NEW D, NEW items \in Seq(D), NEW places
  PROVE  Picked(items, places) \in Seq(D)
  <1>1. PICK R \in [0..Len(items) -> Seq(D)] : Picked(items, places) = R[Len(items)]
    BY PickedUnfolds
  <1>2. Len(items) \in 0..Len(items)
    OBVIOUS
  <1> QED
    BY <1>1, <1>2

(* What is picked stood at one of the places.                              *)
LEMMA PickedStood ==
  ASSUME NEW D, NEW items \in Seq(D), NEW places,
         NEW i \in DOMAIN Picked(items, places)
  PROVE  \E j \in 1..Len(items) : j \in places /\ Picked(items, places)[i] = items[j]
  <1> DEFINE n == Len(items)
  <1>1. PICK R \in [0..n -> Seq(D)] :
          /\ Picked(items, places) = R[n]
          /\ R[0] = <<>>
          /\ \A k \in 1..n : R[k] = IF k \in places THEN Append(R[k - 1], items[k]) ELSE R[k - 1]
    BY PickedUnfolds
  <1> DEFINE Stood(k) == \A a \in 1..Len(R[k]) : \E j \in 1..n : j \in places /\ R[k][a] = items[j]
             Good == {k \in 0..n : Stood(k)}
  <1>2. n \in Nat /\ 0 \in Good
    <2>1. Len(R[0]) = 0
      BY <1>1
    <2> QED
      BY <2>1
  <1>3. ASSUME NEW k \in 0..n - 1, k \in Good PROVE k + 1 \in Good
    <2>1. k + 1 \in 1..n /\ (k + 1) - 1 = k
      BY <1>2
    <2>2. R[k + 1] = IF k + 1 \in places THEN Append(R[k], items[k + 1]) ELSE R[k]
      BY <1>1, <2>1
    <2>3. R[k] \in Seq(D) /\ Stood(k)
      BY <1>3
    <2>4. CASE k + 1 \in places
      <3>1. ASSUME NEW a \in 1..Len(R[k + 1]) PROVE \E j \in 1..n : j \in places /\ R[k + 1][a] = items[j]
        <4>1. CASE a = Len(R[k]) + 1
          <5>1. R[k + 1][a] = items[k + 1]
            BY <2>2, <2>3, <2>4, <4>1
          <5> QED
            BY <2>1, <2>4, <5>1
        <4>2. CASE a # Len(R[k]) + 1
          <5>1. a \in 1..Len(R[k]) /\ R[k + 1][a] = R[k][a]
            BY <2>2, <2>3, <2>4, <4>2
          <5> QED
            BY <2>3, <5>1
        <4> QED
          BY <4>1, <4>2
      <3>2. Stood(k + 1)
        BY <3>1
      <3> HIDE DEF Stood
      <3> QED
        BY <1>2, <2>1, <3>2
    <2>5. CASE k + 1 \notin places
      <3>1. Stood(k + 1)
        BY <2>2, <2>3, <2>5
      <3> HIDE DEF Stood
      <3> QED
        BY <1>2, <2>1, <3>1
    <2> QED
      BY <2>4, <2>5
  <1>4. 0..n \subseteq Good
    <2> HIDE DEF Good, n
    <2>1. n \in Int /\ 0 \in Int
      BY <1>2
    <2> QED
      BY <1>2, <1>3, <2>1, IntervalInduction
  <1>5. Stood(n)
    BY <1>2, <1>4
  <1>6. i \in 1..Len(R[n])
    BY <1>1, <1>2
  <1> QED
    BY <1>1, <1>5, <1>6

-----------------------------------------------------------------------------
(* Types of the file.                                                      *)

Rows == [input : Text, inputEncoding : ValidInputEncodings]
RecordForms ==
  [input : Text, output1 : Text, output2 : Text,
   inputEncoding : Encodings, encoding1 : Outputs, encoding2 : Outputs]

(* The four ways to make a record: of a text, of a code read by both       *)
(* codecs, and of a code that an import gives to one.                      *)
OfText(x) == Record(x, EncodeU8(x).text, EncodeUc(x).text, "UTF-8", "charT_u8", "charTC_u8")
OfCode(x, e) == Record(x, DecodeU8(x).text, DecodeUc(x).text, e, "UTF-8", "UTF-8")
OfU8(x) == Record(x, DecodeU8(x).text, <<>>, "charT_u8", "UTF-8", "")
OfUc(x) == Record(x, DecodeUc(x).text, <<>>, "charTC_u8", "UTF-8", "")

Made(r) ==
  \/ r = OfText(r.input)
  \/ r.inputEncoding # "UTF-8" /\ r = OfCode(r.input, r.inputEncoding)
  \/ r = OfU8(r.input)
  \/ r = OfUc(r.input)

Records == {r \in RecordForms : Made(r)}

LEMMA EmptyText == <<>> \in Text
  BY DEF Text

LEMMA OneToken == ASSUME NEW t \in Token PROVE <<t>> \in Text
  BY DEF Text

LEMMA NormaliseTyped ==
  ASSUME NEW text \in Text
  PROVE  Normalise(text) \in Text
  <1> DEFINE pieces == [k \in DOMAIN text |->
               IF text[k] # Cr THEN <<text[k]>>
               ELSE IF k < Len(text) /\ text[k + 1] = Lf THEN <<>> ELSE <<Lf>>]
  <1>1. DOMAIN text = 1..Len(text) /\ Len(text) \in Nat /\ Lf \in Token
    BY DEF Text, Token
  <1>2. ASSUME NEW k \in 1..Len(text) PROVE pieces[k] \in Text
    <2>1. text[k] \in Token
      BY DEF Text
    <2>2. pieces[k] \in {<<text[k]>>, <<>>, <<Lf>>}
      BY <1>1
    <2> QED
      BY <1>1, <2>1, <2>2, OneToken, EmptyText
  <1>3. pieces \in Seq(Text)
    <2>1. pieces \in [1..Len(text) -> Text]
      BY <1>1, <1>2
    <2> QED
      BY <1>1, <2>1
  <1>4. Concat(pieces) \in Seq(Token)
    BY <1>3, ConcatTyped DEF Text
  <1> QED
    BY <1>4 DEF Normalise, Text

LEMMA ReadTyped ==
  ASSUME NEW text \in Text
  PROVE  ReadRecords(text) \in Seq(Found)
  <1>1. PICK R \in [0..Len(text) -> ScanStates] : Scan(text) = R[Len(text)]
    BY ScanUnfolds
  <1>2. Len(text) \in 0..Len(text)
    BY DEF Text
  <1>3. Scan(text) \in ScanStates
    BY <1>1, <1>2
  <1> DEFINE end == Scan(text)
             last == [text |-> end.text, line |-> end.start]
  <1>4. end.records \in Seq(Found) /\ last \in Found
    BY <1>3 DEF ScanStates, Found
  <1>5. ReadRecords(text) \in {end.records, Append(end.records, last)}
    BY DEF ReadRecords
  <1> DEFINE records == end.records
  <1> HIDE DEF end, last
  <1>6. records \in Seq(Found) /\ ReadRecords(text) \in {records, Append(records, last)}
    BY <1>4, <1>5
  <1> HIDE DEF records
  <1>7. Append(records, last) \in Seq(Found)
    BY <1>4, <1>6
  <1> QED
    BY <1>6, <1>7

LEMMA SplitTyped ==
  ASSUME NEW record \in Text
  PROVE  SplitRecordFields(record) \in Seq(Text)
  <1>1. PICK R \in [0..Len(record) -> SplitStates] :
          SplitRecordFields(record) = Append(R[Len(record)].fields, R[Len(record)].text)
    BY SplitUnfolds
  <1>2. Len(record) \in 0..Len(record)
    BY DEF Text
  <1>3. R[Len(record)] \in SplitStates
    BY <1>1, <1>2
  <1> QED
    BY <1>1, <1>3 DEF SplitStates

(* Of a row that parses, whose fourth field names an encoding.             *)
LEMMA ParsedRowTyped ==
  ASSUME NEW text \in Text, IsRow(text)
  PROVE  ParsedRow(text) \in Rows
  <1> DEFINE fields == SplitRecordFields(text)
  <1>1. fields \in Seq(Text)
    BY SplitTyped
  <1>2. Len(fields) = 6 /\ \E e \in ValidInputEncodings : TextTrim(fields[4]) = <<e>>
    BY DEF IsRow
  <1>3. fields[1] \in Text
    BY <1>1, <1>2
  <1>4. PICK e \in ValidInputEncodings : TextTrim(fields[4]) = <<e>>
    BY <1>2
  <1>5. TextTrim(fields[4])[1] = e
    BY <1>4
  <1>6. ParsedRow(text) = [input |-> fields[1], inputEncoding |-> TextTrim(fields[4])[1]]
    BY DEF ParsedRow
  <1> QED
    BY <1>3, <1>5, <1>6 DEF Rows

(* The records of a file, its rows and what Deserialize makes of them.     *)
AllRecords(csv) == ReadRecords(Normalise(csv))
Filled(csv) == Picked(AllRecords(csv), {k \in DOMAIN AllRecords(csv) : ~IsBlank(AllRecords(csv)[k].text)})
GoodRows(csv) == {k \in DOMAIN Tail(Filled(csv)) : IsRow(Tail(Filled(csv))[k].text)}
BadRows(csv) == DOMAIN Tail(Filled(csv)) \ GoodRows(csv)
HasHeader(csv) == TextTrim(FirstLine(Filled(csv)[1].text)) = <<Header>>

LEMMA DeserializeIs ==
  ASSUME NEW csv
  PROVE  Deserialize(csv) =
           IF Filled(csv) = <<>> THEN [validRows |-> <<>>, errors |-> <<>>]
           ELSE IF ~HasHeader(csv) THEN [validRows |-> <<>>, errors |-> <<Filled(csv)[1]>>]
           ELSE [validRows |-> [k \in DOMAIN Picked(Tail(Filled(csv)), GoodRows(csv)) |->
                                  ParsedRow(Picked(Tail(Filled(csv)), GoodRows(csv))[k].text)],
                 errors |-> Picked(Tail(Filled(csv)), BadRows(csv))]
  BY DEF Deserialize, Filled, GoodRows, BadRows, HasHeader, AllRecords

LEMMA FilledTyped ==
  ASSUME NEW csv \in Text
  PROVE  AllRecords(csv) \in Seq(Found) /\ Filled(csv) \in Seq(Found)
  <1>1. AllRecords(csv) \in Seq(Found)
    BY NormaliseTyped, ReadTyped DEF AllRecords
  <1> QED
    BY <1>1, PickedTyped DEF Filled

LEMMA DeserializeTyped ==
  ASSUME NEW csv \in Text
  PROVE  Deserialize(csv).validRows \in Seq(Rows) /\ Deserialize(csv).errors \in Seq(Found)
  <1> DEFINE rows == Tail(Filled(csv))
             valid == Picked(rows, GoodRows(csv))
             parsed == [k \in DOMAIN valid |-> ParsedRow(valid[k].text)]
  <1>1. Filled(csv) \in Seq(Found)
    BY FilledTyped
  <1>2. CASE Filled(csv) = <<>>
    <2>1. Deserialize(csv) = [validRows |-> <<>>, errors |-> <<>>]
      BY <1>2, DeserializeIs
    <2> QED
      BY <2>1
  <1>3. CASE Filled(csv) # <<>> /\ ~HasHeader(csv)
    <2>1. Filled(csv)[1] \in Found
      BY <1>1, <1>3
    <2>2. Deserialize(csv) = [validRows |-> <<>>, errors |-> <<Filled(csv)[1]>>]
      BY <1>3, DeserializeIs
    <2> QED
      BY <2>1, <2>2
  <1>4. CASE Filled(csv) # <<>> /\ HasHeader(csv)
    <2>1. rows \in Seq(Found)
      BY <1>1, <1>4
    <2>2. valid \in Seq(Found) /\ Picked(rows, BadRows(csv)) \in Seq(Found)
      BY <2>1, PickedTyped
    <2>3. Deserialize(csv) = [validRows |-> parsed, errors |-> Picked(rows, BadRows(csv))]
      BY <1>4, DeserializeIs
    <2>4. DOMAIN valid = 1..Len(valid) /\ Len(valid) \in Nat
      BY <2>2
    <2>5. ASSUME NEW k \in DOMAIN valid PROVE ParsedRow(valid[k].text) \in Rows
      <3>1. PICK j \in 1..Len(rows) : j \in GoodRows(csv) /\ valid[k] = rows[j]
        <4> HIDE DEF rows
        <4> QED
          BY <2>1, <2>5, PickedStood
      <3>2. IsRow(rows[j].text)
        BY <3>1 DEF GoodRows
      <3>3. rows[j].text \in Text
        <4>1. rows[j] \in Found
          <5> HIDE DEF rows
          <5> QED
            BY <2>1, <3>1
        <4> QED
          BY <4>1 DEF Found
      <3> HIDE DEF rows, valid
      <3> QED
        BY <3>1, <3>2, <3>3, ParsedRowTyped
    <2>6. parsed \in [1..Len(valid) -> Rows]
      <3> HIDE DEF valid
      <3> QED
        BY <2>4, <2>5
    <2>7. parsed \in Seq(Rows)
      <3> HIDE DEF parsed, valid
      <3> QED
        BY <2>4, <2>6
    <2> QED
      BY <2>2, <2>3, <2>7
  <1> QED
    BY <1>2, <1>3, <1>4

LEMMA DoubledTyped ==
  ASSUME NEW field \in Text
  PROVE  Doubled(field) \in Text
  <1> DEFINE pieces == [k \in DOMAIN field |-> IF field[k] = Quote THEN <<Quote, Quote>> ELSE <<field[k]>>]
  <1>1. DOMAIN field = 1..Len(field) /\ Len(field) \in Nat /\ Quote \in Token
    BY DEF Text, Token
  <1>2. <<Quote, Quote>> \in Text
    BY <1>1 DEF Text
  <1>3. ASSUME NEW k \in 1..Len(field) PROVE pieces[k] \in Text
    <2>1. field[k] \in Token
      BY DEF Text
    <2> QED
      BY <1>1, <1>2, <2>1, OneToken
  <1>4. pieces \in [1..Len(field) -> Text]
    BY <1>1, <1>3
  <1>5. pieces \in Seq(Text)
    BY <1>1, <1>4
  <1>6. Concat(pieces) \in Seq(Token)
    BY <1>5, ConcatTyped DEF Text
  <1> QED
    BY <1>6 DEF Doubled, Text

LEMMA EscapeTyped ==
  ASSUME NEW field \in Text
  PROVE  EscapeField(field) \in Text
  <1>1. Doubled(field) \in Text /\ <<Quote>> \in Text
    BY DoubledTyped, OneToken DEF Token
  <1>2. <<Quote>> \o Doubled(field) \o <<Quote>> \in Text
    BY <1>1 DEF Text
  <1> QED
    BY <1>2 DEF EscapeField

LEMMA RowTyped ==
  ASSUME NEW r \in Records
  PROVE  RowOf(r) \in Text
  <1> DEFINE a == EscapeField(r.input)
             b == EscapeField(r.output1)
             c == EscapeField(r.output2)
             tail == <<Semicolon, r.inputEncoding, Semicolon, r.encoding1, Semicolon, r.encoding2, Lf>>
  <1>1. a \in Text /\ b \in Text /\ c \in Text
    BY EscapeTyped DEF Records, RecordForms
  <1>2. /\ Semicolon \in Token /\ Lf \in Token /\ r.inputEncoding \in Token
        /\ r.encoding1 \in Token /\ r.encoding2 \in Token
    BY DEF Records, RecordForms, Token
  <1>3. tail \in Text /\ <<Semicolon>> \in Text
    BY <1>2 DEF Text
  <1>4. RowOf(r) = a \o <<Semicolon>> \o b \o <<Semicolon>> \o c \o tail
    BY DEF RowOf
  <1> HIDE DEF a, b, c, tail
  <1> QED
    BY <1>1, <1>3, <1>4 DEF Text

LEMMA SerializeTyped ==
  ASSUME NEW records \in Seq(Records)
  PROVE  Serialize(records) \in Text
  <1> DEFINE rows == [k \in DOMAIN records |-> RowOf(records[k])]
  <1>1. rows \in [1..Len(records) -> Text] /\ Len(records) \in Nat
    <2>1. DOMAIN records = 1..Len(records) /\ \A k \in 1..Len(records) : records[k] \in Records
      OBVIOUS
    <2>2. \A k \in 1..Len(records) : RowOf(records[k]) \in Text
      BY <2>1, RowTyped
    <2> QED
      BY <2>1, <2>2
  <1>2. rows \in Seq(Text)
    BY <1>1
  <1>3. Concat(rows) \in Text
    BY <1>2, ConcatTyped DEF Text
  <1>4. <<Header, Lf>> \in Text
    BY DEF Text, Token
  <1>5. Serialize(records) = <<Header, Lf>> \o Concat(rows)
    BY DEF Serialize
  <1> HIDE DEF rows
  <1> QED
    BY <1>3, <1>4, <1>5 DEF Text

-----------------------------------------------------------------------------
(* Types of the page. A codec gives a text and a number of errors for      *)
(* every text, as its signature says.                                      *)
Results == [text : Text, errors : Nat, crcOnly : BOOLEAN]
CodecsTyped ==
  \A text \in Text : /\ EncodeU8(text) \in Results /\ EncodeUc(text) \in Results
                     /\ DecodeU8(text) \in Results /\ DecodeUc(text) \in Results

Files ==
  {f \in [csv : Text, saved : Seq(Records)] : f.saved # <<>> => f.csv = Serialize(f.saved)}
Imports == [file : Files, state : {"reading", "failed", "read"}, imported : Nat, skipped : Nat]

(* TypeOK with the types of everything else that is kept: of the texts, of *)
(* the history, and of the files and imports that carry them.              *)
PageInv ==
  /\ trial \in Trials
  /\ direction \in {"encode", "decode"} /\ inputText \in Inputs \cup {<<>>}
  /\ detectedEncoding \in {"unknown", "charT_u8", "charTC_u8", "ambiguous"}
  /\ edits \in Nat /\ edits <= trial.edits
  /\ history \in Seq(Records)
  /\ importErrors \in Seq(Found)
  /\ imports \in Seq(Imports) /\ Len(imports) <= trial.imports
  /\ \A k \in DOMAIN imports : imports[k].state = "read" => Len(history) >= imports[k].imported
  /\ files \subseteq Files

LEMMA TrialParts ==
  ASSUME NEW t \in Trials
  PROVE  /\ t.texts \subseteq Text /\ t.codes \subseteq Text
         /\ t.files \subseteq Files /\ t.edits \in Nat /\ t.imports \in Nat
  <1>1. Seq(STRING) \subseteq Text
    <2>1. STRING \subseteq Token
      BY DEF Token
    <2> QED
      BY <2>1, SeqMonotonic DEF Text
  <1>2. t.files \subseteq [csv : Seq(STRING), saved : {<<>>}]
    BY TrialsAssumption
  <1>3. [csv : Seq(STRING), saved : {<<>>}] \subseteq Files
    <2>1. <<>> \in Seq(Records)
      OBVIOUS
    <2> QED
      BY <1>1, <2>1 DEF Files
  <1> QED
    BY <1>1, <1>2, <1>3, TrialsAssumption

LEMMA ImportTyped ==
  ASSUME PageInv, NEW k \in DOMAIN imports
  PROVE  imports[k] \in Imports /\ imports[k].imported \in Nat /\ imports[k].file \in Files
  <1>1. imports[k] \in Imports
    BY DEF PageInv
  <1> QED
    BY <1>1 DEF Imports

LEMMA InputsTyped ==
  ASSUME PageInv
  PROVE  Inputs \subseteq Text /\ inputText \in Text
  BY TrialParts, EmptyText DEF PageInv, Inputs

LEMMA InitPage == Init => PageInv
  <1> SUFFICES ASSUME Init PROVE PageInv
    OBVIOUS
  <1>1. trial \in Trials /\ files = trial.files /\ edits = 0
    BY DEF Init
  <1>2. history = <<>> /\ importErrors = <<>> /\ imports = <<>>
    BY DEF Init
  <1>3. /\ history \in Seq(Records) /\ importErrors \in Seq(Found)
        /\ imports \in Seq(Imports) /\ Len(imports) = 0 /\ DOMAIN imports = {}
    BY <1>2
  <1>4. direction = "encode" /\ inputText = <<>> /\ detectedEncoding = "unknown"
    BY DEF Init
  <1> QED
    BY <1>1, <1>3, <1>4, TrialParts DEF PageInv

LEMMA Detected ==
  ASSUME NEW code
  PROVE  Detect(code) \in {"unknown", "charT_u8", "charTC_u8", "ambiguous"}
  BY DEF Detect

(* What a conversion and a rerun leave is such a record.                   *)
LEMMA RecordsMade ==
  ASSUME CodecsTyped, NEW x \in Text, NEW e \in Encodings
  PROVE  /\ OfText(x) \in Records /\ OfU8(x) \in Records /\ OfUc(x) \in Records
         /\ e # "UTF-8" => OfCode(x, e) \in Records
  <1>1. /\ EncodeU8(x).text \in Text /\ EncodeUc(x).text \in Text
        /\ DecodeU8(x).text \in Text /\ DecodeUc(x).text \in Text
    BY DEF CodecsTyped, Results
  <1>2. {"UTF-8", "charT_u8", "charTC_u8"} \subseteq Encodings
    BY DEF Encodings, ValidInputEncodings
  <1>3. OfText(x) \in RecordForms /\ OfText(x).input = x
    BY <1>1, <1>2 DEF OfText, Record, RecordForms, Outputs
  <1>4. OfU8(x) \in RecordForms /\ OfU8(x).input = x
    BY <1>1, <1>2, EmptyText DEF OfU8, Record, RecordForms, Outputs
  <1>5. OfUc(x) \in RecordForms /\ OfUc(x).input = x
    BY <1>1, <1>2, EmptyText DEF OfUc, Record, RecordForms, Outputs
  <1>6. OfCode(x, e) \in RecordForms /\ OfCode(x, e).input = x /\ OfCode(x, e).inputEncoding = e
    BY <1>1 DEF OfCode, Record, RecordForms, Outputs
  <1> QED
    BY <1>3, <1>4, <1>5, <1>6 DEF Records, Made

LEMMA RerunIs ==
  ASSUME NEW row \in Rows
  PROVE  Rerun(row) = CASE row.inputEncoding = "UTF-8" -> OfText(row.input)
                        [] row.inputEncoding = "ternary" -> OfCode(row.input, "ternary")
                        [] row.inputEncoding = "charT_u8" -> OfU8(row.input)
                        [] row.inputEncoding = "charTC_u8" -> OfUc(row.input)
  BY DEF Rerun, OfText, OfCode, OfU8, OfUc

LEMMA RerunTyped ==
  ASSUME CodecsTyped, NEW row \in Rows
  PROVE  Rerun(row) \in Records
  <1>1. row.input \in Text /\ row.inputEncoding \in {"UTF-8", "ternary", "charT_u8", "charTC_u8"}
    BY DEF Rows, ValidInputEncodings
  <1>2. "ternary" \in Encodings
    BY DEF Encodings, ValidInputEncodings
  <1>3. Rerun(row) \in {OfText(row.input), OfCode(row.input, "ternary"), OfU8(row.input), OfUc(row.input)}
    BY <1>1, RerunIs
  <1> QED
    BY <1>1, <1>2, <1>3, RecordsMade

(* What a step leaves of imports, and of the history, which only grows.    *)
Kept ==
  /\ trial' = trial /\ files' = files /\ importErrors' = importErrors /\ imports' = imports
  /\ edits' \in Nat /\ edits' <= trial.edits
  /\ history' \in Seq(Records) /\ Len(history') >= Len(history)

LEMMA ConvertTyped ==
  ASSUME CodecsTyped, PageInv, Convert, inputText' \in Inputs
  PROVE  Kept /\ direction' = direction
         /\ detectedEncoding' \in {"unknown", "charT_u8", "charTC_u8", "ambiguous"}
  <1>1. trial' = trial /\ direction' = direction /\ importErrors' = importErrors /\ imports' = imports /\ files' = files
    BY DEF Convert
  <1>2. edits' \in Nat /\ edits' <= trial.edits
    <2>1. edits \in Nat /\ trial.edits \in Nat /\ edits < trial.edits /\ edits' = edits + 1
      BY TrialParts DEF PageInv, Convert
    <2> QED
      BY <2>1
  <1>3. inputText' \in Text /\ history \in Seq(Records)
    BY InputsTyped DEF PageInv
  <1>4. detectedEncoding \in {"unknown", "charT_u8", "charTC_u8", "ambiguous"}
    BY DEF PageInv
  <1>5. CASE IsBlank(inputText')
    <2>1. history' = history /\ detectedEncoding' = detectedEncoding
      BY <1>5 DEF Convert, ClearResults
    <2> QED
      BY <1>1, <1>2, <1>3, <1>4, <2>1 DEF Kept
  <1>6. CASE ~IsBlank(inputText') /\ direction = "encode"
    <2> DEFINE h == Append(history, OfText(inputText'))
    <2>1. ConvertText
      BY <1>6 DEF Convert
    <2>2. detectedEncoding' = detectedEncoding /\ history' \in {history, h}
      BY <2>1 DEF ConvertText, OfText
    <2>3. h \in Seq(Records)
      <3>1. "unknown" \in Encodings
        BY DEF Encodings
      <3>2. OfText(inputText') \in Records
        BY <1>3, <3>1, RecordsMade
      <3> QED
        BY <1>3, <3>2
    <2>4. Len(h) >= Len(history)
      BY <1>3
    <2> HIDE DEF h
    <2>5. history' \in Seq(Records) /\ Len(history') >= Len(history)
      BY <1>3, <2>2, <2>3, <2>4
    <2> QED
      BY <1>1, <1>2, <1>4, <2>2, <2>5 DEF Kept
  <1>7. CASE ~IsBlank(inputText') /\ direction # "encode"
    <2> DEFINE h == Append(history, OfCode(inputText', detectedEncoding'))
    <2>1. ConvertCode
      BY <1>7 DEF Convert
    <2>2. detectedEncoding' = Detect(inputText') /\ history' = h
      BY <2>1 DEF ConvertCode, OfCode
    <2>3. detectedEncoding' \in {"unknown", "charT_u8", "charTC_u8", "ambiguous"}
      BY <2>2, Detected
    <2>4. detectedEncoding' \in Encodings /\ detectedEncoding' # "UTF-8"
      BY <2>3 DEF Encodings, ValidInputEncodings
    <2>5. h \in Seq(Records)
      <3>1. OfCode(inputText', detectedEncoding') \in Records
        BY <1>3, <2>4, RecordsMade
      <3> QED
        BY <1>3, <3>1
    <2>6. Len(h) >= Len(history)
      BY <1>3
    <2> QED
      BY <1>1, <1>2, <2>2, <2>3, <2>5, <2>6 DEF Kept
  <1> QED
    BY <1>5, <1>6, <1>7

LEMMA DirectionStep ==
  ASSUME PageInv, OnDirectionChanged
  PROVE  PageInv'
  <1>1. /\ direction' \in {"encode", "decode"} /\ inputText' = <<>> /\ detectedEncoding' = "unknown"
        /\ trial' = trial /\ history' = history /\ importErrors' = importErrors /\ imports' = imports
        /\ files' = files /\ edits' = edits
    BY DEF OnDirectionChanged
  <1> QED
    BY <1>1 DEF PageInv

LEMMA TextStep ==
  ASSUME CodecsTyped, PageInv, ChangeText
  PROVE  PageInv'
  <1>1. inputText' \in Inputs /\ Convert
    BY DEF ChangeText
  <1>2. Kept /\ direction' = direction
        /\ detectedEncoding' \in {"unknown", "charT_u8", "charTC_u8", "ambiguous"}
    BY <1>1, ConvertTyped
  <1>3. Inputs' = Inputs
    BY <1>2 DEF Kept, Inputs
  <1>4. \A k \in DOMAIN imports : imports[k].state = "read" => Len(history') >= imports[k].imported
    <2>1. Len(history) \in Nat /\ Len(history') \in Nat /\ Len(history') >= Len(history)
      BY <1>2 DEF Kept, PageInv
    <2>2. \A k \in DOMAIN imports : imports[k].imported \in Nat
      BY ImportTyped
    <2>3. \A k \in DOMAIN imports : imports[k].state = "read" => Len(history) >= imports[k].imported
      BY DEF PageInv
    <2> QED
      BY <2>1, <2>2, <2>3
  <1> QED
    BY <1>1, <1>2, <1>3, <1>4 DEF PageInv, Kept

LEMMA DownloadStep ==
  ASSUME PageInv, DownloadHistoryAsync
  PROVE  PageInv'
  <1> DEFINE file == [csv |-> Serialize(history), saved |-> history]
  <1>1. files' = {file} \cup trial.files
    BY DEF DownloadHistoryAsync
  <1>2. /\ trial' = trial /\ direction' = direction /\ inputText' = inputText
        /\ detectedEncoding' = detectedEncoding /\ history' = history /\ importErrors' = importErrors
        /\ imports' = imports /\ edits' = edits
    BY DEF DownloadHistoryAsync, shown
  <1>3. trial.files \subseteq Files
    BY TrialParts DEF PageInv
  <1>4. file \in Files
    BY SerializeTyped DEF PageInv, Files
  <1>5. files' \subseteq Files /\ Inputs' = Inputs
    BY <1>1, <1>2, <1>3, <1>4 DEF Inputs
  <1> QED
    BY <1>2, <1>5 DEF PageInv

(* An element of a sequence that is replaced.                              *)
LEMMA Replaced ==
  ASSUME NEW S, NEW s \in Seq(S), NEW k \in DOMAIN s, NEW e \in S
  PROVE  LET t == [s EXCEPT ![k] = e]
         IN  /\ t \in Seq(S) /\ DOMAIN t = DOMAIN s /\ Len(t) = Len(s)
             /\ t[k] = e /\ \A a \in DOMAIN s : a # k => t[a] = s[a]
  OBVIOUS

LEMMA Appended ==
  ASSUME NEW S, NEW s \in Seq(S), NEW e \in S
  PROVE  LET t == Append(s, e)
         IN  /\ t \in Seq(S) /\ DOMAIN t = DOMAIN s \cup {Len(s) + 1} /\ Len(t) = Len(s) + 1
             /\ t[Len(s) + 1] = e /\ \A a \in DOMAIN s : t[a] = s[a]
  OBVIOUS

LEMMA Joined ==
  ASSUME NEW S, NEW s \in Seq(S), NEW t \in Seq(S)
  PROVE  /\ s \o t \in Seq(S) /\ Len(s \o t) = Len(s) + Len(t)
         /\ \A i \in 1..Len(s) : (s \o t)[i] = s[i]
         /\ \A i \in 1..Len(t) : (s \o t)[Len(s) + i] = t[i]
  OBVIOUS

LEMMA ImportStep ==
  ASSUME PageInv, ImportCsvAsync
  PROVE  PageInv'
  <1>1. PICK file \in files :
          /\ Len(imports) < trial.imports /\ importErrors' = <<>>
          /\ imports' = Append(imports, [file |-> file, state |-> "reading", imported |-> 0, skipped |-> 0])
    BY DEF ImportCsvAsync
  <1> DEFINE new == [file |-> file, state |-> "reading", imported |-> 0, skipped |-> 0]
  <1>2. /\ trial' = trial /\ direction' = direction /\ inputText' = inputText
        /\ detectedEncoding' = detectedEncoding /\ history' = history /\ files' = files /\ edits' = edits
    BY DEF ImportCsvAsync, shown
  <1>3. new \in Imports /\ new.state # "read"
    BY DEF PageInv, Imports
  <1>4. imports \in Seq(Imports) /\ trial.imports \in Nat /\ Len(imports) \in Nat
    BY TrialParts DEF PageInv
  <1> HIDE DEF new
  <1>5. imports' = Append(imports, new)
    BY <1>1 DEF new
  <1>6. /\ imports' \in Seq(Imports) /\ DOMAIN imports' = DOMAIN imports \cup {Len(imports) + 1}
        /\ Len(imports') = Len(imports) + 1 /\ imports'[Len(imports) + 1] = new
        /\ \A a \in DOMAIN imports : imports'[a] = imports[a]
    BY <1>3, <1>4, <1>5, Appended
  <1>7. Len(imports') <= trial.imports
    BY <1>1, <1>4, <1>6
  <1>8. ASSUME NEW k \in DOMAIN imports', imports'[k].state = "read" PROVE Len(history) >= imports'[k].imported
    <2>1. k \in DOMAIN imports
      BY <1>3, <1>6, <1>8
    <2> QED
      BY <1>6, <1>8, <2>1 DEF PageInv
  <1>9. importErrors' \in Seq(Found) /\ Inputs' = Inputs
    BY <1>1, <1>2 DEF Inputs
  <1> QED
    BY <1>2, <1>6, <1>7, <1>8, <1>9 DEF PageInv

LEMMA ReadFailsStep ==
  ASSUME PageInv, ReadFails
  PROVE  PageInv'
  <1>1. PICK k \in Reading : imports' = [imports EXCEPT ![k].state = "failed"]
    BY DEF ReadFails
  <1>2. /\ trial' = trial /\ direction' = direction /\ inputText' = inputText
        /\ detectedEncoding' = detectedEncoding /\ history' = history /\ files' = files /\ edits' = edits
        /\ importErrors' = importErrors
    BY DEF ReadFails, shown
  <1> DEFINE new == [imports[k] EXCEPT !.state = "failed"]
  <1>3. k \in DOMAIN imports /\ imports \in Seq(Imports)
    BY DEF Reading, PageInv
  <1>4. imports[k] \in Imports
    BY <1>3
  <1>5. new \in Imports /\ new.state # "read"
    BY <1>4 DEF Imports
  <1>6. imports' = [imports EXCEPT ![k] = new]
    BY <1>1
  <1> HIDE DEF new
  <1>7. /\ imports' \in Seq(Imports) /\ DOMAIN imports' = DOMAIN imports /\ Len(imports') = Len(imports)
        /\ imports'[k] = new /\ \A a \in DOMAIN imports : a # k => imports'[a] = imports[a]
    BY <1>3, <1>5, <1>6, Replaced
  <1>8. \A a \in DOMAIN imports' : imports'[a].state = "read" => Len(history) >= imports'[a].imported
    BY <1>5, <1>7 DEF PageInv
  <1>9. Inputs' = Inputs
    BY <1>2 DEF Inputs
  <1> QED
    BY <1>2, <1>7, <1>8, <1>9 DEF PageInv

(* What an import adds to the history.                                     *)
Added(csv) == [j \in DOMAIN Deserialize(csv).validRows |-> Rerun(Deserialize(csv).validRows[j])]

LEMMA AddedTyped ==
  ASSUME CodecsTyped, NEW csv \in Text
  PROVE  /\ Added(csv) \in Seq(Records) /\ Len(Added(csv)) = Len(Deserialize(csv).validRows)
         /\ Len(Deserialize(csv).validRows) \in Nat
  <1> DEFINE rows == Deserialize(csv).validRows
             added == [j \in DOMAIN rows |-> Rerun(rows[j])]
  <1>1. rows \in Seq(Rows)
    BY DeserializeTyped
  <1>2. Added(csv) = added
    BY DEF Added
  <1> HIDE DEF rows
  <1>3. DOMAIN rows = 1..Len(rows) /\ Len(rows) \in Nat /\ \A j \in 1..Len(rows) : rows[j] \in Rows
    BY <1>1
  <1>4. \A j \in 1..Len(rows) : Rerun(rows[j]) \in Records
    BY <1>3, RerunTyped
  <1>5. added \in [1..Len(rows) -> Records]
    BY <1>3, <1>4
  <1> HIDE DEF added
  <1>6. added \in Seq(Records) /\ Len(added) = Len(rows)
    BY <1>3, <1>5
  <1> QED
    BY <1>2, <1>3, <1>6 DEF rows

(* The parts of FinishImport, by the import that is read.                  *)
Finishes(k) ==
  LET result == Deserialize(imports[k].file.csv)
  IN  /\ k \in DOMAIN imports /\ imports[k].state = "reading" /\ imports[k].file.csv \in Text
      /\ history' = history \o Added(imports[k].file.csv)
      /\ importErrors' = importErrors \o result.errors
      /\ imports' = [imports EXCEPT ![k] = [imports[k] EXCEPT !.state = "read",
                       !.imported = Len(result.validRows), !.skipped = Len(result.errors)]]
      /\ UNCHANGED <<trial, direction, inputText, u8, uc, ucCrcWarnings, detectedEncoding, files, edits>>

LEMMA FinishIs ==
  ASSUME PageInv, FinishImport
  PROVE  \E k \in Reading : Finishes(k)
  <1>1. PICK k \in Reading :
          LET result == Deserialize(imports[k].file.csv)
          IN  /\ history' = history \o [j \in DOMAIN result.validRows |-> Rerun(result.validRows[j])]
              /\ importErrors' = importErrors \o result.errors
              /\ imports' = [imports EXCEPT ![k].state = "read", ![k].imported = Len(result.validRows),
                                            ![k].skipped = Len(result.errors)]
              /\ UNCHANGED <<trial, shown, files, edits>>
    BY DEF FinishImport
  <1> DEFINE result == Deserialize(imports[k].file.csv)
  <1>2. k \in DOMAIN imports /\ imports[k].state = "reading"
    BY DEF Reading
  <1>3. imports[k].file.csv \in Text
    <2>1. imports[k] \in Imports
      BY <1>2 DEF PageInv
    <2> QED
      BY <2>1 DEF Imports, Files
  <1>4. history' = history \o Added(imports[k].file.csv)
    BY <1>1 DEF Added
  <1> HIDE DEF result
  <1>5. imports' = [imports EXCEPT ![k].state = "read", ![k].imported = Len(result.validRows),
                                   ![k].skipped = Len(result.errors)]
    BY <1>1 DEF result
  <1>6. imports' = [imports EXCEPT ![k] = [imports[k] EXCEPT !.state = "read",
                       !.imported = Len(result.validRows), !.skipped = Len(result.errors)]]
    BY <1>2, <1>5 DEF PageInv
  <1>7. importErrors' = importErrors \o result.errors
    BY <1>1 DEF result
  <1>8. UNCHANGED <<trial, direction, inputText, u8, uc, ucCrcWarnings, detectedEncoding, files, edits>>
    BY <1>1 DEF shown
  <1> QED
    BY <1>2, <1>3, <1>4, <1>6, <1>7, <1>8 DEF Finishes, result

LEMMA FinishStep ==
  ASSUME CodecsTyped, PageInv, FinishImport
  PROVE  PageInv'
  <1>1. PICK k \in Reading : Finishes(k)
    BY FinishIs
  <1> DEFINE csv == imports[k].file.csv
             result == Deserialize(csv)
             new == [imports[k] EXCEPT !.state = "read", !.imported = Len(result.validRows),
                                       !.skipped = Len(result.errors)]
  <1>2. /\ k \in DOMAIN imports /\ csv \in Text /\ history' = history \o Added(csv)
        /\ importErrors' = importErrors \o result.errors /\ imports' = [imports EXCEPT ![k] = new]
    BY <1>1 DEF Finishes
  <1>3. /\ trial' = trial /\ direction' = direction /\ inputText' = inputText
        /\ detectedEncoding' = detectedEncoding /\ files' = files /\ edits' = edits
    BY <1>1 DEF Finishes
  <1> HIDE DEF csv
  <1>4. /\ Added(csv) \in Seq(Records) /\ Len(Added(csv)) = Len(result.validRows)
        /\ Len(result.validRows) \in Nat
    BY <1>2, AddedTyped
  <1>5. result.errors \in Seq(Found)
    BY <1>2, DeserializeTyped
  <1>6. history \in Seq(Records) /\ importErrors \in Seq(Found) /\ imports \in Seq(Imports)
    BY DEF PageInv
  <1> DEFINE added == Added(csv)
             errors == result.errors
  <1>7. new \in Imports
    <2>1. imports[k] \in Imports
      BY <1>2, <1>6
    <2>2. Len(errors) \in Nat
      BY <1>5
    <2> DEFINE m == Len(result.validRows)
               n == Len(errors)
               old == imports[k]
    <2> HIDE DEF m, n, old
    <2>3. [old EXCEPT !.state = "read", !.imported = m, !.skipped = n] \in Imports
      BY <1>4, <2>1, <2>2 DEF Imports, m, n, old
    <2> QED
      BY <2>3 DEF m, n, old
  <1>8. new.state = "read" /\ new.imported = Len(added)
    <2>1. imports[k] \in Imports
      BY <1>2, <1>6
    <2> QED
      BY <1>4, <2>1 DEF Imports
  <1> HIDE DEF result, new, added, errors
  <1>9. /\ history' \in Seq(Records) /\ Len(history') = Len(history) + Len(added)
        /\ Len(history) \in Nat /\ Len(added) \in Nat
    <2>1. added \in Seq(Records) /\ history' = history \o added
      BY <1>2, <1>4 DEF added
    <2>2. history \o added \in Seq(Records) /\ Len(history \o added) = Len(history) + Len(added)
      BY <1>6, <2>1, Joined
    <2> QED
      BY <1>6, <2>1, <2>2
  <1>10. importErrors' \in Seq(Found)
    BY <1>2, <1>5, <1>6, Joined DEF errors
  <1>11. /\ imports' \in Seq(Imports) /\ DOMAIN imports' = DOMAIN imports /\ Len(imports') = Len(imports)
         /\ imports'[k] = new /\ \A a \in DOMAIN imports : a # k => imports'[a] = imports[a]
    BY <1>2, <1>6, <1>7, Replaced
  <1>12. ASSUME NEW a \in DOMAIN imports', imports'[a].state = "read" PROVE Len(history') >= imports'[a].imported
    <2>1. CASE a = k
      BY <1>8, <1>9, <1>11, <2>1
    <2>2. CASE a # k
      <3>1. imports'[a] = imports[a] /\ a \in DOMAIN imports
        BY <1>11, <2>2
      <3>2. imports[a].imported \in Nat
        BY <3>1, ImportTyped
      <3>3. Len(history) >= imports[a].imported
        BY <1>12, <3>1 DEF PageInv
      <3> QED
        BY <1>9, <3>1, <3>2, <3>3
    <2> QED
      BY <2>1, <2>2
  <1>13. Inputs' = Inputs
    BY <1>3 DEF Inputs
  <1> QED
    BY <1>3, <1>9, <1>10, <1>11, <1>12, <1>13 DEF PageInv

LEMMA CloseStep ==
  ASSUME PageInv, CloseErrors
  PROVE  PageInv'
  <1>1. /\ trial' = trial /\ direction' = direction /\ inputText' = inputText
        /\ detectedEncoding' = detectedEncoding /\ history' = history /\ files' = files /\ edits' = edits
        /\ importErrors' = <<>> /\ imports' = imports
    BY DEF CloseErrors, shown
  <1>2. importErrors' \in Seq(Found) /\ Inputs' = Inputs
    BY <1>1 DEF Inputs
  <1> QED
    BY <1>1, <1>2 DEF PageInv

LEMMA NextPage == CodecsTyped /\ PageInv /\ [Next]_vars => PageInv'
  <1> SUFFICES ASSUME CodecsTyped, PageInv, [Next]_vars PROVE PageInv'
    OBVIOUS
  <1>1. CASE UNCHANGED vars
    BY <1>1 DEF vars, shown, PageInv, Inputs
  <1> QED
    BY <1>1, DirectionStep, TextStep, DownloadStep, ImportStep, ReadFailsStep, FinishStep, CloseStep DEF Next

LEMMA PageInvHolds == ASSUME CodecsTyped PROVE Spec => []PageInv
  BY InitPage, NextPage, PTL DEF Spec

(* The page's variables have their types, an input its direction, and a    *)
(* record the encodings that go together, for any codecs, files and bounds *)
(* (CharTStringConverter.razor:187-271, 351-399).                          *)
THEOREM PageTyped == ASSUME CodecsTyped PROVE Spec => []TypeOK
  <1>1. PageInv => TypeOK
    <2> SUFFICES ASSUME PageInv PROVE TypeOK
      OBVIOUS
    <2>1. ASSUME NEW k \in DOMAIN history
          PROVE  /\ history[k].inputEncoding \in ValidInputEncodings \cup {"unknown", "ambiguous"}
                 /\ history[k].inputEncoding = "UTF-8" <=> history[k].encoding1 = "charT_u8"
      <3> DEFINE r == history[k]
      <3>1. r \in RecordForms /\ Made(r)
        BY DEF PageInv, Records
      <3> HIDE DEF r
      <3>2. r.inputEncoding = "UTF-8" <=> r.encoding1 = "charT_u8"
        <4> DEFINE x == r.input
                   e == r.inputEncoding
        <4>1. r = OfText(x) \/ (e # "UTF-8" /\ r = OfCode(x, e)) \/ r = OfU8(x) \/ r = OfUc(x)
          BY <3>1 DEF Made
        <4>2. OfText(x).inputEncoding = "UTF-8" /\ OfText(x).encoding1 = "charT_u8"
          BY DEF OfText, Record
        <4>3. OfU8(x).inputEncoding = "charT_u8" /\ OfU8(x).encoding1 = "UTF-8"
          BY DEF OfU8, Record
        <4>4. OfUc(x).inputEncoding = "charTC_u8" /\ OfUc(x).encoding1 = "UTF-8"
          BY DEF OfUc, Record
        <4>5. OfCode(x, e).encoding1 = "UTF-8"
          BY DEF OfCode, Record
        <4>6. CASE r = OfText(x)
          BY <4>2, <4>6
        <4>7. CASE e # "UTF-8" /\ r = OfCode(x, e)
          <5>1. r.encoding1 = "UTF-8"
            BY <4>5, <4>7
          <5> QED
            BY <4>7, <5>1
        <4>8. CASE r = OfU8(x)
          BY <4>3, <4>8
        <4>9. CASE r = OfUc(x)
          BY <4>4, <4>9
        <4> QED
          BY <4>1, <4>6, <4>7, <4>8, <4>9
      <3> QED
        BY <3>1, <3>2 DEF RecordForms, Encodings, r
    <2> QED
      BY <2>1 DEF PageInv, TypeOK
  <1> QED
    BY <1>1, PageInvHolds, PTL

-----------------------------------------------------------------------------
(* Where a record stands in the file.                                      *)

LEMMA NoLineFeeds ==
  ASSUME NEW text
  PROVE  LineFeeds(text, 1, 0) = 0
  <1>1. {j \in 1..0 : text[j] = Lf} = {}
    OBVIOUS
  <1> QED
    BY <1>1, FS_EmptySet DEF LineFeeds

LEMMA OneMoreToken ==
  ASSUME NEW text, NEW k \in Nat
  PROVE  /\ LineFeeds(text, 1, k) \in Nat
         /\ LineFeeds(text, 1, k + 1) = LineFeeds(text, 1, k) + IF text[k + 1] = Lf THEN 1 ELSE 0
  <1> DEFINE S == {j \in 1..k : text[j] = Lf}
             T == {j \in 1..k + 1 : text[j] = Lf}
  <1>1. IsFiniteSet(S)
    <2>1. IsFiniteSet(1..k) /\ S \in SUBSET (1..k)
      BY FS_Interval
    <2> HIDE DEF S
    <2> QED
      BY <2>1, FS_Subset
  <1>2. T = IF text[k + 1] = Lf THEN S \cup {k + 1} ELSE S
    OBVIOUS
  <1>3. k + 1 \notin S
    OBVIOUS
  <1>4. LineFeeds(text, 1, k) = Cardinality(S) /\ LineFeeds(text, 1, k + 1) = Cardinality(T)
    BY DEF LineFeeds
  <1> HIDE DEF S, T
  <1>5. Cardinality(S) \in Nat
    BY <1>1, FS_CardinalityType
  <1>6. Cardinality(T) = Cardinality(S) + IF text[k + 1] = Lf THEN 1 ELSE 0
    BY <1>1, <1>2, <1>3, <1>5, FS_AddElement
  <1> QED
    BY <1>4, <1>5, <1>6

(* t stands at p, where a line begins, behind n line feeds.                *)
BeginsAt(text, t, n, p) ==
  /\ p = 1 \/ text[p - 1] = Lf
  /\ LineFeeds(text, 1, p - 1) = n
  /\ \A i \in 1..Len(t) : t[i] = text[p + i - 1]

AtItsLine(text, r) ==
  \E p \in 1..Len(text) - Len(r.text) + 1 : BeginsAt(text, r.text, r.line - 1, p)

(* One token further the text grows by it, or becomes a record.            *)
LEMMA TokenScanned ==
  ASSUME NEW text \in Text, NEW k \in 1..Len(text), NEW s \in ScanStates
  PROVE  LET t == ScanToken(text, k, s)
             line == s.line + IF text[k] = Lf THEN 1 ELSE 0
         IN  /\ t.line = line
             /\ \/ t.records = s.records /\ t.text = Append(s.text, text[k]) /\ t.start = s.start
                \/ /\ text[k] = Lf /\ t.text = <<>> /\ t.start = line
                   /\ t.records = Append(s.records, [text |-> s.text, line |-> s.start])
  <1> DEFINE token == text[k]
             line == s.line + LinesOf(token, s.inQuotes)
             more == [s EXCEPT !.text = Append(@, token), !.line = line]
             next == [s EXCEPT !.records = Append(@, [text |-> s.text, line |-> s.start]),
                               !.text = <<>>, !.line = line, !.start = line]
             t == ScanToken(text, k, s)
  <1>1. \/ t \in {[more EXCEPT !.skip = FALSE], [more EXCEPT !.skip = TRUE],
                  [more EXCEPT !.inQuotes = ~@], more}
        \/ token = Lf /\ t = next
    BY DEF ScanToken
  <1>2. line = s.line + IF text[k] = Lf THEN 1 ELSE 0
    BY DEF LinesOf
  <1> HIDE DEF t, line, token
  <1>3. /\ more.records = s.records /\ more.text = Append(s.text, token) /\ more.start = s.start
        /\ more.line = line /\ more \in [records : {s.records}, text : {Append(s.text, token)},
             inQuotes : BOOLEAN, skip : BOOLEAN, start : {s.start}, line : {line}]
    BY DEF ScanStates
  <1>4. /\ next.records = Append(s.records, [text |-> s.text, line |-> s.start])
        /\ next.text = <<>> /\ next.start = line /\ next.line = line
    BY DEF ScanStates
  <1>5. CASE token = Lf /\ t = next
    BY <1>2, <1>4, <1>5 DEF t, token
  <1> HIDE DEF more
  <1>6. CASE t \in {[more EXCEPT !.skip = FALSE], [more EXCEPT !.skip = TRUE],
                    [more EXCEPT !.inQuotes = ~@], more}
    <2>1. t.records = more.records /\ t.text = more.text /\ t.start = more.start /\ t.line = more.line
      BY <1>3, <1>6
    <2> QED
      BY <1>2, <1>3, <2>1 DEF t, token
  <1> QED
    BY <1>1, <1>5, <1>6

(* The state of the scan after k tokens: the text so far stands at its     *)
(* line, and so does every record.                                         *)
ScannedTo(text, k, s) ==
  /\ s.line = LineFeeds(text, 1, k) + 1
  /\ \E p \in 1..k + 1 : Len(s.text) = k - p + 1 /\ BeginsAt(text, s.text, s.start - 1, p)
  /\ \A j \in 1..Len(s.records) : AtItsLine(text, s.records[j])

LEMMA StepScans ==
  ASSUME NEW text \in Text, NEW k \in 0..Len(text) - 1, NEW s \in ScanStates,
         ScannedTo(text, k, s)
  PROVE  ScannedTo(text, k + 1, ScanToken(text, k + 1, s))
  <1> DEFINE t == ScanToken(text, k + 1, s)
             line == s.line + IF text[k + 1] = Lf THEN 1 ELSE 0
  <1>1. k + 1 \in 1..Len(text) /\ Len(text) \in Nat /\ k \in Nat
    BY DEF Text
  <1>2. /\ s.records \in Seq(Found) /\ s.text \in Text /\ s.start \in Nat /\ s.line \in Nat
        /\ Len(s.text) \in Nat /\ Len(s.records) \in Nat
    BY DEF ScanStates, Text
  <1>3. /\ t.line = line
        /\ \/ t.records = s.records /\ t.text = Append(s.text, text[k + 1]) /\ t.start = s.start
           \/ /\ text[k + 1] = Lf /\ t.text = <<>> /\ t.start = line
              /\ t.records = Append(s.records, [text |-> s.text, line |-> s.start])
    BY <1>1, TokenScanned
  <1>4. line = LineFeeds(text, 1, k + 1) + 1
    BY <1>1, OneMoreToken DEF ScannedTo
  <1>5. PICK p \in 1..k + 1 : Len(s.text) = k - p + 1 /\ BeginsAt(text, s.text, s.start - 1, p)
    BY DEF ScannedTo
  <1>6. \A j \in 1..Len(s.records) : AtItsLine(text, s.records[j])
    BY DEF ScannedTo
  <1>7. LineFeeds(text, 1, k + 1) \in Nat
    BY <1>1, OneMoreToken
  <1> HIDE DEF t, line
  <1>8. CASE t.records = s.records /\ t.text = Append(s.text, text[k + 1]) /\ t.start = s.start
    <2>1. text[k + 1] \in Token
      BY <1>1 DEF Text
    <2>2. /\ Len(t.text) = Len(s.text) + 1 /\ t.text[Len(s.text) + 1] = text[k + 1]
          /\ \A i \in 1..Len(s.text) : t.text[i] = s.text[i]
      BY <1>2, <1>8, <2>1 DEF Text
    <2>3. Len(t.text) = (k + 1) - p + 1 /\ p \in 1..(k + 1) + 1
      BY <1>1, <1>2, <1>5, <2>2
    <2>4. \A i \in 1..Len(t.text) : t.text[i] = text[p + i - 1]
      <3>1. Len(s.text) + 1 + p - 1 = k + 1
        BY <1>1, <1>2, <1>5
      <3>2. ASSUME NEW i \in 1..Len(t.text) PROVE t.text[i] = text[p + i - 1]
        <4>1. CASE i = Len(s.text) + 1
          <5>1. p + i - 1 = k + 1
            BY <1>1, <1>2, <1>5, <4>1
          <5> QED
            BY <2>2, <4>1, <5>1
        <4>2. CASE i # Len(s.text) + 1
          <5>1. i \in 1..Len(s.text)
            BY <1>2, <2>2, <4>2
          <5> QED
            BY <1>5, <2>2, <5>1 DEF BeginsAt
        <4> QED
          BY <4>1, <4>2
      <3> QED
        BY <3>2
    <2>5. BeginsAt(text, t.text, t.start - 1, p)
      BY <1>5, <1>8, <2>4 DEF BeginsAt
    <2> QED
      BY <1>3, <1>4, <1>6, <1>8, <2>3, <2>5 DEF ScannedTo, t
  <1>9. CASE /\ text[k + 1] = Lf /\ t.text = <<>> /\ t.start = line
             /\ t.records = Append(s.records, [text |-> s.text, line |-> s.start])
    <2> DEFINE r == [text |-> s.text, line |-> s.start]
    <2>1. r \in Found /\ r.text = s.text /\ r.line = s.start
      BY <1>2 DEF Found
    <2>2. AtItsLine(text, r)
      <3>1. p \in 1..Len(text) - Len(s.text) + 1
        BY <1>1, <1>2, <1>5
      <3> QED
        BY <1>5, <2>1, <3>1 DEF AtItsLine
    <2> HIDE DEF r
    <2>3. t.records = Append(s.records, r)
      BY <1>9 DEF r
    <2>4. /\ Len(t.records) = Len(s.records) + 1 /\ t.records[Len(s.records) + 1] = r
          /\ \A j \in 1..Len(s.records) : t.records[j] = s.records[j]
      BY <1>2, <2>1, <2>3
    <2>5. \A j \in 1..Len(t.records) : AtItsLine(text, t.records[j])
      <3>1. ASSUME NEW j \in 1..Len(t.records) PROVE AtItsLine(text, t.records[j])
        <4>1. j \in 1..Len(s.records) \/ j = Len(s.records) + 1
          BY <1>2, <2>4
        <4> QED
          BY <1>6, <2>2, <2>4, <4>1
      <3> QED
        BY <3>1
    <2>6. k + 2 \in 1..(k + 1) + 1 /\ Len(t.text) = 0 /\ (k + 1) - (k + 2) + 1 = 0 /\ (k + 2) - 1 = k + 1
      BY <1>1, <1>9
    <2>7. t.start - 1 = LineFeeds(text, 1, k + 1)
      BY <1>4, <1>7, <1>9
    <2>8. BeginsAt(text, t.text, t.start - 1, k + 2)
      BY <1>9, <2>6, <2>7 DEF BeginsAt
    <2> QED
      BY <1>3, <1>4, <2>5, <2>6, <2>8 DEF ScannedTo, t
  <1> QED
    BY <1>3, <1>8, <1>9

LEMMA RecordsAtTheirLines ==
  ASSUME NEW text \in Text, NEW j \in 1..Len(ReadRecords(text))
  PROVE  AtItsLine(text, ReadRecords(text)[j])
  <1> DEFINE n == Len(text)
  <1>1. n \in Nat
    BY DEF Text
  <1>2. PICK R \in [0..n -> ScanStates] :
          /\ Scan(text) = R[n]
          /\ R[0] = ScanStart
          /\ \A k \in 1..n : R[k] = ScanToken(text, k, R[k - 1])
    BY ScanUnfolds
  <1> DEFINE Good == {k \in 0..n : ScannedTo(text, k, R[k])}
  <1>3. 0 \in Good
    <2>1. /\ ScanStart.line = 1 /\ ScanStart.start = 1 /\ ScanStart.text = <<>> /\ ScanStart.records = <<>>
      BY DEF ScanStart
    <2>2. 1 \in 1..0 + 1 /\ Len(<<>>) = 0 - 1 + 1 /\ BeginsAt(text, <<>>, 1 - 1, 1)
      BY NoLineFeeds DEF BeginsAt
    <2>3. ScannedTo(text, 0, ScanStart)
      BY <2>1, <2>2, NoLineFeeds DEF ScannedTo
    <2> QED
      BY <1>1, <1>2, <2>3
  <1>4. ASSUME NEW k \in 0..n - 1, k \in Good PROVE k + 1 \in Good
    <2>1. R[k] \in ScanStates /\ ScannedTo(text, k, R[k]) /\ k + 1 \in 1..n /\ (k + 1) - 1 = k
      BY <1>1, <1>4
    <2>2. R[k + 1] = ScanToken(text, k + 1, R[k])
      BY <1>2, <2>1
    <2>3. ScannedTo(text, k + 1, R[k + 1])
      BY <2>1, <2>2, StepScans
    <2> QED
      BY <1>1, <2>1, <2>3
  <1>5. 0..n \subseteq Good
    <2>1. n \in Int /\ 0 \in Int
      BY <1>1
    <2> HIDE DEF Good, n
    <2> QED
      BY <1>3, <1>4, <2>1, IntervalInduction
  <1> DEFINE end == Scan(text)
             last == [text |-> end.text, line |-> end.start]
  <1>6. ScannedTo(text, n, end) /\ end \in ScanStates
    BY <1>1, <1>2, <1>5
  <1>7. end.records \in Seq(Found) /\ end.text \in Text /\ Len(end.text) \in Nat
    BY <1>6 DEF ScanStates, Text
  <1>8. AtItsLine(text, last)
    <2>1. PICK p \in 1..n + 1 : Len(end.text) = n - p + 1 /\ BeginsAt(text, end.text, end.start - 1, p)
      BY <1>6 DEF ScannedTo
    <2>2. p \in 1..n - Len(end.text) + 1
      BY <1>1, <1>7, <2>1
    <2> QED
      BY <2>1, <2>2 DEF AtItsLine
  <1>9. \A a \in 1..Len(end.records) : AtItsLine(text, end.records[a])
    BY <1>6 DEF ScannedTo
  <1> DEFINE records == end.records
  <1>10. last \in Found
    BY <1>6 DEF ScanStates, Found
  <1>11. ReadRecords(text) = records \/ ReadRecords(text) = Append(records, last)
    BY DEF ReadRecords
  <1> HIDE DEF last, end
  <1>12. records \in Seq(Found) /\ \A a \in 1..Len(records) : AtItsLine(text, records[a])
    BY <1>7, <1>9
  <1> HIDE DEF records
  <1>13. CASE ReadRecords(text) = records
    BY <1>12, <1>13
  <1>14. CASE ReadRecords(text) = Append(records, last)
    <2>1. /\ Len(ReadRecords(text)) = Len(records) + 1 /\ ReadRecords(text)[Len(records) + 1] = last
          /\ Len(records) \in Nat /\ \A a \in 1..Len(records) : ReadRecords(text)[a] = records[a]
      BY <1>10, <1>12, <1>14
    <2>2. j \in 1..Len(records) \/ j = Len(records) + 1
      BY <2>1
    <2> QED
      BY <1>8, <1>12, <2>1, <2>2
  <1> QED
    BY <1>11, <1>13, <1>14

LEMMA FilledAtTheirLines ==
  ASSUME NEW csv \in Text, NEW j \in 1..Len(Filled(csv))
  PROVE  AtItsLine(Normalise(csv), Filled(csv)[j])
  <1> DEFINE all == AllRecords(csv)
             places == {k \in DOMAIN all : ~IsBlank(all[k].text)}
  <1>1. all \in Seq(Found) /\ Filled(csv) \in Seq(Found) /\ Filled(csv) = Picked(all, places)
    BY FilledTyped DEF Filled
  <1> HIDE DEF all, places
  <1>2. j \in DOMAIN Picked(all, places)
    BY <1>1
  <1>3. PICK i \in 1..Len(all) : Picked(all, places)[j] = all[i]
    BY <1>1, <1>2, PickedStood
  <1>4. AtItsLine(Normalise(csv), all[i])
    <2>1. all = ReadRecords(Normalise(csv)) /\ Normalise(csv) \in Text
      BY NormaliseTyped DEF all, AllRecords
    <2> QED
      BY <2>1, RecordsAtTheirLines
  <1> QED
    BY <1>1, <1>3, <1>4

(* Every error is a record of the file, so each names the line of its row. *)
LEMMA ErrorsStand ==
  ASSUME NEW csv \in Text, NEW j \in 1..Len(Deserialize(csv).errors)
  PROVE  AtItsLine(Normalise(csv), Deserialize(csv).errors[j])
  <1> DEFINE filled == Filled(csv)
             rows == Tail(filled)
             errors == Picked(rows, BadRows(csv))
  <1>1. filled \in Seq(Found)
    BY FilledTyped
  <1>2. CASE filled = <<>>
    <2>1. Deserialize(csv).errors = <<>>
      BY <1>2, DeserializeIs
    <2> QED
      BY <2>1
  <1>3. CASE filled # <<>> /\ ~HasHeader(csv)
    <2>1. Deserialize(csv).errors = <<filled[1]>>
      BY <1>3, DeserializeIs
    <2>2. j = 1 /\ 1 \in 1..Len(filled)
      BY <1>1, <1>3, <2>1
    <2>3. Deserialize(csv).errors[j] = filled[1]
      BY <2>1, <2>2
    <2> QED
      BY <2>2, <2>3, FilledAtTheirLines
  <1>4. CASE filled # <<>> /\ HasHeader(csv)
    <2>1. Deserialize(csv).errors = errors
      BY <1>4, DeserializeIs
    <2>2. /\ rows \in Seq(Found) /\ Len(rows) = Len(filled) - 1 /\ Len(filled) \in Nat
          /\ \A i \in 1..Len(rows) : rows[i] = filled[i + 1]
      BY <1>1, <1>4
    <2> HIDE DEF rows, filled
    <2>3. errors \in Seq(Found)
      BY <2>2, PickedTyped
    <2>4. j \in DOMAIN errors
      BY <2>1, <2>3
    <2>5. PICK i \in 1..Len(rows) : errors[j] = rows[i]
      BY <2>2, <2>4, PickedStood
    <2>6. i + 1 \in 1..Len(filled) /\ rows[i] = filled[i + 1]
      BY <2>2
    <2>7. AtItsLine(Normalise(csv), filled[i + 1])
      BY <2>6, FilledAtTheirLines DEF filled
    <2> HIDE DEF errors
    <2> QED
      BY <2>1, <2>5, <2>6, <2>7
  <1> QED
    BY <1>2, <1>3, <1>4

-----------------------------------------------------------------------------
(* The import that was read in a step.                                     *)

LEMMA ImportRead ==
  ASSUME PageInv, [Next]_vars, NEW k \in Reading, imports'[k].state = "read"
  PROVE  Finishes(k)
  <1>1. k \in DOMAIN imports /\ imports[k].state = "reading" /\ imports \in Seq(Imports)
    BY DEF Reading, PageInv
  <1>2. CASE imports' = imports
    BY <1>1, <1>2
  <1>3. CASE ImportCsvAsync
    <2>1. PICK file \in files :
            imports' = Append(imports, [file |-> file, state |-> "reading", imported |-> 0, skipped |-> 0])
      BY <1>3 DEF ImportCsvAsync
    <2>2. imports'[k] = imports[k]
      BY <1>1, <2>1
    <2> QED
      BY <1>1, <2>2
  <1>4. CASE ReadFails
    <2>1. PICK a \in Reading : imports' = [imports EXCEPT ![a].state = "failed"]
      BY <1>4 DEF ReadFails
    <2>2. imports'[k] = imports[k] \/ imports'[k] = [imports[k] EXCEPT !.state = "failed"]
      BY <1>1, <2>1
    <2>3. [imports[k] EXCEPT !.state = "failed"].state = "failed"
      BY <1>1, ImportTyped DEF Imports
    <2> QED
      BY <1>1, <2>2, <2>3
  <1>5. CASE FinishImport
    <2>1. PICK a \in Reading : Finishes(a)
      BY <1>5, FinishIs
    <2> DEFINE new == [imports[a] EXCEPT !.state = "read",
                         !.imported = Len(Deserialize(imports[a].file.csv).validRows),
                         !.skipped = Len(Deserialize(imports[a].file.csv).errors)]
    <2>2. imports' = [imports EXCEPT ![a] = new]
      BY <2>1 DEF Finishes
    <2> HIDE DEF new
    <2>3. a # k => imports'[k] = imports[k]
      BY <1>1, <2>2
    <2> QED
      BY <1>1, <2>1, <2>3
  <1>6. CASE \/ OnDirectionChanged \/ ChangeText \/ DownloadHistoryAsync \/ CloseErrors \/ UNCHANGED vars
    <2>1. imports' = imports
      BY <1>6 DEF OnDirectionChanged, ChangeText, Convert, DownloadHistoryAsync, CloseErrors, vars
    <2> QED
      BY <1>2, <2>1
  <1> QED
    BY <1>3, <1>4, <1>5, <1>6 DEF Next

(* What was appended is what is behind the old end.                        *)
LEMMA Appendix ==
  ASSUME NEW S, NEW s \in Seq(S), NEW t \in Seq(S)
  PROVE  SubSeq(s \o t, Len(s) + 1, Len(s \o t)) = t
  <1>1. Len(s) \in Nat /\ Len(t) \in Nat /\ Len(s \o t) = Len(s) + Len(t)
    OBVIOUS
  <1>2. \A i \in 1..Len(t) : (s \o t)[Len(s) + i] = t[i]
    BY Joined
  <1> DEFINE u == SubSeq(s \o t, Len(s) + 1, Len(s \o t))
  <1>3. \A i \in Len(s) + 1..Len(s \o t) : (s \o t)[i] \in S
    <2>1. s \o t \in Seq(S)
      BY Joined
    <2> QED
      BY <1>1, <2>1
  <1>4. u \in Seq(S) /\ Len(u) = Len(t) /\ \A i \in 1..Len(t) : u[i] = (s \o t)[Len(s) + i]
    <2> DEFINE m == Len(s) + 1
               n == Len(s \o t)
    <2>1. m \in Int /\ n \in Int /\ n - m + 1 = Len(t) /\ \A i \in 1..Len(t) : m + i - 1 = Len(s) + i
      BY <1>1
    <2>2. /\ u \in Seq(S) /\ Len(u) = (IF m <= n THEN n - m + 1 ELSE 0)
          /\ \A i \in 1..n - m + 1 : u[i] = (s \o t)[m + i - 1]
      BY <1>1, <1>3, SubSeqProperties
    <2> QED
      BY <1>1, <2>1, <2>2
  <1> HIDE DEF u
  <1> QED
    BY <1>2, <1>4, SeqEqual, SMTT(20)

(* The line that an error of an import names is the one its row begins at, *)
(* in any file (CharTStringCsvSerializer.cs:168-210).                      *)
THEOREM ErrorsNamed == ASSUME CodecsTyped PROVE Spec => ErrorsAtTheirLines
  <1> DEFINE text(k) == Normalise(imports[k].file.csv)
             errors == SubSeq(importErrors', Len(importErrors) + 1, Len(importErrors'))
             StartsAt(k, p, e) ==
               /\ p = 1 \/ text(k)[p - 1] = Lf
               /\ LineFeeds(text(k), 1, p - 1) = e.line - 1
               /\ SubSeq(text(k), p, p + Len(e.text) - 1) = e.text
             Named(k) ==
               imports'[k].state = "read" =>
                 \A j \in DOMAIN errors : \E p \in 1..Len(text(k)) - Len(errors[j].text) + 1 : StartsAt(k, p, errors[j])
  <1>1. ASSUME PageInv, [Next]_vars, NEW k \in Reading PROVE Named(k)
    <2> SUFFICES ASSUME imports'[k].state = "read"
                 PROVE  \A j \in DOMAIN errors :
                          \E p \in 1..Len(text(k)) - Len(errors[j].text) + 1 : StartsAt(k, p, errors[j])
      OBVIOUS
    <2> DEFINE csv == imports[k].file.csv
               found == Deserialize(csv).errors
    <2>1. csv \in Text /\ importErrors' = importErrors \o found
      BY <1>1, ImportRead DEF Finishes
    <2>2. found \in Seq(Found) /\ importErrors \in Seq(Found)
      BY <1>1, <2>1, DeserializeTyped DEF PageInv
    <2>3. errors = found
      BY <2>1, <2>2, Appendix
    <2>4. ASSUME NEW j \in DOMAIN found
          PROVE  \E p \in 1..Len(text(k)) - Len(found[j].text) + 1 : StartsAt(k, p, found[j])
      <3> DEFINE e == found[j]
                 t == text(k)
      <3>1. j \in 1..Len(found) /\ e \in Found /\ t \in Text
        BY <2>1, <2>2, <2>4, NormaliseTyped
      <3>2. AtItsLine(t, e)
        BY <2>1, <3>1, ErrorsStand
      <3>3. PICK p \in 1..Len(t) - Len(e.text) + 1 : BeginsAt(t, e.text, e.line - 1, p)
        BY <3>2 DEF AtItsLine
      <3>4. e.text \in Text /\ Len(e.text) \in Nat /\ Len(t) \in Nat
        BY <3>1 DEF Found, Text
      <3> HIDE DEF e, t
      <3>5. SubSeq(t, p, p + Len(e.text) - 1) = e.text
        <4> DEFINE m == p
                   n == p + Len(e.text) - 1
                   u == SubSeq(t, m, n)
        <4>1. m \in Int /\ n \in Int /\ n - m + 1 = Len(e.text) /\ \A i \in m..n : i \in 1..Len(t)
          BY <3>4
        <4>2. \A i \in m..n : t[i] \in Token
          BY <3>1, <4>1 DEF Text
        <4>3. /\ u \in Seq(Token) /\ Len(u) = (IF m <= n THEN n - m + 1 ELSE 0)
              /\ \A i \in 1..n - m + 1 : u[i] = t[m + i - 1]
          <5> HIDE DEF m, n
          <5> QED
            BY <4>1, <4>2, SubSeqProperties
        <4>4. Len(u) = Len(e.text) /\ \A i \in 1..Len(e.text) : u[i] = e.text[i]
          BY <3>3, <3>4, <4>1, <4>3 DEF BeginsAt
        <4> HIDE DEF u
        <4> QED
          BY <3>4, <4>3, <4>4, SeqEqual DEF Text, u
      <3> QED
        BY <3>3, <3>5 DEF BeginsAt, e, t
    <2> HIDE DEF found, errors
    <2> QED
      BY <2>3, <2>4
  <1>2. PageInv /\ [Next]_vars => [\A k \in Reading : Named(k)]_vars
    BY <1>1
  <1>3. ErrorsAtTheirLines <=> [][\A k \in Reading : Named(k)]_vars
    BY PTL DEF ErrorsAtTheirLines
  <1> HIDE DEF Named
  <1> QED
    BY <1>2, <1>3, PageInvHolds, PTL DEF Spec

-----------------------------------------------------------------------------
(* What Serialize and Normalise make of a text that is one token longer.   *)

LEMMA ConcatOfNone == Concat(<<>>) = <<>>
  <1>1. <<>> \in Seq(Seq({})) /\ Len(<<>>) = 0
    OBVIOUS
  <1>2. PICK R \in [0..Len(<<>>) -> Seq({})] : Concat(<<>>) = R[Len(<<>>)] /\ R[0] = <<>>
    BY <1>1, ConcatUnfolds
  <1> QED
    BY <1>1, <1>2

LEMMA ConcatOfAppend ==
  ASSUME NEW D, NEW texts \in Seq(Seq(D)), NEW t \in Seq(D)
  PROVE  Concat(Append(texts, t)) = Concat(texts) \o t
  <1> DEFINE all == Append(texts, t)
             n == Len(texts)
  <1>1. all \in Seq(Seq(D)) /\ Len(all) = n + 1 /\ n \in Nat /\ all[n + 1] = t /\ \A k \in 1..n : all[k] = texts[k]
    OBVIOUS
  <1>2. PICK R \in [0..Len(texts) -> Seq(D)] :
          Concat(texts) = R[n] /\ R[0] = <<>> /\ \A k \in 1..n : R[k] = R[k - 1] \o texts[k]
    BY ConcatUnfolds
  <1> HIDE DEF all
  <1>3. PICK Q \in [0..Len(all) -> Seq(D)] :
          Concat(all) = Q[Len(all)] /\ Q[0] = <<>> /\ \A k \in 1..Len(all) : Q[k] = Q[k - 1] \o all[k]
    BY <1>1, ConcatUnfolds
  <1>4. SameValues(R, Q, 0, n)
    <2>1. \A k \in 0..n - 1 : R[k] = Q[k] => R[k + 1] = Q[k + 1]
      <3>1. ASSUME NEW k \in 0..n - 1, R[k] = Q[k] PROVE R[k + 1] = Q[k + 1]
        <4>1. k + 1 \in 1..n /\ k + 1 \in 1..Len(all) /\ (k + 1) - 1 = k
          BY <1>1
        <4> QED
          BY <1>1, <1>2, <1>3, <3>1, <4>1
      <3> QED
        BY <3>1
    <2>2. SameSteps(R, Q, 0, n) /\ 0 \in Int /\ n \in Int
      BY <1>1, <1>2, <1>3, <2>1 DEF SameSteps
    <2> HIDE DEF n
    <2> QED
      BY <2>2, SameStepsSameValues
  <1>5. R[n] = Q[n]
    BY <1>1, <1>4 DEF SameValues
  <1>6. n + 1 \in 1..Len(all) /\ (n + 1) - 1 = n
    BY <1>1
  <1>7. Q[n + 1] = Q[n] \o all[n + 1]
    BY <1>3, <1>6
  <1> QED
    BY <1>1, <1>2, <1>3, <1>5, <1>7 DEF all

(* A sequence given as a function, but for its last element.               *)
LEMMA LastApart ==
  ASSUME NEW S, NEW n \in Nat, NEW f \in [1..n + 1 -> S], NEW g \in [1..n -> S],
         \A k \in 1..n : f[k] = g[k]
  PROVE  g \in Seq(S) /\ f = Append(g, f[n + 1])
  <1>1. g \in Seq(S) /\ Len(g) = n /\ f \in Seq(S) /\ Len(f) = n + 1 /\ f[n + 1] \in S
    OBVIOUS
  <1>2. Append(g, f[n + 1]) \in Seq(S) /\ Len(Append(g, f[n + 1])) = n + 1
    BY <1>1
  <1>3. \A k \in 1..n + 1 : f[k] = Append(g, f[n + 1])[k]
    BY <1>1
  <1> QED
    BY <1>1, <1>2, <1>3, SeqEqual

LEMMA DoubledOfNone == Doubled(<<>>) = <<>>
  <1>1. [k \in DOMAIN <<>> |-> IF (<<>>)[k] = Quote THEN <<Quote, Quote>> ELSE <<(<<>>)[k]>>] = <<>>
    OBVIOUS
  <1> QED
    BY <1>1, ConcatOfNone DEF Doubled

Twice(c) == IF c = Quote THEN <<Quote, Quote>> ELSE <<c>>

LEMMA TwiceTyped ==
  ASSUME NEW c \in Token
  PROVE  Twice(c) \in Text
  <1>1. Quote \in Token
    BY DEF Token
  <1> QED
    BY <1>1 DEF Twice, Text

LEMMA DoubledOfAppend ==
  ASSUME NEW field \in Text, NEW c \in Token
  PROVE  Doubled(Append(field, c)) = Doubled(field) \o Twice(c)
  <1> DEFINE long == Append(field, c)
             n == Len(field)
             f == [k \in DOMAIN long |-> IF long[k] = Quote THEN <<Quote, Quote>> ELSE <<long[k]>>]
             g == [k \in DOMAIN field |-> IF field[k] = Quote THEN <<Quote, Quote>> ELSE <<field[k]>>]
  <1>1. /\ n \in Nat /\ DOMAIN long = 1..n + 1 /\ DOMAIN field = 1..n
        /\ long[n + 1] = c /\ \A k \in 1..n : long[k] = field[k] /\ field[k] \in Token
    BY DEF Text
  <1>2. \A k \in 1..n : f[k] = Twice(field[k]) /\ g[k] = Twice(field[k])
    BY <1>1 DEF Twice
  <1>3. f[n + 1] = Twice(c)
    BY <1>1 DEF Twice
  <1>4. Doubled(long) = Concat(f) /\ Doubled(field) = Concat(g)
    BY DEF Doubled
  <1>5. DOMAIN f = 1..n + 1 /\ DOMAIN g = 1..n /\ f = [k \in 1..n + 1 |-> f[k]] /\ g = [k \in 1..n |-> g[k]]
    BY <1>1
  <1> HIDE DEF f, g, n, long
  <1>6. f \in [1..n + 1 -> Text] /\ g \in [1..n -> Text]
    <2>1. \A k \in 1..n : f[k] \in Text /\ g[k] \in Text
      BY <1>1, <1>2, TwiceTyped
    <2>2. \A k \in 1..n + 1 : f[k] \in Text
      BY <1>1, <1>3, <2>1, TwiceTyped
    <2> QED
      BY <1>5, <2>1, <2>2
  <1>7. g \in Seq(Text) /\ f = Append(g, Twice(c))
    BY <1>1, <1>2, <1>3, <1>6, LastApart
  <1>8. Concat(Append(g, Twice(c))) = Concat(g) \o Twice(c)
    BY <1>7, TwiceTyped, ConcatOfAppend DEF Text
  <1> QED
    BY <1>4, <1>7, <1>8 DEF long

EndsInCr(text) == text # <<>> /\ text[Len(text)] = Cr
Piece(text, k) ==
  IF text[k] # Cr THEN <<text[k]>>
  ELSE IF k < Len(text) /\ text[k + 1] = Lf THEN <<>> ELSE <<Lf>>

LEMMA PieceTyped ==
  ASSUME NEW text \in Text, NEW k \in 1..Len(text)
  PROVE  Piece(text, k) \in Text
  <1>1. text[k] \in Token /\ Lf \in Token
    BY DEF Text, Token
  <1> QED
    BY <1>1, OneToken, EmptyText DEF Piece

LEMMA NormaliseOfNone == Normalise(<<>>) = <<>>
  <1>1. [k \in DOMAIN <<>> |-> IF (<<>>)[k] # Cr THEN <<(<<>>)[k]>>
           ELSE IF k < Len(<<>>) /\ (<<>>)[k + 1] = Lf THEN <<>> ELSE <<Lf>>] = <<>>
    OBVIOUS
  <1> QED
    BY <1>1, ConcatOfNone DEF Normalise

(* A carriage return becomes a line feed at once, and the line feed behind *)
(* it adds nothing: the same as to drop the former.                        *)
LEMMA NormaliseOfAppend ==
  ASSUME NEW a \in Text, NEW c \in Token
  PROVE  Normalise(Append(a, c)) =
           IF c = Cr THEN Append(Normalise(a), Lf)
           ELSE IF c = Lf /\ EndsInCr(a) THEN Normalise(a)
           ELSE Append(Normalise(a), c)
  <1> DEFINE long == Append(a, c)
             n == Len(a)
             f == [k \in DOMAIN long |-> Piece(long, k)]
             g == [k \in DOMAIN a |-> Piece(a, k)]
             last == IF c = Cr THEN <<Lf>> ELSE <<c>>
  <1>1. /\ n \in Nat /\ DOMAIN long = 1..n + 1 /\ DOMAIN a = 1..n /\ long \in Text /\ Len(long) = n + 1
        /\ long[n + 1] = c /\ \A k \in 1..n : long[k] = a[k]
    BY DEF Text
  <1>2. Normalise(long) = Concat(f) /\ Normalise(a) = Concat(g)
    BY DEF Normalise, Piece
  <1>3. f \in [1..n + 1 -> Text] /\ g \in [1..n -> Text]
    <2>1. \A k \in 1..n + 1 : Piece(long, k) \in Text
      BY <1>1, PieceTyped
    <2>2. \A k \in 1..n : Piece(a, k) \in Text
      BY PieceTyped
    <2> HIDE DEF long, n
    <2> QED
      BY <1>1, <2>1, <2>2
  <1>4. f[n + 1] = last
    BY <1>1 DEF Piece
  <1>5. \A k \in 1..n - 1 : f[k] = g[k]
    BY <1>1 DEF Piece
  <1>6. n # 0 => f[n] = (IF a[n] = Cr /\ c = Lf THEN <<>> ELSE g[n])
    <2> SUFFICES ASSUME n # 0 PROVE f[n] = (IF a[n] = Cr /\ c = Lf THEN <<>> ELSE g[n])
      OBVIOUS
    <2>1. n \in 1..n /\ n < Len(long) /\ long[n] = a[n] /\ ~(n < Len(a))
      <3>1. n = Len(a)
        OBVIOUS
      <3> HIDE DEF long, n
      <3> QED
        BY <1>1, <3>1
    <2>2. Piece(long, n) = (IF a[n] # Cr THEN <<a[n]>> ELSE IF c = Lf THEN <<>> ELSE <<Lf>>)
      BY <1>1, <2>1 DEF Piece
    <2>3. Piece(a, n) = (IF a[n] # Cr THEN <<a[n]>> ELSE <<Lf>>)
      BY <2>1 DEF Piece
    <2>4. f[n] = Piece(long, n) /\ g[n] = Piece(a, n)
      BY <1>1, <2>1
    <2> HIDE DEF f, g, long, n
    <2> QED
      BY <2>2, <2>3, <2>4
  <1>7. EndsInCr(a) <=> n # 0 /\ a[n] = Cr
    BY <1>1 DEF EndsInCr, Text
  <1>8. last \in Text /\ Normalise(a) \in Text
    <2>1. Lf \in Token
      BY DEF Token
    <2> QED
      BY <2>1, OneToken, NormaliseTyped
  <1>9. n # 0 /\ a[n] = Cr => g[n] = <<Lf>>
    <2>1. n # 0 => n \in 1..n /\ ~(n < Len(a))
      BY <1>1
    <2> QED
      BY <1>1, <2>1 DEF Piece
  <1>10. Append(Normalise(a), Lf) = Normalise(a) \o <<Lf>> /\ Append(Normalise(a), c) = Normalise(a) \o <<c>>
    <2>1. Lf \in Token
      BY DEF Token
    <2> QED
      BY <1>8, <2>1 DEF Text
  <1> HIDE DEF f, g, n
  <1>11. CASE ~(c = Lf /\ EndsInCr(a))
    <2>1. \A k \in 1..n : f[k] = g[k]
      <3>1. \A k \in 1..n : k \in 1..n - 1 \/ (k = n /\ n # 0)
        BY <1>1
      <3> QED
        BY <1>5, <1>6, <1>7, <1>11, <3>1
    <2>2. g \in Seq(Text) /\ f = Append(g, last)
      BY <1>1, <1>3, <1>4, <2>1, LastApart
    <2>3. Concat(f) = Concat(g) \o last
      BY <1>8, <2>2, ConcatOfAppend DEF Text
    <2> QED
      BY <1>2, <1>10, <1>11, <2>3 DEF long
  <1>12. CASE c = Lf /\ EndsInCr(a)
    <2> DEFINE m == n - 1
               f1 == [k \in 1..n |-> f[k]]
               h == [k \in 1..m |-> f[k]]
    <2>1. m \in Nat /\ n = m + 1 /\ n # 0
      BY <1>1, <1>7, <1>12
    <2>2. f1 \in [1..m + 1 -> Text] /\ h \in [1..m -> Text] /\ g \in [1..m + 1 -> Text]
      BY <1>1, <1>3, <2>1
    <2>3. \A k \in 1..m : f1[k] = h[k] /\ g[k] = h[k]
      BY <1>1, <1>5, <2>1
    <2>4. f1[m + 1] = <<>> /\ g[m + 1] = <<Lf>> /\ f[n + 1] = <<Lf>>
      <3>1. c # Cr
        BY <1>12 DEF Cr, Lf
      <3> QED
        BY <1>4, <1>6, <1>7, <1>9, <1>12, <2>1, <3>1
    <2>5. \A k \in 1..n : f[k] = f1[k]
      OBVIOUS
    <2> HIDE DEF f1, h, m
    <2>6. h \in Seq(Text) /\ f1 = Append(h, f1[m + 1]) /\ g = Append(h, g[m + 1])
      BY <2>1, <2>2, <2>3, LastApart
    <2>7. f1 \in Seq(Text) /\ f = Append(f1, f[n + 1])
      BY <1>1, <1>3, <2>1, <2>2, <2>5, LastApart
    <2>8. <<Lf>> \in Text /\ Concat(h) \in Text
      <3>1. Lf \in Token
        BY DEF Token
      <3> QED
        BY <2>6, <3>1, OneToken, ConcatTyped DEF Text
    <2>9. Concat(f1) = Concat(h) \o <<>> /\ Concat(g) = Concat(h) \o <<Lf>>
      BY <2>4, <2>6, <2>8, EmptyText, ConcatOfAppend DEF Text
    <2>10. Concat(f) = Concat(f1) \o <<Lf>>
      BY <2>4, <2>7, <2>8, ConcatOfAppend DEF Text
    <2>11. Concat(h) \o <<>> = Concat(h)
      BY <2>8 DEF Text
    <2>12. c # Cr
      BY <1>12 DEF Cr, Lf
    <2> QED
      BY <1>2, <1>12, <2>9, <2>10, <2>11, <2>12 DEF long
  <1> QED
    BY <1>11, <1>12

-----------------------------------------------------------------------------
(* The scan of a text that is one token longer: no token is looked at      *)
(* twice. A quotation mark inside quotes ends them, and the one behind it  *)
(* begins them again, which is the same as to skip both.                   *)

Fed(s, c) ==
  LET line == s.line + LinesOf(c, s.inQuotes)
      more == [s EXCEPT !.text = Append(@, c), !.line = line]
  IN  IF c = Quote THEN [more EXCEPT !.inQuotes = ~@]
      ELSE IF c = Lf /\ ~s.inQuotes
      THEN [s EXCEPT !.records = Append(@, [text |-> s.text, line |-> s.start]),
                     !.text = <<>>, !.line = line, !.start = line]
      ELSE more

(* The parts of a state t behind a state s, when the token between them    *)
(* ends a record, turns quotes on or off, is escaped, or none of it.       *)
Follows(s, t, c, ends, turns, skips) ==
  /\ t.records = IF ends THEN Append(s.records, [text |-> s.text, line |-> s.start]) ELSE s.records
  /\ t.text = IF ends THEN <<>> ELSE Append(s.text, c)
  /\ t.inQuotes <=> (IF turns THEN ~s.inQuotes ELSE s.inQuotes)
  /\ t.skip <=> skips
  /\ t.line = s.line + LinesOf(c, s.inQuotes)
  /\ t.start = IF ends THEN t.line ELSE s.start

LEMMA SameScan ==
  ASSUME NEW s \in ScanStates, NEW t \in ScanStates,
         s.records = t.records, s.text = t.text, s.inQuotes <=> t.inQuotes,
         s.skip <=> t.skip, s.start = t.start, s.line = t.line
  PROVE  s = t
  <1>1. s.inQuotes = t.inQuotes /\ s.skip = t.skip
    BY DEF ScanStates
  <1>2. s = [records |-> s.records, text |-> s.text, inQuotes |-> s.inQuotes,
             skip |-> s.skip, start |-> s.start, line |-> s.line]
    BY DEF ScanStates
  <1>3. t = [records |-> t.records, text |-> t.text, inQuotes |-> t.inQuotes,
             skip |-> t.skip, start |-> t.start, line |-> t.line]
    BY DEF ScanStates
  <1> QED
    BY <1>1, <1>2, <1>3

LEMMA FedParts ==
  ASSUME NEW s \in ScanStates, NEW c \in Token, ~s.skip
  PROVE  Follows(s, Fed(s, c), c, c = Lf /\ ~s.inQuotes, c = Quote, FALSE)
  <1> DEFINE line == s.line + LinesOf(c, s.inQuotes)
             text == Append(s.text, c)
             records == Append(s.records, [text |-> s.text, line |-> s.start])
             more == [s EXCEPT !.text = text, !.line = line]
             turned == ~s.inQuotes
             none == <<>>
  <1>1. Fed(s, c) = IF c = Quote THEN [more EXCEPT !.inQuotes = ~@]
                    ELSE IF c = Lf /\ ~s.inQuotes
                    THEN [s EXCEPT !.records = records, !.text = none, !.line = line, !.start = line]
                    ELSE more
    BY DEF Fed
  <1> HIDE DEF line, text, records, none
  <1>2. /\ more.records = s.records /\ more.text = text /\ more.inQuotes = s.inQuotes
        /\ more.skip = s.skip /\ more.line = line /\ more.start = s.start
    BY DEF ScanStates
  <1>3. CASE c = Quote
    <2>1. [more EXCEPT !.inQuotes = ~@] = [more EXCEPT !.inQuotes = turned]
      BY <1>2
    <2> HIDE DEF turned
    <2>2. Fed(s, c) = [s EXCEPT !.text = text, !.line = line, !.inQuotes = turned]
      BY <1>1, <1>3, <2>1
    <2> DEFINE t == [s EXCEPT !.text = text, !.line = line, !.inQuotes = turned]
    <2>3. /\ t.records = s.records /\ t.text = text /\ t.inQuotes = turned
          /\ t.skip = s.skip /\ t.line = line /\ t.start = s.start
      BY DEF ScanStates
    <2>4. c # Lf
      BY <1>3 DEF Quote, Lf
    <2> HIDE DEF t
    <2> QED
      BY <1>3, <2>2, <2>3, <2>4 DEF Follows, t, turned, line, text
  <1>4. CASE c = Lf /\ ~s.inQuotes
    <2>1. c # Quote
      BY <1>4 DEF Quote, Lf
    <2> DEFINE t == [s EXCEPT !.records = records, !.text = none, !.line = line, !.start = line]
    <2>2. Fed(s, c) = t
      BY <1>1, <1>4, <2>1
    <2>3. /\ t.records = records /\ t.text = none /\ t.inQuotes = s.inQuotes
          /\ t.skip = s.skip /\ t.line = line /\ t.start = line
      BY DEF ScanStates
    <2> HIDE DEF t
    <2> QED
      BY <1>4, <2>1, <2>2, <2>3 DEF Follows, records, none, line
  <1>5. CASE c # Quote /\ ~(c = Lf /\ ~s.inQuotes)
    <2>1. Fed(s, c) = more
      BY <1>1, <1>5
    <2> HIDE DEF more
    <2> QED
      BY <1>2, <1>5, <2>1 DEF Follows, line, text
  <1> QED
    BY <1>3, <1>4, <1>5

LEMMA ScanTokenParts ==
  ASSUME NEW text \in Text, NEW k \in 1..Len(text), NEW s \in ScanStates
  PROVE  LET escaped == ~s.skip /\ IsEscaped(text, k, s.inQuotes)
             ends == ~s.skip /\ text[k] = Lf /\ ~s.inQuotes
             turns == ~s.skip /\ ~escaped /\ text[k] = Quote
         IN  Follows(s, ScanToken(text, k, s), text[k], ends, turns, escaped)
  <1> DEFINE c == text[k]
             line == s.line + LinesOf(c, s.inQuotes)
             longer == Append(s.text, c)
             more == [s EXCEPT !.text = longer, !.line = line]
             escaped == ~s.skip /\ IsEscaped(text, k, s.inQuotes)
             ends == ~s.skip /\ c = Lf /\ ~s.inQuotes
             turns == ~s.skip /\ ~escaped /\ c = Quote
  <1>1. c \in Token
    BY DEF Text
  <1>2. IsEscaped(text, k, s.inQuotes) => c = Quote /\ s.inQuotes
    BY DEF IsEscaped
  <1>3. CASE ~s.skip /\ ~escaped
    <2>1. ScanToken(text, k, s) = Fed(s, c)
      BY <1>3 DEF ScanToken, Fed
    <2>2. Follows(s, Fed(s, c), c, c = Lf /\ ~s.inQuotes, c = Quote, FALSE)
      BY <1>1, <1>3, FedParts
    <2>3. (ends <=> c = Lf /\ ~s.inQuotes) /\ (turns <=> c = Quote) /\ (escaped <=> FALSE)
      BY <1>3
    <2> QED
      BY <2>1, <2>2, <2>3 DEF Follows
  <1>4. CASE s.skip \/ escaped
    <2>1. ScanToken(text, k, s) = IF s.skip THEN [more EXCEPT !.skip = FALSE] ELSE [more EXCEPT !.skip = TRUE]
      BY <1>4 DEF ScanToken
    <2>2. ~ends /\ ~turns
      <3>1. c = Quote => c # Lf
        BY DEF Quote, Lf
      <3> QED
        BY <1>2, <1>4, <3>1
    <2> HIDE DEF line, longer
    <2> DEFINE t == [s EXCEPT !.text = longer, !.line = line, !.skip = escaped]
    <2>3. ScanToken(text, k, s) = t
      BY <1>4, <2>1
    <2> HIDE DEF escaped
    <2>4. /\ t.records = s.records /\ t.text = longer /\ t.inQuotes = s.inQuotes
          /\ t.skip = escaped /\ t.line = line /\ t.start = s.start
      BY DEF ScanStates
    <2> HIDE DEF t, ends, turns
    <2>5. Follows(s, ScanToken(text, k, s), c, ends, turns, escaped)
      BY <2>2, <2>3, <2>4 DEF Follows, line, longer
    <2> QED
      BY <2>5 DEF ends, turns, escaped
  <1> QED
    BY <1>3, <1>4

LEMMA FedTyped ==
  ASSUME NEW s \in ScanStates, NEW c \in Token
  PROVE  Fed(s, c) \in ScanStates
  <1> DEFINE text == <<c>>
             u == [s EXCEPT !.skip = FALSE]
             t == ScanToken(text, 1, u)
  <1>1. text \in Text /\ 1 \in 1..Len(text) /\ text[1] = c /\ ~(1 < Len(text))
    BY OneToken
  <1>2. u \in ScanStates
    BY DEF ScanStates
  <1>3. t \in ScanStates
    <2> HIDE DEF text, u
    <2> QED
      BY <1>1, <1>2, ScanTokenTyped
  <1>4. ~u.skip
    BY DEF ScanStates
  <1>5. Fed(s, c) = [t EXCEPT !.skip = s.skip]
    <2>1. t = Fed(u, c)
      BY <1>1, <1>4 DEF ScanToken, Fed, IsEscaped
    <2> QED
      BY <2>1 DEF Fed, ScanStates
  <1>6. s.skip \in BOOLEAN
    BY DEF ScanStates
  <1> HIDE DEF t
  <1> QED
    BY <1>3, <1>5, <1>6 DEF ScanStates

LEMMA ScanTyped ==
  ASSUME NEW a \in Text
  PROVE  Scan(a) \in ScanStates /\ ~Scan(a).skip
  <1> DEFINE n == Len(a)
  <1>1. PICK R \in [0..n -> ScanStates] :
          Scan(a) = R[n] /\ R[0] = ScanStart /\ \A k \in 1..n : R[k] = ScanToken(a, k, R[k - 1])
    BY ScanUnfolds
  <1>2. n \in Nat /\ n \in 0..n
    BY DEF Text
  <1>3. CASE n = 0
    BY <1>1, <1>2, <1>3 DEF ScanStart
  <1>4. CASE n # 0
    <2>1. n \in 1..n /\ n - 1 \in 0..n
      BY <1>2, <1>4
    <2>2. R[n] = ScanToken(a, n, R[n - 1]) /\ R[n - 1] \in ScanStates
      BY <1>1, <2>1
    <2>3. ~IsEscaped(a, n, R[n - 1].inQuotes)
      BY DEF IsEscaped
    <2>4. ~ScanToken(a, n, R[n - 1]).skip
      BY <2>1, <2>2, <2>3, ScanTokenParts DEF Follows
    <2> QED
      BY <1>1, <1>2, <2>2, <2>4
  <1> QED
    BY <1>3, <1>4

LEMMA ScanOfNone == Scan(<<>>) = ScanStart
  <1>1. PICK R \in [0..Len(<<>>) -> ScanStates] : Scan(<<>>) = R[Len(<<>>)] /\ R[0] = ScanStart
    BY EmptyText, ScanUnfolds
  <1> QED
    BY <1>1

LEMMA ScanOfAppend ==
  ASSUME NEW a \in Text, NEW c \in Token
  PROVE  Scan(Append(a, c)) = Fed(Scan(a), c)
  <1> DEFINE long == Append(a, c)
             n == Len(a)
  <1>1. /\ n \in Nat /\ n = Len(a) /\ long \in Text /\ Len(long) = n + 1
        /\ long[n + 1] = c /\ \A k \in 1..n : long[k] = a[k]
    BY DEF Text
  <1> HIDE DEF long, n
  <1>2. PICK R \in [0..n -> ScanStates] :
          Scan(a) = R[n] /\ R[0] = ScanStart /\ \A k \in 1..n : R[k] = ScanToken(a, k, R[k - 1])
    BY <1>1, ScanUnfolds
  <1>3. PICK Q \in [0..n + 1 -> ScanStates] :
          Scan(long) = Q[n + 1] /\ Q[0] = ScanStart /\ \A k \in 1..n + 1 : Q[k] = ScanToken(long, k, Q[k - 1])
    BY <1>1, ScanUnfolds
  <1>4. ASSUME NEW k \in 1..n, k < n, NEW s PROVE ScanToken(long, k, s) = ScanToken(a, k, s)
    <2>1. long[k] = a[k] /\ long[k + 1] = a[k + 1] /\ k < Len(a) /\ k < Len(long)
      BY <1>1, <1>4
    <2>2. IsEscaped(long, k, s.inQuotes) <=> IsEscaped(a, k, s.inQuotes)
      BY <2>1 DEF IsEscaped
    <2> QED
      BY <2>1, <2>2 DEF ScanToken
  <1>5. SameValues(R, Q, 0, n - 1)
    <2>1. \A k \in 0..(n - 1) - 1 : R[k] = Q[k] => R[k + 1] = Q[k + 1]
      <3>1. ASSUME NEW k \in 0..(n - 1) - 1, R[k] = Q[k] PROVE R[k + 1] = Q[k + 1]
        <4>1. k + 1 \in 1..n /\ k + 1 \in 1..n + 1 /\ k + 1 < n /\ (k + 1) - 1 = k
          BY <1>1
        <4> QED
          BY <1>2, <1>3, <1>4, <3>1, <4>1
      <3> QED
        BY <3>1
    <2>2. SameSteps(R, Q, 0, n - 1) /\ 0 \in Int /\ n - 1 \in Int
      BY <1>1, <1>2, <1>3, <2>1 DEF SameSteps
    <2> QED
      BY <2>2, SameStepsSameValues
  <1>6. n + 1 \in 1..Len(long) /\ Q[n] \in ScanStates /\ Q[n + 1] = ScanToken(long, n + 1, Q[n])
    <2>1. n + 1 \in 1..n + 1 /\ (n + 1) - 1 = n /\ n \in 0..n + 1
      BY <1>1
    <2> QED
      BY <1>1, <1>3, <2>1
  <1>7. ~IsEscaped(long, n + 1, Q[n].inQuotes)
    BY <1>1 DEF IsEscaped
  <1>8. ASSUME ~Q[n].skip PROVE Scan(long) = Fed(Q[n], c)
    BY <1>1, <1>3, <1>6, <1>7, <1>8 DEF ScanToken, Fed
  <1>9. CASE n = 0
    <2>1. Q[n] = R[n] /\ ~R[n].skip
      BY <1>2, <1>3, <1>9 DEF ScanStart
    <2> QED
      BY <1>2, <1>8, <2>1 DEF long
  <1>10. CASE n # 0
    <2> DEFINE s == R[n - 1]
    <2>1. n \in 1..n /\ n \in 1..n + 1 /\ n - 1 \in 0..n - 1 /\ n - 1 \in 0..n /\ n \in 1..Len(a) /\ n \in 1..Len(long)
      BY <1>1, <1>10
    <2>2. s \in ScanStates /\ Q[n - 1] = s
      BY <1>2, <1>5, <2>1 DEF SameValues
    <2>3. R[n] = ScanToken(a, n, s) /\ Q[n] = ScanToken(long, n, s)
      BY <1>2, <1>3, <2>1, <2>2
    <2>4. ~IsEscaped(a, n, s.inQuotes) /\ long[n] = a[n]
      BY <1>1, <2>1 DEF IsEscaped
    <2> HIDE DEF s
    <2>5. CASE s.skip \/ ~IsEscaped(long, n, s.inQuotes)
      <3>1. Q[n] = R[n]
        BY <2>3, <2>4, <2>5 DEF ScanToken
      <3>2. ~Q[n].skip
        BY <1>2, <3>1, ScanTyped
      <3> QED
        BY <1>2, <1>8, <3>1, <3>2 DEF long
    <2>6. CASE ~s.skip /\ IsEscaped(long, n, s.inQuotes)
      <3>1. a[n] = Quote /\ c = Quote /\ s.inQuotes /\ Quote # Lf
        <4>1. Quote # Lf
          BY DEF Quote, Lf
        <4> QED
          BY <1>1, <2>4, <2>6, <4>1 DEF IsEscaped
      <3>2. Follows(s, R[n], Quote, FALSE, TRUE, FALSE)
        <4>1. /\ (~s.skip /\ IsEscaped(a, n, s.inQuotes) <=> FALSE)
              /\ (~s.skip /\ a[n] = Lf /\ ~s.inQuotes <=> FALSE)
              /\ (~s.skip /\ ~(~s.skip /\ IsEscaped(a, n, s.inQuotes)) /\ a[n] = Quote <=> TRUE)
          BY <2>4, <2>6, <3>1
        <4>2. LET escaped == ~s.skip /\ IsEscaped(a, n, s.inQuotes)
                  ends == ~s.skip /\ a[n] = Lf /\ ~s.inQuotes
                  turns == ~s.skip /\ ~escaped /\ a[n] = Quote
              IN  Follows(s, ScanToken(a, n, s), a[n], ends, turns, escaped)
          BY <2>1, <2>2, ScanTokenParts
        <4> QED
          BY <2>3, <3>1, <4>1, <4>2 DEF Follows
      <3>3. Follows(s, Q[n], Quote, FALSE, FALSE, TRUE)
        <4>1. LET escaped == ~s.skip /\ IsEscaped(long, n, s.inQuotes)
                  ends == ~s.skip /\ long[n] = Lf /\ ~s.inQuotes
                  turns == ~s.skip /\ ~escaped /\ long[n] = Quote
              IN  Follows(s, ScanToken(long, n, s), long[n], ends, turns, escaped)
          BY <1>1, <2>1, <2>2, ScanTokenParts
        <4> QED
          BY <2>3, <2>4, <2>6, <3>1, <4>1 DEF Follows
      <3>4. Follows(Q[n], Q[n + 1], Quote, FALSE, FALSE, FALSE)
        <4>1. LET escaped == ~Q[n].skip /\ IsEscaped(long, n + 1, Q[n].inQuotes)
                  ends == ~Q[n].skip /\ long[n + 1] = Lf /\ ~Q[n].inQuotes
                  turns == ~Q[n].skip /\ ~escaped /\ long[n + 1] = Quote
              IN  Follows(Q[n], ScanToken(long, n + 1, Q[n]), long[n + 1], ends, turns, escaped)
          BY <1>1, <1>6, ScanTokenParts
        <4>2. Q[n].skip
          BY <3>3 DEF Follows
        <4> QED
          BY <1>1, <1>6, <3>1, <4>1, <4>2 DEF Follows
      <3>5. R[n] \in ScanStates /\ ~R[n].skip /\ ~R[n].inQuotes
        BY <1>2, <3>1, <3>2, ScanTyped DEF Follows
      <3>6. Quote \in Token /\ Follows(R[n], Fed(R[n], Quote), Quote, FALSE, TRUE, FALSE)
        <4>1. Quote \in Token
          BY DEF Token
        <4>2. Follows(R[n], Fed(R[n], Quote), Quote, Quote = Lf /\ ~R[n].inQuotes, Quote = Quote, FALSE)
          BY <3>5, <4>1, FedParts
        <4> QED
          BY <3>1, <4>1, <4>2 DEF Follows
      <3>7. Q[n + 1] \in ScanStates /\ Fed(R[n], Quote) \in ScanStates
        <4>1. n + 1 \in 0..n + 1
          BY <1>1
        <4>2. Fed(R[n], Quote) \in ScanStates
          BY <3>5, <3>6, FedTyped
        <4> QED
          BY <1>3, <4>1, <4>2
      <3>8. Q[n + 1] = Fed(R[n], Quote)
        <4>1. LinesOf(Quote, TRUE) = 0 /\ LinesOf(Quote, FALSE) = 0 /\ \A b : LinesOf(Quote, b) = 0
          BY <3>1 DEF LinesOf
        <4>2. /\ Q[n + 1].records = s.records /\ Q[n + 1].text = Append(Append(s.text, Quote), Quote)
              /\ Q[n + 1].inQuotes /\ ~Q[n + 1].skip /\ Q[n + 1].start = s.start /\ Q[n + 1].line = s.line + 0 + 0
          BY <3>1, <3>3, <3>4, <4>1 DEF Follows
        <4> DEFINE t == Fed(R[n], Quote)
        <4>3. /\ t.records = s.records /\ t.text = Append(Append(s.text, Quote), Quote)
              /\ t.inQuotes /\ ~t.skip /\ t.start = s.start /\ t.line = s.line + 0 + 0
          BY <3>2, <3>5, <3>6, <4>1 DEF Follows
        <4> HIDE DEF t
        <4>4. Q[n + 1] \in ScanStates /\ t \in ScanStates
          BY <3>7 DEF t
        <4> QED
          BY <4>2, <4>3, <4>4, SameScan DEF t
      <3> QED
        BY <1>2, <1>3, <3>1, <3>8 DEF long
    <2> QED
      BY <2>5, <2>6
  <1> QED
    BY <1>9, <1>10

-----------------------------------------------------------------------------
(* What Deserialize makes of records that are one more.                    *)

LEMMA PickedOfNone ==
  ASSUME NEW places
  PROVE  Picked(<<>>, places) = <<>>
  <1>1. <<>> \in Seq({}) /\ Len(<<>>) = 0
    OBVIOUS
  <1> DEFINE items == <<>>
  <1> HIDE DEF items
  <1>2. PICK R \in [0..Len(items) -> Seq({})] :
          /\ Picked(items, places) = R[Len(items)]
          /\ R[0] = <<>>
          /\ \A k \in 1..Len(items) : R[k] = IF k \in places THEN Append(R[k - 1], items[k]) ELSE R[k - 1]
    <2>1. items \in Seq({})
      BY <1>1 DEF items
    <2> QED
      BY <2>1, PickedUnfolds
  <1> QED
    BY <1>1, <1>2 DEF items

LEMMA PickedOfAppend ==
  ASSUME NEW D, NEW items \in Seq(D), NEW d \in D, NEW P, NEW Q,
         \A k \in 1..Len(items) : k \in P <=> k \in Q
  PROVE  Picked(Append(items, d), Q) =
           IF Len(items) + 1 \in Q THEN Append(Picked(items, P), d) ELSE Picked(items, P)
  <1> DEFINE long == Append(items, d)
             n == Len(items)
  <1>1. /\ n \in Nat /\ n = Len(items) /\ long \in Seq(D) /\ Len(long) = n + 1
        /\ long[n + 1] = d /\ \A k \in 1..n : long[k] = items[k]
    OBVIOUS
  <1> HIDE DEF long, n
  <1>0. \E F \in [0..Len(long) -> Seq(D)] :
          /\ Picked(long, Q) = F[Len(long)]
          /\ F[0] = <<>>
          /\ \A k \in 1..Len(long) : F[k] = IF k \in Q THEN Append(F[k - 1], long[k]) ELSE F[k - 1]
    <2>1. long \in Seq(D)
      BY <1>1
    <2> QED
      BY <2>1, PickedUnfolds, ZenonT(20)
  <1>2. PICK R \in [0..n -> Seq(D)] :
          /\ Picked(items, P) = R[n]
          /\ R[0] = <<>>
          /\ \A k \in 1..n : R[k] = IF k \in P THEN Append(R[k - 1], items[k]) ELSE R[k - 1]
    <2>1. \E F \in [0..Len(items) -> Seq(D)] :
            /\ Picked(items, P) = F[Len(items)]
            /\ F[0] = <<>>
            /\ \A k \in 1..Len(items) : F[k] = IF k \in P THEN Append(F[k - 1], items[k]) ELSE F[k - 1]
      <3>1. items \in Seq(D)
        BY <1>1
      <3> QED
        BY <3>1, PickedUnfolds, ZenonT(20)
    <2> QED
      BY <1>1, <2>1
  <1>3. PICK T \in [0..n + 1 -> Seq(D)] :
          /\ Picked(long, Q) = T[n + 1]
          /\ T[0] = <<>>
          /\ \A k \in 1..n + 1 : T[k] = IF k \in Q THEN Append(T[k - 1], long[k]) ELSE T[k - 1]
    BY <1>1, <1>0, ZenonT(20)
  <1>4. SameValues(R, T, 0, n)
    <2>1. \A k \in 0..n - 1 : R[k] = T[k] => R[k + 1] = T[k + 1]
      <3>1. ASSUME NEW k \in 0..n - 1, R[k] = T[k] PROVE R[k + 1] = T[k + 1]
        <4>1. k + 1 \in 1..n /\ k + 1 \in 1..n + 1 /\ (k + 1) - 1 = k /\ (k + 1 \in P <=> k + 1 \in Q)
          BY <1>1
        <4> QED
          BY <1>1, <1>2, <1>3, <3>1, <4>1
      <3> QED
        BY <3>1
    <2>2. SameSteps(R, T, 0, n) /\ 0 \in Int /\ n \in Int
      BY <1>1, <1>2, <1>3, <2>1 DEF SameSteps
    <2> QED
      BY <2>2, SameStepsSameValues
  <1>5. R[n] = T[n]
    BY <1>1, <1>4 DEF SameValues
  <1>6. n + 1 \in 1..n + 1 /\ (n + 1) - 1 = n
    BY <1>1
  <1>7. T[n + 1] = IF n + 1 \in Q THEN Append(T[n], long[n + 1]) ELSE T[n]
    BY <1>3, <1>6
  <1> QED
    BY <1>1, <1>2, <1>3, <1>5, <1>7 DEF long

FilledOf(records) == Picked(records, {k \in DOMAIN records : ~IsBlank(records[k].text)})
RowsOf(records) == Tail(FilledOf(records))
GoodOf(records) == {k \in DOMAIN RowsOf(records) : IsRow(RowsOf(records)[k].text)}
ValidOf(records) == Picked(RowsOf(records), GoodOf(records))
AddedOf(records) == [k \in DOMAIN ValidOf(records) |-> Rerun(ParsedRow(ValidOf(records)[k].text))]
ErrorsOf(records) == Picked(RowsOf(records), DOMAIN RowsOf(records) \ GoodOf(records))

(* The first record that is not blank is the header.                       *)
BehindHeader(records) ==
  /\ records \in Seq(Found)
  /\ FilledOf(records) \in Seq(Found) /\ FilledOf(records) # <<>>
  /\ TextTrim(FirstLine(FilledOf(records)[1].text)) = <<Header>>

LEMMA FilledOfAppend ==
  ASSUME NEW records \in Seq(Found), NEW x \in Found
  PROVE  FilledOf(Append(records, x)) =
           IF IsBlank(x.text) THEN FilledOf(records) ELSE Append(FilledOf(records), x)
  <1> DEFINE long == Append(records, x)
             P == {k \in DOMAIN records : ~IsBlank(records[k].text)}
             Q == {k \in DOMAIN long : ~IsBlank(long[k].text)}
             n == Len(records)
  <1>1. /\ n \in Nat /\ DOMAIN long = 1..n + 1 /\ DOMAIN records = 1..n /\ long[n + 1] = x
        /\ \A k \in 1..n : long[k] = records[k]
    OBVIOUS
  <1>2. \A k \in 1..n : k \in P <=> k \in Q
    BY <1>1
  <1>3. n + 1 \in Q <=> ~IsBlank(x.text)
    BY <1>1
  <1> HIDE DEF P, Q
  <1>4. Picked(long, Q) = IF n + 1 \in Q THEN Append(Picked(records, P), x) ELSE Picked(records, P)
    BY <1>2, PickedOfAppend
  <1>5. FilledOf(long) = Picked(long, Q) /\ FilledOf(records) = Picked(records, P)
    BY DEF FilledOf, P, Q
  <1> QED
    BY <1>3, <1>4, <1>5

LEMMA ValidTyped ==
  ASSUME NEW records, BehindHeader(records)
  PROVE  /\ RowsOf(records) \in Seq(Found) /\ ValidOf(records) \in Seq(Found) /\ ErrorsOf(records) \in Seq(Found)
         /\ \A k \in DOMAIN ValidOf(records) : ValidOf(records)[k].text \in Text /\ IsRow(ValidOf(records)[k].text)
  <1>1. RowsOf(records) \in Seq(Found)
    BY DEF RowsOf, BehindHeader
  <1>2. ValidOf(records) \in Seq(Found) /\ ErrorsOf(records) \in Seq(Found)
    BY <1>1, PickedTyped DEF ValidOf, ErrorsOf
  <1>3. ASSUME NEW k \in DOMAIN ValidOf(records)
        PROVE  ValidOf(records)[k].text \in Text /\ IsRow(ValidOf(records)[k].text)
    <2>1. PICK j \in 1..Len(RowsOf(records)) : j \in GoodOf(records) /\ ValidOf(records)[k] = RowsOf(records)[j]
      BY <1>1, <1>3, PickedStood DEF ValidOf
    <2>2. IsRow(RowsOf(records)[j].text)
      BY <2>1 DEF GoodOf
    <2>3. RowsOf(records)[j] \in Found
      BY <1>1, <2>1
    <2> QED
      BY <2>1, <2>2, <2>3 DEF Found
  <1> QED
    BY <1>1, <1>2, <1>3

LEMMA AddedOfTyped ==
  ASSUME CodecsTyped, NEW records, BehindHeader(records)
  PROVE  AddedOf(records) \in Seq(Records)
  <1> DEFINE valid == ValidOf(records)
             added == [k \in DOMAIN valid |-> Rerun(ParsedRow(valid[k].text))]
  <1>1. valid \in Seq(Found)
    BY ValidTyped
  <1>2. AddedOf(records) = added
    BY DEF AddedOf
  <1>3. \A k \in DOMAIN valid : Rerun(ParsedRow(valid[k].text)) \in Records
    BY ValidTyped, ParsedRowTyped, RerunTyped
  <1> HIDE DEF valid
  <1>4. DOMAIN valid = 1..Len(valid) /\ Len(valid) \in Nat
    BY <1>1
  <1>5. added \in [1..Len(valid) -> Records]
    BY <1>3, <1>4
  <1> HIDE DEF added
  <1> QED
    BY <1>2, <1>4, <1>5

LEMMA TailOfAppend ==
  ASSUME NEW D, NEW s \in Seq(D), s # <<>>, NEW d \in D
  PROVE  Tail(Append(s, d)) = Append(Tail(s), d) /\ Append(s, d)[1] = s[1] /\ Append(s, d) # <<>>
  <1> DEFINE m == Len(s)
             long == Append(s, d)
             t == Tail(long)
             u == Append(Tail(s), d)
  <1>1. /\ m \in Nat /\ m >= 1 /\ long \in Seq(D) /\ long # <<>> /\ Len(long) = m + 1
        /\ long[m + 1] = d /\ \A k \in 1..m : long[k] = s[k]
    OBVIOUS
  <1>2. Tail(s) \in Seq(D) /\ Len(Tail(s)) = m - 1 /\ \A k \in 1..m - 1 : Tail(s)[k] = s[k + 1]
    BY <1>1
  <1> HIDE DEF m, long
  <1>3. t \in Seq(D) /\ Len(t) = m /\ \A k \in 1..m : t[k] = long[k + 1]
    BY <1>1
  <1>4. u \in Seq(D) /\ Len(u) = m /\ u[m] = d /\ \A k \in 1..m - 1 : u[k] = Tail(s)[k]
    BY <1>1, <1>2
  <1> HIDE DEF t, u
  <1>5. ASSUME NEW k \in 1..m PROVE t[k] = u[k]
    <2>1. CASE k = m
      BY <1>1, <1>3, <1>4, <2>1
    <2>2. CASE k # m
      <3>1. k \in 1..m - 1 /\ k + 1 \in 1..m
        BY <1>1, <2>2
      <3> QED
        BY <1>1, <1>2, <1>3, <1>4, <3>1
    <2> QED
      BY <2>1, <2>2
  <1>6. t = u
    BY <1>3, <1>4, <1>5, SeqEqual
  <1>7. 1 \in 1..m
    BY <1>1
  <1> QED
    BY <1>1, <1>6, <1>7 DEF t, u, long

(* One more record that is blank changes nothing, one that parses is one   *)
(* more of what is added, and any other is one more error.                 *)
LEMMA JudgedOfAppend ==
  ASSUME CodecsTyped, NEW records, BehindHeader(records), NEW x \in Found
  PROVE  LET more == Append(records, x)
         IN  /\ BehindHeader(more)
             /\ IsBlank(x.text) => AddedOf(more) = AddedOf(records) /\ ErrorsOf(more) = ErrorsOf(records)
             /\ ~IsBlank(x.text) /\ IsRow(x.text) =>
                  /\ AddedOf(more) = Append(AddedOf(records), Rerun(ParsedRow(x.text)))
                  /\ ErrorsOf(more) = ErrorsOf(records)
             /\ ~IsBlank(x.text) /\ ~IsRow(x.text) =>
                  /\ AddedOf(more) = AddedOf(records)
                  /\ ErrorsOf(more) = Append(ErrorsOf(records), x)
  <1> DEFINE more == Append(records, x)
             filled == FilledOf(records)
             rows == RowsOf(records)
             n == Len(rows)
  <1>1. records \in Seq(Found) /\ more \in Seq(Found) /\ filled \in Seq(Found) /\ filled # <<>>
    BY DEF BehindHeader
  <1>2. FilledOf(more) = IF IsBlank(x.text) THEN filled ELSE Append(filled, x)
    BY <1>1, FilledOfAppend
  <1>3. rows \in Seq(Found)
    BY ValidTyped
  <1> HIDE DEF more
  <1>4. CASE IsBlank(x.text)
    <2>1. FilledOf(more) = filled
      BY <1>2, <1>4
    <2>2. BehindHeader(more)
      BY <1>1, <2>1 DEF BehindHeader
    <2>3. RowsOf(more) = rows
      BY <2>1 DEF RowsOf
    <2>4. AddedOf(more) = AddedOf(records) /\ ErrorsOf(more) = ErrorsOf(records)
      BY <2>3 DEF AddedOf, ErrorsOf, ValidOf, GoodOf
    <2> QED
      BY <1>4, <2>2, <2>4 DEF more
  <1>5. CASE ~IsBlank(x.text)
    <2>1. FilledOf(more) = Append(filled, x)
      BY <1>2, <1>5
    <2> HIDE DEF filled
    <2>2. FilledOf(more) \in Seq(Found) /\ FilledOf(more) # <<>> /\ FilledOf(more)[1] = filled[1]
      BY <1>1, <2>1, TailOfAppend
    <2>3. BehindHeader(more)
      BY <1>1, <2>2 DEF BehindHeader, filled
    <2>4. RowsOf(more) = Append(rows, x)
      BY <1>1, <2>1, TailOfAppend DEF RowsOf, filled
    <2> DEFINE long == RowsOf(more)
    <2> HIDE DEF long, rows
    <2>5. /\ n \in Nat /\ DOMAIN long = 1..n + 1 /\ DOMAIN rows = 1..n /\ long[n + 1] = x
          /\ \A k \in 1..n : long[k] = rows[k]
      BY <1>3, <2>4 DEF long
    <2> DEFINE P == GoodOf(records)
               Q == GoodOf(more)
               U == DOMAIN rows \ P
               V == DOMAIN long \ Q
    <2>6. P = {k \in DOMAIN rows : IsRow(rows[k].text)} /\ Q = {k \in DOMAIN long : IsRow(long[k].text)}
      BY DEF GoodOf, rows, long
    <2> HIDE DEF P, Q
    <2>7. \A k \in 1..n : (k \in P <=> k \in Q) /\ (k \in U <=> k \in V)
      BY <2>5, <2>6
    <2>8. (n + 1 \in Q <=> IsRow(x.text)) /\ (n + 1 \in V <=> ~IsRow(x.text))
      BY <2>5, <2>6
    <2> HIDE DEF U, V
    <2>9. Picked(long, Q) = IF n + 1 \in Q THEN Append(Picked(rows, P), x) ELSE Picked(rows, P)
      BY <1>3, <2>4, <2>7, PickedOfAppend DEF long
    <2>10. Picked(long, V) = IF n + 1 \in V THEN Append(Picked(rows, U), x) ELSE Picked(rows, U)
      BY <1>3, <2>4, <2>7, PickedOfAppend DEF long
    <2>11. ErrorsOf(more) = IF IsRow(x.text) THEN ErrorsOf(records) ELSE Append(ErrorsOf(records), x)
      BY <2>8, <2>10 DEF ErrorsOf, U, V, P, Q, long, rows
    <2>12. ValidOf(more) = IF IsRow(x.text) THEN Append(ValidOf(records), x) ELSE ValidOf(records)
      BY <2>8, <2>9 DEF ValidOf, P, Q, long, rows
    <2>13. ~IsRow(x.text) => AddedOf(more) = AddedOf(records)
      BY <2>12 DEF AddedOf
    <2>14. ASSUME IsRow(x.text) PROVE AddedOf(more) = Append(AddedOf(records), Rerun(ParsedRow(x.text)))
      <3> DEFINE v == ValidOf(records)
                 w == Append(v, x)
                 m == Len(v)
                 f == [k \in DOMAIN w |-> Rerun(ParsedRow(w[k].text))]
                 g == [k \in DOMAIN v |-> Rerun(ParsedRow(v[k].text))]
                 last == Rerun(ParsedRow(x.text))
      <3>1. v \in Seq(Found) /\ AddedOf(records) = g /\ AddedOf(more) = f
        BY <2>12, <2>14, ValidTyped DEF AddedOf
      <3>2. AddedOf(more) \in Seq(Records) /\ AddedOf(records) \in Seq(Records)
        BY <2>3, AddedOfTyped
      <3> HIDE DEF v
      <3>3. /\ m \in Nat /\ DOMAIN w = 1..m + 1 /\ DOMAIN v = 1..m /\ w[m + 1] = x
            /\ \A k \in 1..m : w[k] = v[k]
        BY <3>1
      <3> HIDE DEF w, m
      <3>4. DOMAIN f = 1..m + 1 /\ DOMAIN g = 1..m /\ f[m + 1] = last /\ \A k \in 1..m : f[k] = g[k]
        BY <3>3
      <3> HIDE DEF f, g
      <3>5. f \in [1..m + 1 -> Records] /\ g \in [1..m -> Records]
        BY <3>1, <3>2, <3>3, <3>4
      <3>6. f = Append(g, f[m + 1])
        BY <3>3, <3>4, <3>5, LastApart
      <3> QED
        BY <3>1, <3>4, <3>6
    <2> QED
      BY <1>5, <2>3, <2>11, <2>13, <2>14 DEF more
  <1> QED
    BY <1>4, <1>5

-----------------------------------------------------------------------------
(* Subsequences that are one longer.                                       *)

MatchedStep(s, t, m, k) == IF m < Len(s) /\ s[m + 1] = t[k] THEN m + 1 ELSE m

MatchedBy(R, s, t) ==
  /\ IsSubsequence(s, t) <=> R[Len(t)] = Len(s)
  /\ R[0] = 0
  /\ \A k \in 1..Len(t) : R[k] = MatchedStep(s, t, R[k - 1], k)

LEMMA MatchedUnfolds ==
  ASSUME NEW D, NEW s \in Seq(D), NEW t \in Seq(D)
  PROVE  \E R \in [0..Len(t) -> 0..Len(s)] : MatchedBy(R, s, t)
  <1> DEFINE n == Len(t)
             A == 0..Len(s)
             next(m, k) == MatchedStep(s, t, m, k)
             step == [p \in A \X (0 + 1..n) |-> next(p[1], p[2])]
             Is(f) == f = [k \in 0..n |-> IF k = 0 THEN 0 ELSE next(f[k - 1], k)]
             R == CHOOSE f : Is(f)
  <1>1. n \in Nat /\ n \in Int /\ 0 \in Int /\ 0 \in A
    OBVIOUS
  <1>2. \A a \in A, k \in 1..n : next(a, k) \in A
    BY DEF MatchedStep
  <1>3. IsSubsequence(s, t) <=> R[n] = Len(s)
    <2> DEFINE JsStep(f, k) ==
                 IF k = 0 THEN 0
                 ELSE IF f[k - 1] < Len(s) /\ s[f[k - 1] + 1] = t[k] THEN f[k - 1] + 1
                 ELSE f[k - 1]
    <2>1. IsSubsequence(s, t) <=> (CHOOSE f : f = [k \in 0..n |-> JsStep(f, k)])[n] = Len(s)
      BY DEF IsSubsequence
    <2>2. \A f, k : JsStep(f, k) = IF k = 0 THEN 0 ELSE next(f[k - 1], k)
      BY DEF MatchedStep
    <2> QED
      BY <2>1 DEF MatchedStep
  <1> HIDE DEF A, n, next
  <1>4. step \in [A \X (0 + 1..n) -> A]
    BY <1>2, <1>1
  <1>5. ASSUME NEW a \in A, NEW k \in 0..n, k # 0 PROVE step[<<a, k>>] = next(a, k)
    <2>1. <<a, k>> \in A \X (0 + 1..n)
      BY <1>1, <1>5
    <2> QED
      BY <2>1
  <1>6. PICK f \in [0..n -> A] : Unfolds(f, 0, n, 0, step)
    <2> HIDE DEF step
    <2> QED
      BY <1>1, <1>4, Recursion
  <1>7. \A k \in 0..n : f[k] = IF k = 0 THEN 0 ELSE next(f[k - 1], k)
    <2> HIDE DEF step
    <2>1. \A k \in 0..n : k # 0 => f[k - 1] \in A
      BY <1>1
    <2> QED
      BY <1>5, <1>6, <2>1 DEF Unfolds
  <1>8. Is(f)
    BY <1>7
  <1>9. R = [k \in 0..n |-> IF k = 0 THEN 0 ELSE next(R[k - 1], k)]
    <2> HIDE DEF Is
    <2>1. Is(R)
      BY <1>8
    <2> QED
      BY <2>1 DEF Is
  <1> HIDE DEF R
  <1>10. R[0] = 0 /\ \A k \in 1..n : R[k] = next(R[k - 1], k)
    BY <1>9, <1>1
  <1>11. \A k \in 0..n : R[k] \in A
    <2> DEFINE Good == {k \in 0..n : R[k] \in A}
    <2>1. 0 \in Good
      BY <1>1, <1>10
    <2>2. \A k \in 0..n - 1 : k \in Good => k + 1 \in Good
      BY <1>1, <1>10, <1>2
    <2>3. 0..n \subseteq Good
      <3> HIDE DEF Good
      <3> QED
        BY <1>1, <2>1, <2>2, IntervalInduction
    <2> QED
      BY <2>3
  <1>12. R \in [0..n -> A]
    BY <1>9, <1>11
  <1> QED
    BY <1>3, <1>10, <1>12 DEF A, n, next, MatchedBy

LEMMA SubsequenceOfNone == IsSubsequence(<<>>, <<>>)
  <1> DEFINE none == <<>>
  <1>1. none \in Seq({}) /\ Len(none) = 0
    OBVIOUS
  <1> HIDE DEF none
  <1>2. PICK R \in [0..Len(none) -> 0..Len(none)] : MatchedBy(R, none, none)
    BY <1>1, MatchedUnfolds
  <1>3. IsSubsequence(none, none)
    BY <1>1, <1>2 DEF MatchedBy
  <1> QED
    BY <1>3 DEF none

(* Both sequences may grow by the same element, and the longer one by any. *)
LEMMA SubsequenceOfAppend ==
  ASSUME NEW D, NEW s \in Seq(D), NEW t \in Seq(D), NEW d \in D, IsSubsequence(s, t)
  PROVE  IsSubsequence(s, Append(t, d)) /\ IsSubsequence(Append(s, d), Append(t, d))
  <1> DEFINE u == Append(t, d)
             v == Append(s, d)
             n == Len(t)
             m == Len(s)
  <1>1. /\ n \in Nat /\ u \in Seq(D) /\ Len(u) = n + 1 /\ u[n + 1] = d /\ \A k \in 1..n : u[k] = t[k]
        /\ m \in Nat /\ v \in Seq(D) /\ Len(v) = m + 1 /\ v[m + 1] = d /\ \A k \in 1..m : v[k] = s[k]
    OBVIOUS
  <1> HIDE DEF u, v
  <1>5. PICK R \in [0..Len(t) -> 0..Len(s)] : MatchedBy(R, s, t)
    BY MatchedUnfolds
  <1>6. PICK A \in [0..Len(u) -> 0..Len(s)] : MatchedBy(A, s, u)
    BY <1>1, MatchedUnfolds
  <1>7. PICK B \in [0..Len(u) -> 0..Len(v)] : MatchedBy(B, v, u)
    BY <1>1, MatchedUnfolds
  <1>8. n = Len(t) /\ m = Len(s)
    OBVIOUS
  <1> HIDE DEF n, m
  <1>9. /\ R \in [0..n -> 0..m] /\ R[n] = m /\ R[0] = 0
        /\ \A k \in 1..n : R[k] = MatchedStep(s, t, R[k - 1], k)
    BY <1>5, <1>8 DEF MatchedBy
  <1>10. /\ A \in [0..n + 1 -> 0..m] /\ (IsSubsequence(s, u) <=> A[n + 1] = m) /\ A[0] = 0
         /\ \A k \in 1..n + 1 : A[k] = MatchedStep(s, u, A[k - 1], k)
    BY <1>1, <1>6, <1>8 DEF MatchedBy
  <1>11. /\ B \in [0..n + 1 -> 0..m + 1] /\ (IsSubsequence(v, u) <=> B[n + 1] = m + 1) /\ B[0] = 0
         /\ \A k \in 1..n + 1 : B[k] = MatchedStep(v, u, B[k - 1], k)
    BY <1>1, <1>7, <1>8 DEF MatchedBy
  <1>12. SameValues(R, A, 0, n)
    <2>1. \A k \in 0..n - 1 : R[k] = A[k] => R[k + 1] = A[k + 1]
      <3>1. ASSUME NEW k \in 0..n - 1, R[k] = A[k] PROVE R[k + 1] = A[k + 1]
        <4>1. k + 1 \in 1..n /\ k + 1 \in 1..n + 1 /\ (k + 1) - 1 = k /\ u[k + 1] = t[k + 1]
          BY <1>1
        <4>2. R[k + 1] = MatchedStep(s, t, R[k], k + 1) /\ A[k + 1] = MatchedStep(s, u, A[k], k + 1)
          BY <1>9, <1>10, <4>1
        <4> QED
          BY <3>1, <4>1, <4>2 DEF MatchedStep
      <3> QED
        BY <3>1
    <2>2. SameSteps(R, A, 0, n) /\ 0 \in Int /\ n \in Int
      BY <1>1, <1>9, <1>10, <2>1 DEF SameSteps
    <2> QED
      BY <2>2, SameStepsSameValues
  <1>13. n + 1 \in 1..n + 1 /\ (n + 1) - 1 = n /\ n \in 0..n
    BY <1>1
  <1>14. IsSubsequence(s, u)
    <2>1. A[n] = m
      BY <1>9, <1>12, <1>13 DEF SameValues
    <2>2. A[n + 1] = MatchedStep(s, u, m, n + 1)
      BY <1>10, <1>13, <2>1
    <2>3. ~(m < Len(s))
      BY <1>1, <1>8
    <2> QED
      BY <1>10, <2>2, <2>3 DEF MatchedStep
  <1> DEFINE Near == {k \in 0..n : B[k] = R[k] \/ (R[k] = m /\ B[k] = m + 1)}
  <1>15. 0..n \subseteq Near
    <2>1. 0 \in Near
      BY <1>1, <1>9, <1>11
    <2>2. ASSUME NEW k \in 0..n - 1, k \in Near PROVE k + 1 \in Near
      <3>1. k + 1 \in 1..n /\ k + 1 \in 1..n + 1 /\ (k + 1) - 1 = k /\ u[k + 1] = t[k + 1] /\ k + 1 \in 0..n
        BY <1>1
      <3>2. R[k + 1] = MatchedStep(s, t, R[k], k + 1) /\ B[k + 1] = MatchedStep(v, u, B[k], k + 1)
        BY <1>9, <1>11, <3>1
      <3>3. R[k] \in 0..m /\ B[k] \in 0..m + 1
        <4>1. k \in 0..n /\ k \in 0..n + 1
          BY <1>1
        <4> QED
          BY <1>9, <1>11, <4>1
      <3>4. CASE R[k] < m
        <4>1. B[k] = R[k] /\ R[k] + 1 \in 1..m
          <5>1. B[k] = R[k] \/ R[k] = m
            BY <2>2
          <5>2. R[k] \in Nat /\ R[k] # m
            BY <1>1, <3>3, <3>4
          <5>3. m \in Nat
            BY <1>1
          <5> QED
            BY <3>4, <5>1, <5>2, <5>3
        <4>2. v[R[k] + 1] = s[R[k] + 1] /\ R[k] < Len(s) /\ R[k] < Len(v)
          BY <1>1, <1>8, <3>3, <3>4, <4>1
        <4>3. B[k + 1] = R[k + 1]
          BY <3>1, <3>2, <4>1, <4>2 DEF MatchedStep
        <4> QED
          BY <3>1, <4>3
      <3>5. CASE R[k] = m
        <4>1. R[k + 1] = m
          BY <1>1, <1>8, <3>2, <3>5 DEF MatchedStep
        <4>2. B[k] \in {m, m + 1}
          BY <2>2, <3>5
        <4>3. B[k + 1] \in {m, m + 1}
          <5>1. B[k + 1] = B[k] \/ (B[k + 1] = B[k] + 1 /\ B[k] < m + 1)
            BY <1>1, <3>2 DEF MatchedStep
          <5>2. m \in Nat
            BY <1>1
          <5> QED
            BY <4>2, <5>1, <5>2
        <4> QED
          BY <3>1, <4>1, <4>3
      <3> QED
        BY <1>1, <3>3, <3>4, <3>5
    <2> HIDE DEF Near
    <2>3. n \in Int /\ 0 \in Int
      BY <1>1
    <2> QED
      BY <2>1, <2>2, <2>3, IntervalInduction
  <1>16. IsSubsequence(v, u)
    <2>1. B[n] \in {m, m + 1}
      BY <1>9, <1>13, <1>15
    <2>2. B[n + 1] = MatchedStep(v, u, B[n], n + 1)
      BY <1>11, <1>13
    <2>3. B[n + 1] = m + 1
      <3>1. CASE B[n] = m
        <4>1. m < Len(v) /\ v[m + 1] = u[n + 1]
          BY <1>1
        <4> QED
          BY <2>2, <3>1, <4>1 DEF MatchedStep
      <3>2. CASE B[n] = m + 1
        <4>1. ~(m + 1 < Len(v))
          BY <1>1
        <4> QED
          BY <2>2, <3>2, <4>1 DEF MatchedStep
      <3> QED
        BY <2>1, <3>1, <3>2
    <2> QED
      BY <1>11, <2>3
  <1> QED
    BY <1>14, <1>16 DEF u, v

-----------------------------------------------------------------------------
(* The scan of a text as it is in the file.                                *)

LEMMA JoinedTwice ==
  ASSUME NEW S, NEW s \in Seq(S), NEW t \in Seq(S), NEW u \in Seq(S)
  PROVE  (s \o t) \o u = s \o (t \o u)
  <1> DEFINE v == s \o t
             w == t \o u
             l == Len(s)
             m == Len(t)
             n == Len(u)
  <1>1. l \in Nat /\ m \in Nat /\ n \in Nat /\ l = Len(s) /\ m = Len(t) /\ n = Len(u)
    OBVIOUS
  <1>2. v \in Seq(S) /\ Len(v) = l + m /\ (\A i \in 1..l : v[i] = s[i]) /\ \A i \in 1..m : v[l + i] = t[i]
    BY Joined
  <1>3. w \in Seq(S) /\ Len(w) = m + n /\ (\A i \in 1..m : w[i] = t[i]) /\ \A i \in 1..n : w[m + i] = u[i]
    BY Joined
  <1> HIDE DEF v, w, l, m, n
  <1> DEFINE x == v \o u
             y == s \o w
  <1>4. x \in Seq(S) /\ Len(x) = (l + m) + n /\ (\A i \in 1..l + m : x[i] = v[i]) /\ \A i \in 1..n : x[(l + m) + i] = u[i]
    <2>1. v \in Seq(S) /\ Len(v) = l + m
      BY <1>2
    <2>2. /\ x \in Seq(S) /\ Len(x) = Len(v) + Len(u) /\ (\A i \in 1..Len(v) : x[i] = v[i])
          /\ \A i \in 1..Len(u) : x[Len(v) + i] = u[i]
      <3>1. ASSUME NEW z \in Seq(S)
            PROVE  /\ z \o u \in Seq(S) /\ Len(z \o u) = Len(z) + Len(u)
                   /\ \A i \in 1..Len(z) : (z \o u)[i] = z[i]
                   /\ \A i \in 1..Len(u) : (z \o u)[Len(z) + i] = u[i]
        OBVIOUS
      <3> QED
        BY <2>1, <3>1
    <2> HIDE DEF x
    <2> QED
      BY <1>1, <2>1, <2>2
  <1>5. y \in Seq(S) /\ Len(y) = l + (m + n) /\ (\A i \in 1..l : y[i] = s[i]) /\ \A i \in 1..m + n : y[l + i] = w[i]
    <2>1. w \in Seq(S) /\ Len(w) = m + n
      BY <1>3
    <2>2. /\ y \in Seq(S) /\ Len(y) = Len(s) + Len(w) /\ (\A i \in 1..Len(s) : y[i] = s[i])
          /\ \A i \in 1..Len(w) : y[Len(s) + i] = w[i]
      BY <2>1, Joined
    <2> HIDE DEF y
    <2> QED
      BY <1>1, <2>1, <2>2
  <1> HIDE DEF x, y
  <1>6. ASSUME NEW i \in 1..(l + m) + n PROVE x[i] = y[i]
    <2>1. CASE i <= l
      <3>1. i \in 1..l /\ i \in 1..l + m
        BY <1>1, <2>1
      <3> QED
        BY <1>2, <1>4, <1>5, <3>1
    <2>2. CASE i > l /\ i <= l + m
      <3> DEFINE j == i - l
      <3>1. j \in 1..m /\ j \in 1..m + n /\ i \in 1..l + m /\ i = l + j
        BY <1>1, <2>2
      <3> HIDE DEF j
      <3> QED
        BY <1>2, <1>3, <1>4, <1>5, <3>1
    <2>3. CASE i > l + m
      <3> DEFINE j == i - (l + m)
      <3>1. j \in 1..n /\ m + j \in 1..m + n /\ i = (l + m) + j /\ i = l + (m + j)
        BY <1>1, <2>3
      <3> HIDE DEF j
      <3> QED
        BY <1>3, <1>4, <1>5, <3>1
    <2> QED
      BY <1>1, <2>1, <2>2, <2>3
  <1>7. Len(x) = Len(y) /\ Len(x) = (l + m) + n
    BY <1>1, <1>4, <1>5
  <1>8. x = y
    BY <1>4, <1>5, <1>6, <1>7, SeqEqual
  <1> QED
    BY <1>8 DEF x, y, v, w

LEMMA JoinedToAppend ==
  ASSUME NEW S, NEW s \in Seq(S), NEW t \in Seq(S), NEW e \in S
  PROVE  s \o Append(t, e) = Append(s \o t, e) /\ s \o <<>> = s /\ s \o <<e>> = Append(s, e)
  <1>1. <<e>> \in Seq(S) /\ Append(t, e) = t \o <<e>> /\ s \o t \in Seq(S)
    OBVIOUS
  <1>2. Append(s \o t, e) = (s \o t) \o <<e>> /\ s \o <<>> = s /\ s \o <<e>> = Append(s, e)
    BY <1>1
  <1> QED
    BY <1>1, <1>2, JoinedTwice

StateOf(a) == Scan(Normalise(a))

LEMMA StateTyped ==
  ASSUME NEW a \in Text
  PROVE  StateOf(a) \in ScanStates /\ ~StateOf(a).skip
  BY NormaliseTyped, ScanTyped DEF StateOf

LEMMA StateOfNone == StateOf(<<>>) = ScanStart
  BY NormaliseOfNone, ScanOfNone DEF StateOf

LEMMA StateOfAppend ==
  ASSUME NEW a \in Text, NEW c \in Token
  PROVE  StateOf(Append(a, c)) =
           IF c = Cr THEN Fed(StateOf(a), Lf)
           ELSE IF c = Lf /\ EndsInCr(a) THEN StateOf(a)
           ELSE Fed(StateOf(a), c)
  <1>1. Normalise(a) \in Text /\ Lf \in Token
    BY NormaliseTyped DEF Token
  <1> QED
    BY <1>1, NormaliseOfAppend, ScanOfAppend DEF StateOf

LEMMA EndOfAppend ==
  ASSUME NEW a \in Text, NEW c \in Token
  PROVE  EndsInCr(Append(a, c)) <=> c = Cr
  <1>1. Append(a, c) # <<>> /\ Append(a, c)[Len(Append(a, c))] = c
    BY DEF Text
  <1> QED
    BY <1>1 DEF EndsInCr

(* A token that is no carriage return, nor a line feed outside quotes,     *)
(* is one more of the text; a quotation mark turns the quotes.             *)
LEMMA OneTokenOn ==
  ASSUME NEW a \in Text, NEW c \in Token, c # Cr, c = Lf => StateOf(a).inQuotes /\ ~EndsInCr(a)
  PROVE  LET s == StateOf(a)
             t == StateOf(Append(a, c))
         IN  /\ t.records = s.records /\ t.text = Append(s.text, c) /\ ~EndsInCr(Append(a, c))
             /\ t.inQuotes <=> (IF c = Quote THEN ~s.inQuotes ELSE s.inQuotes)
  <1>1. StateOf(Append(a, c)) = Fed(StateOf(a), c)
    BY StateOfAppend
  <1>2. Follows(StateOf(a), Fed(StateOf(a), c), c, c = Lf /\ ~StateOf(a).inQuotes, c = Quote, FALSE)
    BY StateTyped, FedParts
  <1> QED
    BY <1>1, <1>2, EndOfAppend DEF Follows

(* In any case quotes are turned by quotation marks only.                  *)
LEMMA QuotesTurned ==
  ASSUME NEW a \in Text, NEW c \in Token
  PROVE  StateOf(Append(a, c)).inQuotes <=> (IF c = Quote THEN ~StateOf(a).inQuotes ELSE StateOf(a).inQuotes)
  <1>1. Lf \in Token /\ Lf # Quote /\ Cr # Quote
    BY DEF Token, Lf, Quote, Cr
  <1>2. ASSUME NEW d \in Token
        PROVE  Fed(StateOf(a), d).inQuotes <=> (IF d = Quote THEN ~StateOf(a).inQuotes ELSE StateOf(a).inQuotes)
    <2>1. Follows(StateOf(a), Fed(StateOf(a), d), d, d = Lf /\ ~StateOf(a).inQuotes, d = Quote, FALSE)
      BY StateTyped, FedParts
    <2> QED
      BY <2>1 DEF Follows
  <1> QED
    BY <1>1, <1>2, StateOfAppend

(* What is read without a change of quotes at its end.                     *)
KeepsQuotes(w) == \A a \in Text : StateOf(a \o w).inQuotes <=> StateOf(a).inQuotes

LEMMA TextJoined == ASSUME NEW v \in Text, NEW w \in Text PROVE v \o w \in Text
  BY DEF Text

LEMMA KeptByBoth ==
  ASSUME NEW v \in Text, NEW w \in Text, KeepsQuotes(v), KeepsQuotes(w)
  PROVE  KeepsQuotes(v \o w)
  <1>1. ASSUME NEW a \in Text PROVE StateOf(a \o (v \o w)).inQuotes <=> StateOf(a).inQuotes
    <2>1. a \o v \in Text /\ a \o (v \o w) = (a \o v) \o w
      BY JoinedTwice, Joined DEF Text
    <2> QED
      BY <2>1 DEF KeepsQuotes
  <1> QED
    BY <1>1 DEF KeepsQuotes

LEMMA KeptByToken ==
  ASSUME NEW c \in Token, c # Quote
  PROVE  KeepsQuotes(<<c>>)
  <1>1. ASSUME NEW a \in Text PROVE StateOf(a \o <<c>>).inQuotes <=> StateOf(a).inQuotes
    <2>1. a \o <<c>> = Append(a, c)
      BY JoinedToAppend DEF Text
    <2> QED
      BY <2>1, QuotesTurned
  <1> QED
    BY <1>1 DEF KeepsQuotes

LEMMA KeptByNone == KeepsQuotes(<<>>)
  <1>1. \A a \in Text : a \o <<>> = a
    BY DEF Text
  <1> QED
    BY <1>1 DEF KeepsQuotes

LEMMA OccursInAppend ==
  ASSUME NEW w \in Text, NEW c \in Token, NEW token
  PROVE  Occurs(token, Append(w, c)) <=> Occurs(token, w) \/ token = c
  <1> DEFINE n == Len(w)
             long == Append(w, c)
  <1>1. /\ n \in Nat /\ DOMAIN w = 1..n /\ DOMAIN long = 1..n + 1 /\ long[n + 1] = c
        /\ \A k \in 1..n : long[k] = w[k]
    BY DEF Text
  <1> HIDE DEF long, n
  <1>2. n + 1 \in 1..n + 1 /\ \A k \in 1..n + 1 : k \in 1..n \/ k = n + 1
    BY <1>1
  <1>3. \A k \in 1..n : k \in 1..n + 1
    BY <1>1
  <1>4. Occurs(token, long) => Occurs(token, w) \/ token = c
    BY <1>1, <1>2 DEF Occurs
  <1>5. Occurs(token, w) => Occurs(token, long)
    BY <1>1, <1>3 DEF Occurs
  <1>6. token = c => Occurs(token, long)
    BY <1>1, <1>2 DEF Occurs
  <1> QED
    BY <1>4, <1>5, <1>6 DEF long

LEMMA KeptUnquoted ==
  ASSUME NEW w \in Text, ~Occurs(Quote, w)
  PROVE  KeepsQuotes(w)
  <1> DEFINE S == {x \in Text : ~Occurs(Quote, x) => KeepsQuotes(x)}
  <1>1. <<>> \in S
    BY EmptyText, KeptByNone
  <1>2. ASSUME NEW x \in Seq(Token), x \in S, NEW c \in Token PROVE Append(x, c) \in S
    <2>1. x \in Text /\ Append(x, c) \in Text /\ <<c>> \in Text /\ Append(x, c) = x \o <<c>>
      BY <1>2 DEF Text
    <2>2. ASSUME ~Occurs(Quote, Append(x, c)) PROVE KeepsQuotes(Append(x, c))
      <3>1. ~Occurs(Quote, x) /\ c # Quote
        BY <2>1, <2>2, OccursInAppend
      <3> QED
        BY <1>2, <2>1, <3>1, KeptByBoth, KeptByToken
    <2> QED
      BY <2>1, <2>2
  <1>3. Seq(Token) \subseteq S
    <2> HIDE DEF S
    <2> QED
      BY <1>1, <1>2, SequenceInduction
  <1> QED
    BY <1>3 DEF Text

LEMMA KeptTwice ==
  ASSUME NEW c \in Token
  PROVE  KeepsQuotes(Twice(c))
  <1>1. CASE c # Quote
    BY <1>1, KeptByToken DEF Twice
  <1>2. CASE c = Quote
    <2>1. ASSUME NEW a \in Text PROVE StateOf(a \o <<Quote, Quote>>).inQuotes <=> StateOf(a).inQuotes
      <3>1. Quote \in Token /\ Append(a, Quote) \in Text
        BY <1>2 DEF Text
      <3>2. a \o <<Quote, Quote>> = Append(Append(a, Quote), Quote)
        <4>1. <<Quote, Quote>> = Append(<<Quote>>, Quote) /\ <<Quote>> \in Seq(Token)
          BY <3>1
        <4>2. a \o Append(<<Quote>>, Quote) = Append(a \o <<Quote>>, Quote) /\ a \o <<Quote>> = Append(a, Quote)
          BY <3>1, <4>1, JoinedToAppend DEF Text
        <4> QED
          BY <4>1, <4>2
      <3> QED
        BY <3>1, <3>2, QuotesTurned
    <2> QED
      BY <1>2, <2>1 DEF KeepsQuotes, Twice
  <1> QED
    BY <1>1, <1>2

LEMMA KeptDoubled ==
  ASSUME NEW w \in Text
  PROVE  KeepsQuotes(Doubled(w))
  <1> DEFINE S == {x \in Text : KeepsQuotes(Doubled(x))}
  <1>1. <<>> \in S
    BY EmptyText, KeptByNone, DoubledOfNone
  <1>2. ASSUME NEW x \in Seq(Token), x \in S, NEW c \in Token PROVE Append(x, c) \in S
    <2>1. x \in Text /\ Append(x, c) \in Text /\ Doubled(x) \in Text /\ Twice(c) \in Text
      BY <1>2, DoubledTyped, TwiceTyped DEF Text
    <2>2. Doubled(Append(x, c)) = Doubled(x) \o Twice(c)
      BY <2>1, DoubledOfAppend
    <2> QED
      BY <1>2, <2>1, <2>2, KeptByBoth, KeptTwice
  <1>3. Seq(Token) \subseteq S
    <2> HIDE DEF S
    <2> QED
      BY <1>1, <1>2, SequenceInduction
  <1> QED
    BY <1>3 DEF Text

LEMMA KeptEscaped ==
  ASSUME NEW f \in Text
  PROVE  KeepsQuotes(EscapeField(f))
  <1>1. CASE ~(Occurs(Semicolon, f) \/ Occurs(Quote, f) \/ Occurs(Lf, f))
    BY <1>1, KeptUnquoted DEF EscapeField
  <1>2. CASE Occurs(Semicolon, f) \/ Occurs(Quote, f) \/ Occurs(Lf, f)
    <2>1. ASSUME NEW a \in Text PROVE StateOf(a \o EscapeField(f)).inQuotes <=> StateOf(a).inQuotes
      <3> DEFINE b == Append(a, Quote)
                 d == b \o Doubled(f)
      <3>1. Quote \in Token /\ Doubled(f) \in Text /\ b \in Text /\ d \in Text /\ a \in Seq(Token) /\ <<Quote>> \in Text
        <4>1. Quote \in Token
          BY DEF Token
        <4> QED
          BY <4>1, DoubledTyped DEF Text
      <3>2. a \o EscapeField(f) = Append(d, Quote)
        <4>1. EscapeField(f) = (<<Quote>> \o Doubled(f)) \o <<Quote>> /\ <<Quote>> \o Doubled(f) \in Text
          BY <1>2, <3>1 DEF EscapeField, Text
        <4>2. a \o EscapeField(f) = (a \o (<<Quote>> \o Doubled(f))) \o <<Quote>>
          BY <3>1, <4>1, JoinedTwice DEF Text
        <4>3. a \o (<<Quote>> \o Doubled(f)) = (a \o <<Quote>>) \o Doubled(f) /\ a \o <<Quote>> = b
          BY <3>1, JoinedTwice, JoinedToAppend, SMTT(20) DEF Text
        <4>4. d \o <<Quote>> = Append(d, Quote)
          BY <3>1, JoinedToAppend DEF Text
        <4> QED
          BY <4>2, <4>3, <4>4
      <3> HIDE DEF d
      <3>3. StateOf(b).inQuotes <=> ~StateOf(a).inQuotes
        BY <3>1, QuotesTurned
      <3>4. StateOf(d).inQuotes <=> StateOf(b).inQuotes
        BY <3>1, KeptDoubled DEF KeepsQuotes, d
      <3>5. StateOf(Append(d, Quote)).inQuotes <=> ~StateOf(d).inQuotes
        BY <3>1, QuotesTurned
      <3> QED
        BY <3>2, <3>3, <3>4, <3>5
    <2> QED
      BY <2>1 DEF KeepsQuotes
  <1> QED
    BY <1>1, <1>2

-----------------------------------------------------------------------------
(* What the scan makes of a row.                                           *)

Body(r) ==
  EscapeField(r.input) \o <<Semicolon>> \o EscapeField(r.output1) \o <<Semicolon>>
    \o EscapeField(r.output2)
    \o <<Semicolon, r.inputEncoding, Semicolon, r.encoding1, Semicolon, r.encoding2>>

(* A name of an encoding is none of the tokens that mean something.        *)
LEMMA NamesMeanNothing ==
  ASSUME NEW e \in Encodings \cup Outputs
  PROVE  e \in Token /\ e \notin {Semicolon, Quote, Lf, Cr, Space}
  <1>1. e \in Token
    BY DEF Token
  <1>2. e \in {"UTF-8", "ternary", "charT_u8", "charTC_u8", "unknown", "ambiguous", ""}
    BY DEF Encodings, Outputs, ValidInputEncodings
  <1> QED
    BY <1>1, <1>2 DEF Semicolon, Quote, Lf, Cr, Space

LEMMA MarksAreTokens ==
  /\ Semicolon \in Token /\ Quote \in Token /\ Lf \in Token /\ Cr \in Token
  /\ Semicolon \notin {Quote, Lf, Cr} /\ Quote \notin {Lf, Cr} /\ Lf # Cr
  BY DEF Token, Semicolon, Quote, Lf, Cr

LEMMA NamesAppended ==
  ASSUME NEW s \in Text, NEW e \in Token, NEW f \in Token, NEW g \in Token
  PROVE  s \o <<Semicolon, e, Semicolon, f, Semicolon, g>> =
           Append(Append(Append(Append(Append(Append(s, Semicolon), e), Semicolon), f), Semicolon), g)
  <1> DEFINE a == Semicolon
  <1>0. a \in Token /\ s \in Seq(Token)
    BY MarksAreTokens DEF Text
  <1> HIDE DEF a
  <1>1. s \o <<a>> = Append(s, a) /\ <<a>> \in Seq(Token)
    BY <1>0
  <1>2. s \o <<a, e>> = Append(Append(s, a), e) /\ <<a, e>> \in Seq(Token)
    <2> DEFINE w == <<a>>
    <2>1. <<a, e>> = Append(w, e)
      OBVIOUS
    <2>2. w \in Seq(Token) /\ s \o w = Append(s, a)
      BY <1>1
    <2> HIDE DEF w
    <2>3. s \o Append(w, e) = Append(s \o w, e) /\ Append(w, e) \in Seq(Token)
      BY <1>0, <2>2, JoinedToAppend
    <2> QED
      BY <2>1, <2>2, <2>3
  <1>3. s \o <<a, e, a>> = Append(Append(Append(s, a), e), a) /\ <<a, e, a>> \in Seq(Token)
    <2> DEFINE w == <<a, e>>
    <2>1. <<a, e, a>> = Append(w, a)
      OBVIOUS
    <2>2. w \in Seq(Token) /\ s \o w = Append(Append(s, a), e)
      BY <1>2
    <2> HIDE DEF w
    <2>3. s \o Append(w, a) = Append(s \o w, a) /\ Append(w, a) \in Seq(Token)
      BY <1>0, <2>2, JoinedToAppend
    <2> QED
      BY <2>1, <2>2, <2>3
  <1>4. s \o <<a, e, a, f>> = Append(Append(Append(Append(s, a), e), a), f) /\ <<a, e, a, f>> \in Seq(Token)
    <2> DEFINE w == <<a, e, a>>
    <2>1. <<a, e, a, f>> = Append(w, f)
      OBVIOUS
    <2>2. w \in Seq(Token) /\ s \o w = Append(Append(Append(s, a), e), a)
      BY <1>3
    <2> HIDE DEF w
    <2>3. s \o Append(w, f) = Append(s \o w, f) /\ Append(w, f) \in Seq(Token)
      BY <1>0, <2>2, JoinedToAppend
    <2> QED
      BY <2>1, <2>2, <2>3
  <1>5. s \o <<a, e, a, f, a>> = Append(Append(Append(Append(Append(s, a), e), a), f), a) /\ <<a, e, a, f, a>> \in Seq(Token)
    <2> DEFINE w == <<a, e, a, f>>
    <2>1. <<a, e, a, f, a>> = Append(w, a)
      OBVIOUS
    <2>2. w \in Seq(Token) /\ s \o w = Append(Append(Append(Append(s, a), e), a), f)
      BY <1>4
    <2> HIDE DEF w
    <2>3. s \o Append(w, a) = Append(s \o w, a) /\ Append(w, a) \in Seq(Token)
      BY <1>0, <2>2, JoinedToAppend, SMTT(20)
    <2> QED
      BY <2>1, <2>2, <2>3
  <1>6. s \o <<a, e, a, f, a, g>> = Append(Append(Append(Append(Append(Append(s, a), e), a), f), a), g)
        /\ <<a, e, a, f, a, g>> \in Seq(Token)
    <2> DEFINE w == <<a, e, a, f, a>>
    <2>1. <<a, e, a, f, a, g>> = Append(w, g)
      OBVIOUS
    <2>2. w \in Seq(Token) /\ s \o w = Append(Append(Append(Append(Append(s, a), e), a), f), a)
      BY <1>5
    <2> HIDE DEF w
    <2>3. s \o Append(w, g) = Append(s \o w, g) /\ Append(w, g) \in Seq(Token)
      BY <1>0, <2>2, JoinedToAppend
    <2> QED
      BY <2>1, <2>2, <2>3
  <1> QED
    BY <1>6 DEF a

(* A row by its parts, and its body by appending.                          *)
LEMMA RowParts ==
  ASSUME NEW r \in RecordForms
  PROVE  /\ r.input \in Text /\ r.output1 \in Text /\ r.output2 \in Text
         /\ r.inputEncoding \in Encodings /\ r.encoding1 \in Outputs /\ r.encoding2 \in Outputs
         /\ EscapeField(r.input) \in Text /\ EscapeField(r.output1) \in Text /\ EscapeField(r.output2) \in Text
         /\ {r.inputEncoding, r.encoding1, r.encoding2} \subseteq Token \ {Semicolon, Quote, Lf, Cr, Space}
  <1>1. /\ r.input \in Text /\ r.output1 \in Text /\ r.output2 \in Text
        /\ r.inputEncoding \in Encodings /\ r.encoding1 \in Outputs /\ r.encoding2 \in Outputs
    BY DEF RecordForms
  <1> QED
    BY <1>1, EscapeTyped, NamesMeanNothing

ThreeFields(r) ==
  EscapeField(r.input) \o <<Semicolon>> \o EscapeField(r.output1) \o <<Semicolon>> \o EscapeField(r.output2)

LEMMA BodyIs ==
  ASSUME NEW r \in RecordForms
  PROVE  /\ ThreeFields(r) \in Text /\ Body(r) \in Text
         /\ Body(r) = Append(Append(Append(Append(Append(Append(ThreeFields(r),
                        Semicolon), r.inputEncoding), Semicolon), r.encoding1), Semicolon), r.encoding2)
         /\ RowOf(r) = Append(Body(r), Lf)
  <1> DEFINE x == EscapeField(r.input)
             y == EscapeField(r.output1)
             z == EscapeField(r.output2)
             three == ThreeFields(r)
             e == r.inputEncoding
             f == r.encoding1
             g == r.encoding2
             names == <<Semicolon, e, Semicolon, f, Semicolon, g>>
  <1>1. x \in Text /\ y \in Text /\ z \in Text /\ e \in Token /\ f \in Token /\ g \in Token
    BY RowParts
  <1>2. three = x \o <<Semicolon>> \o y \o <<Semicolon>> \o z
    BY DEF ThreeFields
  <1>3. RowOf(r) = x \o <<Semicolon>> \o y \o <<Semicolon>> \o z \o <<Semicolon, e, Semicolon, f, Semicolon, g, Lf>>
    BY DEF RowOf
  <1>4. Body(r) = three \o names
    BY <1>2 DEF Body
  <1> HIDE DEF x, y, z, e, f, g, three
  <1>5. three \in Text
    BY <1>1, <1>2, MarksAreTokens DEF Text
  <1>6. Body(r) = Append(Append(Append(Append(Append(Append(three, Semicolon), e), Semicolon), f), Semicolon), g)
    <2>1. three \in Seq(Token) /\ Semicolon \in Token /\ e \in Token /\ f \in Token /\ g \in Token
      BY <1>1, <1>5, MarksAreTokens DEF Text
    <2>2. three \o names = Append(Append(Append(Append(Append(Append(three, Semicolon), e), Semicolon), f), Semicolon), g)
      BY <1>5, <2>1, NamesAppended, SMTT(20)
    <2> QED
      BY <1>4, <2>2
  <1>7. names \in Text /\ <<Semicolon, e, Semicolon, f, Semicolon, g, Lf>> = Append(names, Lf)
    BY <1>1, MarksAreTokens DEF Text
  <1>8. RowOf(r) = three \o Append(names, Lf)
    BY <1>2, <1>3, <1>7
  <1> HIDE DEF names
  <1>9. RowOf(r) = Append(three \o names, Lf)
    BY <1>5, <1>7, <1>8, MarksAreTokens, JoinedToAppend DEF Text
  <1>10. Body(r) \in Text
    BY <1>4, <1>5, <1>7 DEF Text
  <1> QED
    BY <1>4, <1>5, <1>6, <1>9, <1>10 DEF three, e, f, g

LEMMA KeptAppended ==
  ASSUME NEW w \in Text, NEW c \in Token, c # Quote, KeepsQuotes(w)
  PROVE  KeepsQuotes(Append(w, c)) /\ Append(w, c) \in Text
  <1>1. Append(w, c) = w \o <<c>> /\ <<c>> \in Text /\ Append(w, c) \in Text
    BY DEF Text
  <1> QED
    BY <1>1, KeptByBoth, KeptByToken

LEMMA KeptThree ==
  ASSUME NEW r \in RecordForms
  PROVE  KeepsQuotes(ThreeFields(r))
  <1> DEFINE x == EscapeField(r.input)
             y == EscapeField(r.output1)
             z == EscapeField(r.output2)
             a == x \o <<Semicolon>>
             b == a \o y
             c == b \o <<Semicolon>>
  <1>1. x \in Text /\ y \in Text /\ z \in Text /\ KeepsQuotes(x) /\ KeepsQuotes(y) /\ KeepsQuotes(z)
    BY RowParts, KeptEscaped
  <1>2. <<Semicolon>> \in Text /\ KeepsQuotes(<<Semicolon>>)
    BY MarksAreTokens, OneToken, KeptByToken
  <1>3. ThreeFields(r) = c \o z
    BY DEF ThreeFields
  <1> HIDE DEF x, y, z
  <1>4. a \in Text /\ KeepsQuotes(a)
    BY <1>1, <1>2, KeptByBoth, TextJoined
  <1> HIDE DEF a
  <1>5. b \in Text /\ KeepsQuotes(b)
    BY <1>1, <1>4, KeptByBoth, TextJoined
  <1> HIDE DEF b
  <1>6. c \in Text /\ KeepsQuotes(c)
    BY <1>2, <1>5, KeptByBoth, TextJoined
  <1> HIDE DEF c
  <1> QED
    BY <1>1, <1>3, <1>6, KeptByBoth

LEMMA KeptBody ==
  ASSUME NEW r \in RecordForms
  PROVE  KeepsQuotes(Body(r))
  <1> DEFINE b == Append(ThreeFields(r), Semicolon)
             c == Append(b, r.inputEncoding)
             d == Append(c, Semicolon)
             e == Append(d, r.encoding1)
             f == Append(e, Semicolon)
             g == Append(f, r.encoding2)
  <1>1. /\ Semicolon \in Token /\ r.inputEncoding \in Token /\ r.encoding1 \in Token /\ r.encoding2 \in Token
        /\ Semicolon # Quote /\ r.inputEncoding # Quote /\ r.encoding1 # Quote /\ r.encoding2 # Quote
    BY RowParts, MarksAreTokens
  <1>2. ThreeFields(r) \in Text /\ KeepsQuotes(ThreeFields(r)) /\ Body(r) = g
    BY BodyIs, KeptThree
  <1>3. b \in Text /\ KeepsQuotes(b)
    BY <1>1, <1>2, KeptAppended
  <1> HIDE DEF b
  <1>4. c \in Text /\ KeepsQuotes(c)
    BY <1>1, <1>3, KeptAppended
  <1> HIDE DEF c
  <1>5. d \in Text /\ KeepsQuotes(d)
    BY <1>1, <1>4, KeptAppended
  <1> HIDE DEF d
  <1>6. e \in Text /\ KeepsQuotes(e)
    BY <1>1, <1>5, KeptAppended
  <1> HIDE DEF e
  <1>7. f \in Text /\ KeepsQuotes(f)
    BY <1>1, <1>6, KeptAppended
  <1> HIDE DEF f
  <1> QED
    BY <1>1, <1>2, <1>7, KeptAppended

(* What only lengthens the text, read inside quotes or outside.            *)
Extends(a, w) ==
  LET s == StateOf(a)
      t == StateOf(a \o w)
  IN  /\ t.records = s.records /\ t.text = s.text \o w /\ ~EndsInCr(a \o w)
      /\ t.inQuotes <=> s.inQuotes

Extending(quoted, w) ==
  \A a \in Text : ~EndsInCr(a) /\ (StateOf(a).inQuotes <=> quoted) => Extends(a, w)

LEMMA ExtendingBoth ==
  ASSUME NEW q, NEW v \in Text, NEW w \in Text, Extending(q, v), Extending(q, w)
  PROVE  Extending(q, v \o w)
  <1>1. ASSUME NEW a \in Text, ~EndsInCr(a), StateOf(a).inQuotes <=> q PROVE Extends(a, v \o w)
    <2> DEFINE b == a \o v
               d == a \o (v \o w)
    <2>1. b \in Text /\ d = b \o w
      BY TextJoined, JoinedTwice DEF Text
    <2>2. /\ StateOf(b).records = StateOf(a).records /\ StateOf(b).text = StateOf(a).text \o v
          /\ ~EndsInCr(b) /\ (StateOf(b).inQuotes <=> q)
      BY <1>1 DEF Extending, Extends
    <2> HIDE DEF b, d
    <2>3. /\ StateOf(d).records = StateOf(b).records /\ StateOf(d).text = StateOf(b).text \o w
          /\ ~EndsInCr(d) /\ (StateOf(d).inQuotes <=> q)
      BY <2>1, <2>2 DEF Extending, Extends
    <2>4. StateOf(d).text = StateOf(a).text \o (v \o w)
      <3> DEFINE x == StateOf(a).text
      <3>1. x \in Text
        BY StateTyped DEF ScanStates
      <3>2. StateOf(b).text = x \o v
        BY <2>2
      <3> HIDE DEF x
      <3>3. (x \o v) \o w = x \o (v \o w)
        BY <3>1, JoinedTwice DEF Text
      <3> QED
        BY <2>3, <3>2, <3>3 DEF x
    <2> QED
      BY <1>1, <2>2, <2>3, <2>4 DEF Extends, d
  <1> QED
    BY <1>1 DEF Extending

LEMMA ExtendingNone == ASSUME NEW q PROVE Extending(q, <<>>)
  <1>1. ASSUME NEW a \in Text, ~EndsInCr(a) PROVE Extends(a, <<>>)
    <2>1. a \o <<>> = a
      BY DEF Text
    <2>2. StateOf(a).text \o <<>> = StateOf(a).text
      <3> DEFINE x == StateOf(a).text
      <3>1. x \in Text
        BY StateTyped DEF ScanStates
      <3> HIDE DEF x
      <3>2. x \o <<>> = x
        BY <3>1 DEF Text
      <3> QED
        BY <3>2 DEF x
    <2> QED
      BY <1>1, <2>1, <2>2 DEF Extends
  <1> QED
    BY <1>1 DEF Extending

LEMMA OneJoined ==
  ASSUME NEW a \in Text, NEW c \in Token
  PROVE  a \o <<c>> = Append(a, c) /\ Append(a, c) \in Text /\ StateOf(a).text \o <<c>> = Append(StateOf(a).text, c)
  <1> DEFINE x == StateOf(a).text
  <1>1. x \in Text
    BY StateTyped DEF ScanStates
  <1> HIDE DEF x
  <1>2. x \o <<c>> = Append(x, c) /\ a \o <<c>> = Append(a, c) /\ Append(a, c) \in Text
    BY <1>1 DEF Text
  <1> QED
    BY <1>2 DEF x

LEMMA ExtendingToken ==
  ASSUME NEW q, NEW c \in Token, c # Cr, c # Quote, c = Lf => q
  PROVE  Extending(q, <<c>>)
  <1>1. ASSUME NEW a \in Text, ~EndsInCr(a), StateOf(a).inQuotes <=> q PROVE Extends(a, <<c>>)
    <2>1. a \o <<c>> = Append(a, c) /\ StateOf(a).text \o <<c>> = Append(StateOf(a).text, c)
      BY OneJoined
    <2>2. c = Lf => StateOf(a).inQuotes /\ ~EndsInCr(a)
      BY <1>1
    <2>3. LET s == StateOf(a)
              t == StateOf(Append(a, c))
          IN  /\ t.records = s.records /\ t.text = Append(s.text, c) /\ ~EndsInCr(Append(a, c))
              /\ t.inQuotes <=> (IF c = Quote THEN ~s.inQuotes ELSE s.inQuotes)
      BY <2>2, OneTokenOn
    <2> QED
      BY <2>1, <2>3 DEF Extends
  <1> QED
    BY <1>1 DEF Extending

LEMMA ExtendingTwice ==
  ASSUME NEW c \in Token, c # Cr
  PROVE  Extending(TRUE, Twice(c))
  <1>1. CASE c # Quote
    BY <1>1, ExtendingToken DEF Twice
  <1>2. CASE c = Quote
    <2>1. ASSUME NEW a \in Text, ~EndsInCr(a), StateOf(a).inQuotes PROVE Extends(a, <<Quote, Quote>>)
      <3> DEFINE b == Append(a, Quote)
                 d == Append(b, Quote)
                 x == StateOf(a).text
      <3>1. b \in Text /\ d \in Text /\ x \in Text
        BY MarksAreTokens, StateTyped DEF Text, ScanStates
      <3>2. a \o <<Quote, Quote>> = d
        <4>1. <<Quote, Quote>> = Append(<<Quote>>, Quote) /\ <<Quote>> \in Seq(Token)
          BY MarksAreTokens
        <4>2. a \o Append(<<Quote>>, Quote) = Append(a \o <<Quote>>, Quote) /\ a \o <<Quote>> = Append(a, Quote)
          BY <4>1, MarksAreTokens, JoinedToAppend DEF Text
        <4> QED
          BY <4>1, <4>2
      <3> HIDE DEF x
      <3>3. Append(Append(x, Quote), Quote) = x \o <<Quote, Quote>>
        BY <3>1, MarksAreTokens DEF Text
      <3>4. /\ StateOf(b).records = StateOf(a).records /\ StateOf(b).text = Append(x, Quote)
            /\ ~EndsInCr(b) /\ ~StateOf(b).inQuotes
        BY <2>1, MarksAreTokens, OneTokenOn DEF x
      <3> HIDE DEF b
      <3>5. /\ StateOf(d).records = StateOf(b).records /\ StateOf(d).text = Append(Append(x, Quote), Quote)
            /\ ~EndsInCr(d) /\ StateOf(d).inQuotes
        BY <3>1, <3>4, MarksAreTokens, OneTokenOn
      <3> HIDE DEF d
      <3> QED
        BY <2>1, <3>2, <3>3, <3>4, <3>5 DEF Extends, x
    <2> QED
      BY <1>2, <2>1 DEF Extending, Twice
  <1> QED
    BY <1>1, <1>2

LEMMA ExtendingDoubled ==
  ASSUME NEW w \in Text, ~Occurs(Cr, w)
  PROVE  Extending(TRUE, Doubled(w))
  <1> DEFINE S == {x \in Text : ~Occurs(Cr, x) => Extending(TRUE, Doubled(x))}
  <1>1. <<>> \in S
    BY EmptyText, ExtendingNone, DoubledOfNone
  <1>2. ASSUME NEW x \in Seq(Token), x \in S, NEW c \in Token PROVE Append(x, c) \in S
    <2>1. x \in Text /\ Append(x, c) \in Text /\ Doubled(x) \in Text /\ Twice(c) \in Text
      BY <1>2, DoubledTyped, TwiceTyped DEF Text
    <2>2. Doubled(Append(x, c)) = Doubled(x) \o Twice(c)
      BY <2>1, DoubledOfAppend
    <2>3. ASSUME ~Occurs(Cr, Append(x, c)) PROVE Extending(TRUE, Doubled(Append(x, c)))
      <3>1. ~Occurs(Cr, x) /\ c # Cr
        BY <2>1, <2>3, OccursInAppend
      <3>2. Extending(TRUE, Doubled(x)) /\ Extending(TRUE, Twice(c))
        BY <1>2, <3>1, ExtendingTwice
      <3> QED
        BY <2>1, <2>2, <3>2, ExtendingBoth
    <2> QED
      BY <2>1, <2>3
  <1>3. Seq(Token) \subseteq S
    <2> HIDE DEF S
    <2> QED
      BY <1>1, <1>2, SequenceInduction
  <1> QED
    BY <1>3 DEF Text

LEMMA ExtendingUnquoted ==
  ASSUME NEW w \in Text, ~Occurs(Cr, w), ~Occurs(Quote, w), ~Occurs(Lf, w)
  PROVE  Extending(FALSE, w)
  <1> DEFINE Free(x) == ~Occurs(Cr, x) /\ ~Occurs(Quote, x) /\ ~Occurs(Lf, x)
             S == {x \in Text : Free(x) => Extending(FALSE, x)}
  <1>1. <<>> \in S
    BY EmptyText, ExtendingNone
  <1>2. ASSUME NEW x \in Seq(Token), x \in S, NEW c \in Token PROVE Append(x, c) \in S
    <2>1. x \in Text /\ Append(x, c) \in Text /\ <<c>> \in Text /\ Append(x, c) = x \o <<c>>
      BY <1>2 DEF Text
    <2>2. ASSUME Free(Append(x, c)) PROVE Extending(FALSE, Append(x, c))
      <3>1. Free(x) /\ c # Cr /\ c # Quote /\ c # Lf
        BY <2>1, <2>2, OccursInAppend
      <3>2. Extending(FALSE, x) /\ Extending(FALSE, <<c>>)
        BY <1>2, <3>1, ExtendingToken
      <3> QED
        BY <2>1, <3>2, ExtendingBoth
    <2> QED
      BY <2>1, <2>2
  <1>3. Seq(Token) \subseteq S
    <2> HIDE DEF S
    <2> QED
      BY <1>1, <1>2, SequenceInduction
  <1> QED
    BY <1>3 DEF Text

(* A field in quotes is the quotation mark, the field with its marks       *)
(* doubled, and the mark.                                                  *)
LEMMA QuotedField ==
  ASSUME NEW a \in Text, NEW f \in Text, Occurs(Semicolon, f) \/ Occurs(Quote, f) \/ Occurs(Lf, f)
  PROVE  /\ EscapeField(f) = Append(<<Quote>> \o Doubled(f), Quote) /\ <<Quote>> \o Doubled(f) \in Text
         /\ a \o EscapeField(f) = Append(Append(a, Quote) \o Doubled(f), Quote)
         /\ Append(a, Quote) \in Text /\ Append(a, Quote) \o Doubled(f) \in Text
  <1>1. Quote \in Token /\ Doubled(f) \in Text /\ <<Quote>> \in Text /\ Append(a, Quote) \in Text
    BY MarksAreTokens, DoubledTyped DEF Text
  <1>2. <<Quote>> \o Doubled(f) \in Text /\ Append(a, Quote) \o Doubled(f) \in Text
    BY <1>1, TextJoined
  <1>3. EscapeField(f) = (<<Quote>> \o Doubled(f)) \o <<Quote>>
    BY DEF EscapeField
  <1>4. EscapeField(f) = Append(<<Quote>> \o Doubled(f), Quote)
    BY <1>1, <1>2, <1>3, JoinedToAppend DEF Text
  <1>5. a \o Append(<<Quote>> \o Doubled(f), Quote) = Append(a \o (<<Quote>> \o Doubled(f)), Quote)
    BY <1>1, <1>2, JoinedToAppend DEF Text
  <1>6. a \o (<<Quote>> \o Doubled(f)) = (a \o <<Quote>>) \o Doubled(f)
    BY <1>1, JoinedTwice DEF Text
  <1>7. a \o <<Quote>> = Append(a, Quote)
    BY <1>1 DEF Text
  <1> QED
    BY <1>1, <1>2, <1>4, <1>5, <1>6, <1>7

LEMMA ExtendingEscaped ==
  ASSUME NEW f \in Text, ~Occurs(Cr, f)
  PROVE  Extending(FALSE, EscapeField(f))
  <1>1. CASE ~(Occurs(Semicolon, f) \/ Occurs(Quote, f) \/ Occurs(Lf, f))
    BY <1>1, ExtendingUnquoted DEF EscapeField
  <1>2. CASE Occurs(Semicolon, f) \/ Occurs(Quote, f) \/ Occurs(Lf, f)
    <2>1. ASSUME NEW a \in Text, ~EndsInCr(a), ~StateOf(a).inQuotes PROVE Extends(a, EscapeField(f))
      <3> DEFINE b == Append(a, Quote)
                 d == b \o Doubled(f)
                 e == Append(d, Quote)
                 x == StateOf(a).text
      <3>1. b \in Text /\ d \in Text /\ a \o EscapeField(f) = e /\ x \in Text
        BY <1>2, QuotedField, StateTyped DEF ScanStates
      <3> HIDE DEF x
      <3>2. /\ StateOf(b).records = StateOf(a).records /\ StateOf(b).text = Append(x, Quote)
            /\ ~EndsInCr(b) /\ StateOf(b).inQuotes
        BY <2>1, MarksAreTokens, OneTokenOn DEF x
      <3> HIDE DEF b
      <3>3. /\ StateOf(d).records = StateOf(b).records /\ StateOf(d).text = Append(x, Quote) \o Doubled(f)
            /\ ~EndsInCr(d) /\ StateOf(d).inQuotes
        BY <3>1, <3>2, ExtendingDoubled DEF Extending, Extends
      <3> HIDE DEF d
      <3>4. /\ StateOf(e).records = StateOf(d).records /\ StateOf(e).text = Append(Append(x, Quote) \o Doubled(f), Quote)
            /\ ~EndsInCr(e) /\ ~StateOf(e).inQuotes
        <4>1. d \in Text /\ Quote \in Token /\ Quote # Cr /\ Quote # Lf
          BY <3>1, MarksAreTokens
        <4>2. LET s == StateOf(d)
                  t == StateOf(Append(d, Quote))
              IN  /\ t.records = s.records /\ t.text = Append(s.text, Quote) /\ ~EndsInCr(Append(d, Quote))
                  /\ t.inQuotes <=> (IF Quote = Quote THEN ~s.inQuotes ELSE s.inQuotes)
          BY <4>1, OneTokenOn
        <4> QED
          BY <3>3, <4>2
      <3> HIDE DEF e
      <3>5. Append(Append(x, Quote) \o Doubled(f), Quote) = x \o EscapeField(f)
        BY <1>2, <3>1, QuotedField
      <3> QED
        BY <2>1, <3>1, <3>2, <3>3, <3>4, <3>5 DEF Extends, x
    <2> QED
      BY <2>1 DEF Extending
  <1> QED
    BY <1>1, <1>2

LEMMA ExtendingAppended ==
  ASSUME NEW w \in Text, NEW c \in Token, c \notin {Cr, Quote, Lf}, Extending(FALSE, w)
  PROVE  Extending(FALSE, Append(w, c)) /\ Append(w, c) \in Text
  <1>1. Append(w, c) = w \o <<c>> /\ <<c>> \in Text /\ Append(w, c) \in Text
    BY DEF Text
  <1>2. Extending(FALSE, <<c>>)
    BY ExtendingToken
  <1> QED
    BY <1>1, <1>2, ExtendingBoth

LEMMA ExtendingThree ==
  ASSUME NEW r \in RecordForms, ~HasCr(r)
  PROVE  Extending(FALSE, ThreeFields(r))
  <1> DEFINE x == EscapeField(r.input)
             y == EscapeField(r.output1)
             z == EscapeField(r.output2)
             a == x \o <<Semicolon>>
             b == a \o y
             c == b \o <<Semicolon>>
  <1>1. x \in Text /\ y \in Text /\ z \in Text /\ Extending(FALSE, x) /\ Extending(FALSE, y) /\ Extending(FALSE, z)
    BY RowParts, ExtendingEscaped DEF HasCr
  <1>2. <<Semicolon>> \in Text /\ Extending(FALSE, <<Semicolon>>)
    BY MarksAreTokens, OneToken, ExtendingToken
  <1>3. ThreeFields(r) = c \o z
    BY DEF ThreeFields
  <1> HIDE DEF x, y, z
  <1>4. a \in Text /\ Extending(FALSE, a)
    BY <1>1, <1>2, ExtendingBoth, TextJoined
  <1> HIDE DEF a
  <1>5. b \in Text /\ Extending(FALSE, b)
    BY <1>1, <1>4, ExtendingBoth, TextJoined
  <1> HIDE DEF b
  <1>6. c \in Text /\ Extending(FALSE, c)
    BY <1>2, <1>5, ExtendingBoth, TextJoined
  <1> HIDE DEF c
  <1> QED
    BY <1>1, <1>3, <1>6, ExtendingBoth

LEMMA ExtendingBody ==
  ASSUME NEW r \in RecordForms, ~HasCr(r)
  PROVE  Extending(FALSE, Body(r))
  <1> DEFINE b == Append(ThreeFields(r), Semicolon)
             c == Append(b, r.inputEncoding)
             d == Append(c, Semicolon)
             e == Append(d, r.encoding1)
             f == Append(e, Semicolon)
             g == Append(f, r.encoding2)
  <1>1. {Semicolon, r.inputEncoding, r.encoding1, r.encoding2} \subseteq Token \ {Cr, Quote, Lf}
    BY RowParts, MarksAreTokens
  <1>2. ThreeFields(r) \in Text /\ Extending(FALSE, ThreeFields(r)) /\ Body(r) = g
    BY BodyIs, ExtendingThree
  <1>3. b \in Text /\ Extending(FALSE, b)
    BY <1>1, <1>2, ExtendingAppended
  <1> HIDE DEF b
  <1>4. c \in Text /\ Extending(FALSE, c)
    BY <1>1, <1>3, ExtendingAppended
  <1> HIDE DEF c
  <1>5. d \in Text /\ Extending(FALSE, d)
    BY <1>1, <1>4, ExtendingAppended
  <1> HIDE DEF d
  <1>6. e \in Text /\ Extending(FALSE, e)
    BY <1>1, <1>5, ExtendingAppended
  <1> HIDE DEF e
  <1>7. f \in Text /\ Extending(FALSE, f)
    BY <1>1, <1>6, ExtendingAppended
  <1> HIDE DEF f
  <1> QED
    BY <1>1, <1>2, <1>7, ExtendingAppended

(* Between rows the scan is outside quotes, at the start of a record.      *)
BetweenRows(a) == ~StateOf(a).inQuotes /\ StateOf(a).text = <<>> /\ ~EndsInCr(a)

(* It is there again behind every row, whatever is in its texts. A row     *)
(* without a carriage return is exactly one record.                        *)
LEMMA RowScanned ==
  ASSUME NEW a \in Text, BetweenRows(a), NEW r \in RecordForms
  PROVE  /\ BetweenRows(a \o RowOf(r)) /\ a \o RowOf(r) \in Text
         /\ ~HasCr(r) => \E n \in Nat :
              StateOf(a \o RowOf(r)).records = Append(StateOf(a).records, [text |-> Body(r), line |-> n])
  <1> DEFINE b == a \o Body(r)
             d == Append(b, Lf)
  <1>1. Body(r) \in Text /\ b \in Text /\ d \in Text /\ a \o RowOf(r) = d
    <2>1. Body(r) \in Text /\ RowOf(r) = Append(Body(r), Lf)
      BY BodyIs
    <2>2. a \o Append(Body(r), Lf) = Append(b, Lf)
      BY <2>1, MarksAreTokens, JoinedToAppend DEF Text
    <2>3. b \in Text
      BY <2>1, TextJoined
    <2>4. Append(b, Lf) \in Text
      BY <2>3, MarksAreTokens DEF Text
    <2> QED
      BY <2>1, <2>2, <2>3, <2>4
  <1>2. ~StateOf(b).inQuotes
    BY KeptBody, <1>1 DEF KeepsQuotes, BetweenRows
  <1>3. ~EndsInCr(b)
    <2> DEFINE w == Append(Append(Append(Append(Append(ThreeFields(r),
                      Semicolon), r.inputEncoding), Semicolon), r.encoding1), Semicolon)
               e == r.encoding2
    <2>1. Body(r) = Append(w, e) /\ ThreeFields(r) \in Text
      BY BodyIs
    <2>2. w \in Text
      BY <2>1, RowParts, MarksAreTokens DEF Text
    <2>3. e \in Token /\ e # Cr
      BY RowParts
    <2> HIDE DEF w, e
    <2>4. a \o Append(w, e) = Append(a \o w, e) /\ a \o w \in Text
      BY <2>2, <2>3, JoinedToAppend, TextJoined DEF Text
    <2> QED
      BY <2>1, <2>3, <2>4, EndOfAppend
  <1>4. StateOf(d) = Fed(StateOf(b), Lf)
    BY <1>1, <1>3, MarksAreTokens, StateOfAppend
  <1>5. StateOf(b) \in ScanStates /\ ~StateOf(b).skip
    BY <1>1, StateTyped
  <1>6. Follows(StateOf(b), Fed(StateOf(b), Lf), Lf, Lf = Lf /\ ~StateOf(b).inQuotes, Lf = Quote, FALSE)
    BY <1>5, MarksAreTokens, FedParts
  <1>7. /\ StateOf(d).records = Append(StateOf(b).records, [text |-> StateOf(b).text, line |-> StateOf(b).start])
        /\ StateOf(d).text = <<>> /\ ~StateOf(d).inQuotes
    BY <1>2, <1>4, <1>6, MarksAreTokens DEF Follows
  <1>8. ~EndsInCr(d)
    BY <1>1, MarksAreTokens, EndOfAppend
  <1>9. ASSUME ~HasCr(r)
        PROVE  \E n \in Nat : StateOf(d).records = Append(StateOf(a).records, [text |-> Body(r), line |-> n])
    <2>1. Extends(a, Body(r))
      BY <1>9, ExtendingBody DEF Extending, BetweenRows
    <2>2. StateOf(b).records = StateOf(a).records /\ StateOf(b).text = <<>> \o Body(r)
      BY <2>1 DEF Extends, BetweenRows
    <2>3. <<>> \o Body(r) = Body(r)
      BY <1>1 DEF Text
    <2>4. StateOf(b).start \in Nat
      BY <1>5 DEF ScanStates
    <2> HIDE DEF b, d
    <2> QED
      BY <1>7, <2>2, <2>3, <2>4
  <1> HIDE DEF b, d
  <1> QED
    BY <1>1, <1>7, <1>8, <1>9 DEF BetweenRows

(* Whatever is read, records only get more. A set of records that one more *)
(* cannot leave is not left.                                               *)
LEMMA RecordsGrow ==
  ASSUME NEW a \in Text, NEW G, StateOf(a).records \in G,
         \A records \in G, x \in Found : Append(records, x) \in G,
         NEW w \in Text
  PROVE  StateOf(a \o w).records \in G
  <1> DEFINE S == {v \in Text : StateOf(a \o v).records \in G}
  <1>1. <<>> \in S
    <2>1. a \o <<>> = a
      BY DEF Text
    <2> QED
      BY <2>1, EmptyText
  <1>2. ASSUME NEW v \in Seq(Token), v \in S, NEW c \in Token PROVE Append(v, c) \in S
    <2> DEFINE b == a \o v
    <2>1. v \in Text /\ Append(v, c) \in Text /\ b \in Text /\ a \o Append(v, c) = Append(b, c)
      <3>1. v \in Text /\ Append(v, c) \in Text
        BY <1>2 DEF Text
      <3>2. b \in Text
        BY <3>1, TextJoined
      <3> QED
        BY <3>1, <3>2, JoinedToAppend DEF Text
    <2>2. StateOf(b).records \in G
      BY <1>2
    <2> HIDE DEF b
    <2>3. StateOf(b) \in ScanStates /\ ~StateOf(b).skip
      BY <2>1, StateTyped
    <2> DEFINE x == [text |-> StateOf(b).text, line |-> StateOf(b).start]
    <2>4. x \in Found
      BY <2>3 DEF ScanStates, Found
    <2>5. ASSUME NEW e \in Token PROVE Fed(StateOf(b), e).records \in G
      <3>1. Follows(StateOf(b), Fed(StateOf(b), e), e, e = Lf /\ ~StateOf(b).inQuotes, e = Quote, FALSE)
        BY <2>3, FedParts
      <3>2. Fed(StateOf(b), e).records \in {StateOf(b).records, Append(StateOf(b).records, x)}
        BY <3>1 DEF Follows
      <3> HIDE DEF x
      <3> QED
        BY <2>2, <2>4, <3>2
    <2>6. StateOf(Append(b, c)).records \in G
      BY <2>1, <2>2, <2>5, MarksAreTokens, StateOfAppend
    <2> QED
      BY <2>1, <2>6
  <1>3. Seq(Token) \subseteq S
    <2> HIDE DEF S
    <2> QED
      BY <1>1, <1>2, SequenceInduction
  <1> QED
    BY <1>3 DEF Text

-----------------------------------------------------------------------------
(* The split of a row, again without a token that is looked at twice: a    *)
(* mark that ends quotes leaves them closed, and a mark at once behind it  *)
(* is one of the field.                                                    *)

CutStates == [fields : Seq(Text), text : Text, inQuotes : BOOLEAN, closed : BOOLEAN]
CutStart == [fields |-> <<>>, text |-> <<>>, inQuotes |-> FALSE, closed |-> FALSE]

CutToken(s, c) ==
  IF c = Quote
  THEN IF s.inQuotes THEN [s EXCEPT !.inQuotes = FALSE, !.closed = TRUE]
       ELSE IF s.closed THEN [s EXCEPT !.text = Append(@, Quote), !.inQuotes = TRUE, !.closed = FALSE]
       ELSE [s EXCEPT !.inQuotes = TRUE]
  ELSE IF c = Semicolon /\ ~s.inQuotes
  THEN [s EXCEPT !.fields = Append(@, s.text), !.text = <<>>, !.closed = FALSE]
  ELSE [s EXCEPT !.text = Append(@, c), !.closed = FALSE]

Cut(a) ==
  LET cut[k \in 0..Len(a)] == IF k = 0 THEN CutStart ELSE CutToken(cut[k - 1], a[k])
  IN  cut[Len(a)]

LEMMA CutTokenParts ==
  ASSUME NEW s \in CutStates, NEW c \in Token
  PROVE  LET t == CutToken(s, c)
             again == c = Quote /\ ~s.inQuotes /\ s.closed
             ends == c = Semicolon /\ ~s.inQuotes
         IN  /\ t.fields = IF ends THEN Append(s.fields, s.text) ELSE s.fields
             /\ t.text = IF ends THEN <<>> ELSE IF c # Quote \/ again THEN Append(s.text, c) ELSE s.text
             /\ t.inQuotes <=> (IF c = Quote THEN ~s.inQuotes ELSE s.inQuotes)
             /\ t.closed <=> c = Quote /\ (s.inQuotes \/ (s.closed /\ ~again))
             /\ t \in CutStates
  <1> DEFINE more == Append(s.text, c)
             fields == Append(s.fields, s.text)
             none == <<>>
  <1>1. more \in Text /\ fields \in Seq(Text) /\ none \in Text /\ s.inQuotes \in BOOLEAN /\ s.closed \in BOOLEAN
    BY DEF CutStates, Text
  <1>2. Semicolon # Quote
    BY MarksAreTokens
  <1>3. CutToken(s, c) =
          IF c = Quote
          THEN IF s.inQuotes THEN [s EXCEPT !.inQuotes = FALSE, !.closed = TRUE]
               ELSE IF s.closed THEN [s EXCEPT !.text = more, !.inQuotes = TRUE, !.closed = FALSE]
               ELSE [s EXCEPT !.inQuotes = TRUE]
          ELSE IF c = Semicolon /\ ~s.inQuotes THEN [s EXCEPT !.fields = fields, !.text = none, !.closed = FALSE]
          ELSE [s EXCEPT !.text = more, !.closed = FALSE]
    BY DEF CutToken
  <1> DEFINE t == CutToken(s, c)
  <1> HIDE DEF more, fields, none, t
  <1>4. CASE c = Quote /\ s.inQuotes
    <2>1. t = [s EXCEPT !.inQuotes = FALSE, !.closed = TRUE]
      BY <1>3, <1>4 DEF t
    <2>2. t.fields = s.fields /\ t.text = s.text /\ ~t.inQuotes /\ t.closed /\ t \in CutStates
      BY <2>1 DEF CutStates
    <2> QED
      BY <1>2, <1>4, <2>2 DEF t
  <1>5. CASE c = Quote /\ ~s.inQuotes /\ s.closed
    <2>1. t = [s EXCEPT !.text = more, !.inQuotes = TRUE, !.closed = FALSE]
      BY <1>3, <1>5 DEF t
    <2>2. t.fields = s.fields /\ t.text = more /\ t.inQuotes /\ ~t.closed /\ t \in CutStates
      BY <1>1, <2>1 DEF CutStates
    <2> QED
      BY <1>2, <1>5, <2>2 DEF t, more
  <1>6. CASE c = Quote /\ ~s.inQuotes /\ ~s.closed
    <2>1. t = [s EXCEPT !.inQuotes = TRUE]
      BY <1>3, <1>6 DEF t
    <2>2. t.fields = s.fields /\ t.text = s.text /\ t.inQuotes /\ ~t.closed /\ t \in CutStates
      BY <1>6, <2>1 DEF CutStates
    <2> QED
      BY <1>2, <1>6, <2>2 DEF t
  <1>7. CASE c = Semicolon /\ ~s.inQuotes
    <2>1. t = [s EXCEPT !.fields = fields, !.text = none, !.closed = FALSE]
      BY <1>2, <1>3, <1>7 DEF t
    <2>2. t.fields = fields /\ t.text = none /\ ~t.inQuotes /\ ~t.closed /\ t \in CutStates
      BY <1>1, <1>7, <2>1 DEF CutStates
    <2> QED
      BY <1>2, <1>7, <2>2 DEF t, fields, none
  <1>8. CASE c # Quote /\ ~(c = Semicolon /\ ~s.inQuotes)
    <2>1. t = [s EXCEPT !.text = more, !.closed = FALSE]
      BY <1>3, <1>8 DEF t
    <2>2. t.fields = s.fields /\ t.text = more /\ t.inQuotes = s.inQuotes /\ ~t.closed /\ t \in CutStates
      BY <1>1, <2>1 DEF CutStates
    <2> QED
      BY <1>8, <2>2 DEF t, more
  <1> QED
    BY <1>4, <1>5, <1>6, <1>7, <1>8

(* The states of the cut.                                                  *)
LEMMA CutUnfolds ==
  ASSUME NEW text \in Text
  PROVE  \E R \in [0..Len(text) -> CutStates] :
           /\ Cut(text) = R[Len(text)]
           /\ R[0] = CutStart
           /\ \A k \in 1..Len(text) : R[k] = CutToken(R[k - 1], text[k])
  <1> DEFINE n == Len(text)
             A == CutStates
             next(s, k) == CutToken(s, text[k])
             step == [p \in A \X (0 + 1..n) |-> next(p[1], p[2])]
             Is(f) == f = [k \in 0..n |-> IF k = 0 THEN CutStart ELSE next(f[k - 1], k)]
             R == CHOOSE f : Is(f)
  <1>1. n \in Nat /\ n \in Int /\ 0 \in Int /\ CutStart \in A
    BY DEF CutStart, CutStates, Text
  <1>2. \A a \in A, k \in 1..n : next(a, k) \in A
    <2>1. \A k \in 1..n : text[k] \in Token
      BY DEF Text
    <2> QED
      BY <2>1, CutTokenParts
  <1>3. Cut(text) = R[n]
    BY DEF Cut
  <1> HIDE DEF A, n, next
  <1>4. step \in [A \X (0 + 1..n) -> A]
    BY <1>2, <1>1
  <1>5. ASSUME NEW a \in A, NEW k \in 0..n, k # 0 PROVE step[<<a, k>>] = next(a, k)
    <2>1. <<a, k>> \in A \X (0 + 1..n)
      BY <1>1, <1>5
    <2> QED
      BY <2>1
  <1>6. PICK f \in [0..n -> A] : Unfolds(f, 0, n, CutStart, step)
    <2> HIDE DEF step
    <2> QED
      BY <1>1, <1>4, Recursion
  <1>7. \A k \in 0..n : f[k] = IF k = 0 THEN CutStart ELSE next(f[k - 1], k)
    <2> HIDE DEF step
    <2>1. \A k \in 0..n : k # 0 => f[k - 1] \in A
      BY <1>1
    <2> QED
      BY <1>5, <1>6, <2>1 DEF Unfolds
  <1>8. Is(f)
    BY <1>7
  <1>9. R = [k \in 0..n |-> IF k = 0 THEN CutStart ELSE next(R[k - 1], k)]
    <2> HIDE DEF Is
    <2>1. Is(R)
      BY <1>8
    <2> QED
      BY <2>1 DEF Is
  <1> HIDE DEF R
  <1>10. R[0] = CutStart /\ \A k \in 1..n : R[k] = next(R[k - 1], k)
    BY <1>9, <1>1
  <1>11. \A k \in 0..n : R[k] \in A
    <2> DEFINE Good == {k \in 0..n : R[k] \in A}
    <2>1. 0 \in Good
      BY <1>1, <1>10
    <2>2. \A k \in 0..n - 1 : k \in Good => k + 1 \in Good
      BY <1>1, <1>10, <1>2
    <2>3. 0..n \subseteq Good
      <3> HIDE DEF Good
      <3> QED
        BY <1>1, <2>1, <2>2, IntervalInduction
    <2> QED
      BY <2>3
  <1>12. R \in [0..n -> A]
    BY <1>9, <1>11
  <1> QED
    BY <1>3, <1>10, <1>12 DEF A, n, next

LEMMA CutTyped == ASSUME NEW a \in Text PROVE Cut(a) \in CutStates
  <1>1. PICK R \in [0..Len(a) -> CutStates] : Cut(a) = R[Len(a)]
    BY CutUnfolds
  <1>2. Len(a) \in 0..Len(a)
    BY DEF Text
  <1> QED
    BY <1>1, <1>2

LEMMA CutOfNone == Cut(<<>>) = CutStart
  <1>1. PICK R \in [0..Len(<<>>) -> CutStates] : Cut(<<>>) = R[Len(<<>>)] /\ R[0] = CutStart
    BY EmptyText, CutUnfolds
  <1> QED
    BY <1>1

LEMMA CutOfAppend ==
  ASSUME NEW a \in Text, NEW c \in Token
  PROVE  Cut(Append(a, c)) = CutToken(Cut(a), c)
  <1> DEFINE long == Append(a, c)
             n == Len(a)
  <1>1. /\ n \in Nat /\ n = Len(a) /\ long \in Text /\ Len(long) = n + 1
        /\ long[n + 1] = c /\ \A k \in 1..n : long[k] = a[k]
    BY DEF Text
  <1> HIDE DEF long, n
  <1>0. \E F \in [0..n + 1 -> CutStates] :
          Cut(long) = F[n + 1] /\ F[0] = CutStart /\ \A k \in 1..n + 1 : F[k] = CutToken(F[k - 1], long[k])
    <2>1. \E F \in [0..Len(long) -> CutStates] :
            /\ Cut(long) = F[Len(long)]
            /\ F[0] = CutStart
            /\ \A k \in 1..Len(long) : F[k] = CutToken(F[k - 1], long[k])
      <3>1. long \in Text
        BY <1>1
      <3> QED
        BY <3>1, CutUnfolds
    <2> QED
      BY <1>1, <2>1
  <1>2. PICK R \in [0..n -> CutStates] :
          Cut(a) = R[n] /\ R[0] = CutStart /\ \A k \in 1..n : R[k] = CutToken(R[k - 1], a[k])
    BY <1>1, CutUnfolds
  <1>3. PICK Q \in [0..n + 1 -> CutStates] :
          Cut(long) = Q[n + 1] /\ Q[0] = CutStart /\ \A k \in 1..n + 1 : Q[k] = CutToken(Q[k - 1], long[k])
    BY <1>0
  <1>4. SameValues(R, Q, 0, n)
    <2>1. \A k \in 0..n - 1 : R[k] = Q[k] => R[k + 1] = Q[k + 1]
      <3>1. ASSUME NEW k \in 0..n - 1, R[k] = Q[k] PROVE R[k + 1] = Q[k + 1]
        <4>1. k + 1 \in 1..n /\ k + 1 \in 1..n + 1 /\ (k + 1) - 1 = k
          BY <1>1
        <4> QED
          BY <1>1, <1>2, <1>3, <3>1, <4>1
      <3> QED
        BY <3>1
    <2>2. SameSteps(R, Q, 0, n) /\ 0 \in Int /\ n \in Int
      BY <1>1, <1>2, <1>3, <2>1 DEF SameSteps
    <2> QED
      BY <2>2, SameStepsSameValues
  <1>5. R[n] = Q[n]
    BY <1>1, <1>4 DEF SameValues
  <1>6. n + 1 \in 1..n + 1 /\ (n + 1) - 1 = n
    BY <1>1
  <1>7. Q[n + 1] = CutToken(Q[n], long[n + 1])
    BY <1>3, <1>6
  <1> QED
    BY <1>1, <1>2, <1>3, <1>5, <1>7 DEF long

LEMMA SplitTokenParts ==
  ASSUME NEW a \in Text, NEW k \in 1..Len(a), NEW s \in SplitStates
  PROVE  LET t == SplitToken(a, k, s)
             c == a[k]
             escaped == ~s.skip /\ IsEscaped(a, k, s.inQuotes)
             ends == ~s.skip /\ c = Semicolon /\ ~s.inQuotes
         IN  /\ t.fields = IF ends THEN Append(s.fields, s.text) ELSE s.fields
             /\ t.text = IF ends THEN <<>>
                         ELSE IF escaped \/ (~s.skip /\ c # Quote) THEN Append(s.text, c) ELSE s.text
             /\ t.inQuotes <=> (IF ~s.skip /\ ~escaped /\ c = Quote THEN ~s.inQuotes ELSE s.inQuotes)
             /\ t.skip <=> escaped
  <1> DEFINE c == a[k]
             more == Append(s.text, c)
             fields == Append(s.fields, s.text)
             none == <<>>
             turned == ~s.inQuotes
             escaped == ~s.skip /\ IsEscaped(a, k, s.inQuotes)
             t == SplitToken(a, k, s)
  <1>1. IsEscaped(a, k, s.inQuotes) => c = Quote /\ s.inQuotes
    BY DEF IsEscaped
  <1>2. Semicolon # Quote
    BY MarksAreTokens
  <1>3. t = IF s.skip THEN [s EXCEPT !.skip = FALSE]
            ELSE IF escaped THEN [s EXCEPT !.text = Append(@, Quote), !.skip = TRUE]
            ELSE IF c = Quote THEN [s EXCEPT !.inQuotes = ~@]
            ELSE IF c = Semicolon /\ ~s.inQuotes THEN [s EXCEPT !.fields = fields, !.text = none]
            ELSE [s EXCEPT !.text = more]
    BY DEF SplitToken
  <1> HIDE DEF more, fields, none, t, escaped
  <1>4. CASE s.skip
    <2>1. t = [s EXCEPT !.skip = FALSE]
      BY <1>3, <1>4
    <2>2. t.fields = s.fields /\ t.text = s.text /\ t.inQuotes = s.inQuotes /\ ~t.skip
      BY <2>1 DEF SplitStates
    <2> QED
      BY <1>4, <2>2 DEF t
  <1>5. CASE ~s.skip /\ escaped
    <2>1. t = [s EXCEPT !.text = more, !.skip = TRUE]
      BY <1>1, <1>3, <1>5 DEF more, escaped
    <2>2. t.fields = s.fields /\ t.text = more /\ t.inQuotes = s.inQuotes /\ t.skip
      BY <2>1 DEF SplitStates
    <2>3. c = Quote /\ s.inQuotes /\ IsEscaped(a, k, s.inQuotes)
      BY <1>1, <1>5 DEF escaped
    <2> QED
      BY <1>2, <1>5, <2>2, <2>3 DEF t, more
  <1>6. CASE ~s.skip /\ ~escaped /\ c = Quote
    <2>1. t = [s EXCEPT !.inQuotes = turned]
      BY <1>3, <1>6
    <2> HIDE DEF turned
    <2>2. t.fields = s.fields /\ t.text = s.text /\ t.inQuotes = turned /\ t.skip = s.skip
      BY <2>1 DEF SplitStates
    <2>3. ~IsEscaped(a, k, s.inQuotes)
      BY <1>6 DEF escaped
    <2> QED
      BY <1>2, <1>6, <2>2, <2>3 DEF t, turned
  <1>7. CASE ~s.skip /\ c = Semicolon /\ ~s.inQuotes
    <2>1. ~IsEscaped(a, k, s.inQuotes) /\ ~escaped /\ c # Quote
      BY <1>1, <1>2, <1>7 DEF escaped
    <2>2. t = [s EXCEPT !.fields = fields, !.text = none]
      BY <1>3, <1>7, <2>1
    <2>3. t.fields = fields /\ t.text = none /\ t.inQuotes = s.inQuotes /\ t.skip = s.skip
      BY <2>2 DEF SplitStates
    <2> QED
      BY <1>7, <2>1, <2>3 DEF t, fields, none
  <1>8. CASE ~s.skip /\ c # Quote /\ ~(c = Semicolon /\ ~s.inQuotes)
    <2>1. ~IsEscaped(a, k, s.inQuotes) /\ ~escaped
      BY <1>1, <1>8 DEF escaped
    <2>2. t = [s EXCEPT !.text = more]
      BY <1>3, <1>8, <2>1
    <2>3. t.fields = s.fields /\ t.text = more /\ t.inQuotes = s.inQuotes /\ t.skip = s.skip
      BY <2>2 DEF SplitStates
    <2> QED
      BY <1>8, <2>1, <2>3 DEF t, more
  <1> QED
    BY <1>4, <1>5, <1>6, <1>7, <1>8

(* The two states behind the same tokens: where the split has taken the    *)
(* first of two marks, the cut has ended the quotes.                       *)
Agrees(a, k, r, q) ==
  /\ r.fields = q.fields
  /\ IF r.skip
     THEN /\ k < Len(a) /\ a[k + 1] = Quote /\ r.inQuotes
          /\ ~q.inQuotes /\ q.closed /\ r.text = Append(q.text, Quote)
     ELSE /\ r.text = q.text /\ (r.inQuotes <=> q.inQuotes)
          /\ q.closed => ~q.inQuotes /\ (k = Len(a) \/ a[k + 1] # Quote)

LEMMA AgreementKept ==
  ASSUME NEW a \in Text, NEW k \in 0..Len(a) - 1, NEW r \in SplitStates, NEW q \in CutStates,
         Agrees(a, k, r, q)
  PROVE  Agrees(a, k + 1, SplitToken(a, k + 1, r), CutToken(q, a[k + 1]))
  <1> DEFINE c == a[k + 1]
             t == SplitToken(a, k + 1, r)
             u == CutToken(q, c)
             escaped == ~r.skip /\ IsEscaped(a, k + 1, r.inQuotes)
             ends == ~r.skip /\ c = Semicolon /\ ~r.inQuotes
             again == c = Quote /\ ~q.inQuotes /\ q.closed
             cuts == c = Semicolon /\ ~q.inQuotes
  <1>1. k + 1 \in 1..Len(a) /\ c \in Token /\ Len(a) \in Nat /\ k \in Int
    BY DEF Text
  <1>2. /\ t.fields = IF ends THEN Append(r.fields, r.text) ELSE r.fields
        /\ t.text = IF ends THEN <<>>
                    ELSE IF escaped \/ (~r.skip /\ c # Quote) THEN Append(r.text, c) ELSE r.text
        /\ t.inQuotes <=> (IF ~r.skip /\ ~escaped /\ c = Quote THEN ~r.inQuotes ELSE r.inQuotes)
        /\ t.skip <=> escaped
    BY <1>1, SplitTokenParts
  <1>3. /\ u.fields = IF cuts THEN Append(q.fields, q.text) ELSE q.fields
        /\ u.text = IF cuts THEN <<>> ELSE IF c # Quote \/ again THEN Append(q.text, c) ELSE q.text
        /\ u.inQuotes <=> (IF c = Quote THEN ~q.inQuotes ELSE q.inQuotes)
        /\ u.closed <=> c = Quote /\ (q.inQuotes \/ (q.closed /\ ~again))
    BY <1>1, CutTokenParts
  <1>4. Semicolon # Quote
    BY MarksAreTokens
  <1>5. IsEscaped(a, k + 1, r.inQuotes) <=>
          r.inQuotes /\ c = Quote /\ k + 1 < Len(a) /\ a[(k + 1) + 1] = Quote
    BY DEF IsEscaped
  <1>6. k + 1 = Len(a) \/ k + 1 < Len(a)
    BY <1>1
  <1> DEFINE last == k + 1 = Len(a)
             next == a[(k + 1) + 1]
  <1>7. Agrees(a, k + 1, t, u) <=>
          /\ t.fields = u.fields
          /\ IF t.skip
             THEN /\ k + 1 < Len(a) /\ next = Quote /\ t.inQuotes
                  /\ ~u.inQuotes /\ u.closed /\ t.text = Append(u.text, Quote)
             ELSE /\ t.text = u.text /\ (t.inQuotes <=> u.inQuotes)
                  /\ u.closed => ~u.inQuotes /\ (last \/ next # Quote)
    BY DEF Agrees
  <1> HIDE DEF c, t, u, last, next
  <1>8. CASE r.skip
    <2>1. /\ c = Quote /\ r.inQuotes /\ ~q.inQuotes /\ q.closed /\ r.text = Append(q.text, Quote)
          /\ r.fields = q.fields
      BY <1>8 DEF Agrees, c
    <2>2. t.fields = r.fields /\ t.text = r.text /\ t.inQuotes /\ ~t.skip
      BY <1>2, <1>8, <2>1
    <2>3. u.fields = q.fields /\ u.text = Append(q.text, Quote) /\ u.inQuotes /\ ~u.closed
      BY <1>3, <1>4, <2>1
    <2> QED
      BY <1>7, <2>1, <2>2, <2>3 DEF t, u, c
  <1>9. CASE ~r.skip
    <2>1. /\ r.fields = q.fields /\ r.text = q.text /\ (r.inQuotes <=> q.inQuotes)
          /\ q.closed => ~q.inQuotes /\ c # Quote
      <3>1. k # Len(a)
        BY <1>1
      <3> QED
        BY <1>9, <3>1 DEF Agrees, c
    <2>2. CASE escaped
      <3>1. c = Quote /\ r.inQuotes /\ k + 1 < Len(a) /\ next = Quote
        BY <1>5, <2>2 DEF next
      <3>2. t.fields = r.fields /\ t.text = Append(r.text, Quote) /\ t.inQuotes /\ t.skip
        BY <1>2, <1>4, <2>2, <3>1
      <3>3. u.fields = q.fields /\ u.text = q.text /\ ~u.inQuotes /\ u.closed
        BY <1>3, <1>4, <2>1, <3>1
      <3> QED
        BY <1>7, <2>1, <3>1, <3>2, <3>3 DEF t, u, c
    <2>3. CASE ~escaped /\ c = Quote
      <3>1. t.fields = r.fields /\ t.text = r.text /\ (t.inQuotes <=> ~r.inQuotes) /\ ~t.skip
        BY <1>2, <1>4, <1>9, <2>3
      <3>2. ~q.closed
        BY <2>1, <2>3
      <3>3. u.fields = q.fields /\ u.text = q.text /\ (u.inQuotes <=> ~q.inQuotes) /\ (u.closed <=> q.inQuotes)
        BY <1>3, <1>4, <2>3, <3>2
      <3>4. q.inQuotes => last \/ next # Quote
        BY <1>5, <1>6, <1>9, <2>1, <2>3 DEF last, next
      <3> QED
        BY <1>7, <2>1, <3>1, <3>3, <3>4 DEF t, u, c
    <2>4. CASE c # Quote
      <3>1. ~escaped
        BY <1>5, <2>4
      <3>2. /\ t.fields = IF ends THEN Append(r.fields, r.text) ELSE r.fields
            /\ t.text = IF ends THEN <<>> ELSE Append(r.text, c)
            /\ (t.inQuotes <=> r.inQuotes) /\ ~t.skip
        BY <1>2, <1>9, <2>4, <3>1
      <3>3. /\ u.fields = IF cuts THEN Append(q.fields, q.text) ELSE q.fields
            /\ u.text = IF cuts THEN <<>> ELSE Append(q.text, c)
            /\ (u.inQuotes <=> q.inQuotes) /\ ~u.closed
        BY <1>3, <2>4
      <3>4. ends <=> cuts
        BY <1>9, <2>1
      <3> HIDE DEF ends, cuts
      <3> QED
        BY <1>7, <2>1, <3>2, <3>3, <3>4 DEF t, u, c
    <2> QED
      BY <2>2, <2>3, <2>4
  <1> QED
    BY <1>8, <1>9

LEMMA SplitIsCut ==
  ASSUME NEW a \in Text
  PROVE  SplitRecordFields(a) = Append(Cut(a).fields, Cut(a).text)
  <1> DEFINE n == Len(a)
  <1>1. n \in Nat /\ 0 \in Int /\ n \in Int /\ n \in 0..n
    BY DEF Text
  <1>2. PICK R \in [0..n -> SplitStates] :
          /\ SplitRecordFields(a) = Append(R[n].fields, R[n].text)
          /\ R[0] = SplitStart
          /\ \A k \in 1..n : R[k] = SplitToken(a, k, R[k - 1])
    BY SplitUnfolds
  <1>3. PICK Q \in [0..n -> CutStates] :
          Cut(a) = Q[n] /\ Q[0] = CutStart /\ \A k \in 1..n : Q[k] = CutToken(Q[k - 1], a[k])
    BY CutUnfolds
  <1> DEFINE Good == {k \in 0..n : Agrees(a, k, R[k], Q[k])}
  <1>4. 0 \in Good
    <2>1. 0 \in 0..n
      BY <1>1
    <2> QED
      BY <1>2, <1>3, <2>1 DEF Agrees, SplitStart, CutStart
  <1>5. ASSUME NEW k \in 0..n - 1, k \in Good PROVE k + 1 \in Good
    <2>1. k + 1 \in 1..n /\ k + 1 \in 0..n /\ (k + 1) - 1 = k /\ k \in 0..n
      BY <1>1
    <2>2. R[k + 1] = SplitToken(a, k + 1, R[k]) /\ Q[k + 1] = CutToken(Q[k], a[k + 1])
      BY <1>2, <1>3, <2>1
    <2>3. R[k] \in SplitStates /\ Q[k] \in CutStates /\ Agrees(a, k, R[k], Q[k])
      BY <1>2, <1>3, <1>5, <2>1
    <2> QED
      BY <2>1, <2>2, <2>3, AgreementKept
  <1>6. 0..n \subseteq Good
    <2> HIDE DEF Good, n
    <2> QED
      BY <1>1, <1>4, <1>5, IntervalInduction
  <1>7. Agrees(a, n, R[n], Q[n])
    BY <1>1, <1>6
  <1>8. R[n].fields = Q[n].fields /\ R[n].text = Q[n].text
    BY <1>1, <1>7 DEF Agrees
  <1> QED
    BY <1>2, <1>3, <1>8

-----------------------------------------------------------------------------
(* What the split makes of a row: its fields again.                        *)

Stands(a, fields, text, quoted) ==
  /\ a \in Text /\ fields \in Seq(Text) /\ text \in Text
  /\ Cut(a).fields = fields /\ Cut(a).text = text
  /\ (Cut(a).inQuotes <=> quoted) /\ ~Cut(a).closed

LEMMA CutOn ==
  ASSUME NEW a \in Text, NEW c \in Token
  PROVE  LET s == Cut(a)
             t == Cut(Append(a, c))
             again == c = Quote /\ ~s.inQuotes /\ s.closed
             ends == c = Semicolon /\ ~s.inQuotes
         IN  /\ Append(a, c) \in Text
             /\ t.fields = IF ends THEN Append(s.fields, s.text) ELSE s.fields
             /\ t.text = IF ends THEN <<>> ELSE IF c # Quote \/ again THEN Append(s.text, c) ELSE s.text
             /\ t.inQuotes <=> (IF c = Quote THEN ~s.inQuotes ELSE s.inQuotes)
             /\ t.closed <=> c = Quote /\ (s.inQuotes \/ (s.closed /\ ~again))
  <1>1. Append(a, c) \in Text
    BY DEF Text
  <1>2. Cut(Append(a, c)) = CutToken(Cut(a), c) /\ Cut(a) \in CutStates
    BY CutOfAppend, CutTyped
  <1> QED
    BY <1>1, <1>2, CutTokenParts

LEMMA CutPlain ==
  ASSUME NEW a, NEW fields, NEW text, NEW q, Stands(a, fields, text, q),
         NEW c \in Token, c # Quote, c = Semicolon => q
  PROVE  Stands(Append(a, c), fields, Append(text, c), q)
  <1> DEFINE b == Append(a, c)
  <1>1. Append(text, c) \in Text
    BY DEF Stands, Text
  <1>2. a \in Text /\ ~(c = Semicolon /\ ~Cut(a).inQuotes)
    BY DEF Stands
  <1>3. /\ b \in Text /\ Cut(b).fields = Cut(a).fields /\ Cut(b).text = Append(Cut(a).text, c)
        /\ (Cut(b).inQuotes <=> Cut(a).inQuotes) /\ ~Cut(b).closed
    BY <1>2, CutOn, ZenonT(20)
  <1> HIDE DEF b
  <1>4. Stands(b, fields, Append(text, c), q)
    BY <1>1, <1>3 DEF Stands
  <1> QED
    BY <1>4 DEF b

LEMMA CutOpened ==
  ASSUME NEW a, NEW fields, NEW text, Stands(a, fields, text, FALSE)
  PROVE  Stands(Append(a, Quote), fields, text, TRUE)
  <1>1. a \in Text /\ Quote \in Token /\ Quote # Semicolon /\ ~Cut(a).inQuotes /\ ~Cut(a).closed
    BY MarksAreTokens DEF Stands
  <1> QED
    BY <1>1, CutOn DEF Stands

(* The end of a field, whose quotes may just have been closed.             *)
LEMMA CutField ==
  ASSUME NEW a \in Text, ~Cut(a).inQuotes
  PROVE  Stands(Append(a, Semicolon), Append(Cut(a).fields, Cut(a).text), <<>>, FALSE)
  <1>1. Semicolon \in Token /\ Semicolon # Quote
    BY MarksAreTokens
  <1>2. Append(Cut(a).fields, Cut(a).text) \in Seq(Text)
    <2> DEFINE f == Cut(a).fields
               t == Cut(a).text
    <2>1. f \in Seq(Text) /\ t \in Text
      BY CutTyped DEF CutStates
    <2> HIDE DEF f, t
    <2>2. Append(f, t) \in Seq(Text)
      BY <2>1
    <2> QED
      BY <2>2 DEF f, t
  <1> QED
    BY <1>1, <1>2, CutOn, EmptyText DEF Stands

LEMMA CutTwice ==
  ASSUME NEW a, NEW fields, NEW text, Stands(a, fields, text, TRUE), NEW c \in Token
  PROVE  Stands(a \o Twice(c), fields, Append(text, c), TRUE)
  <1>1. a \in Text
    BY DEF Stands
  <1>2. CASE c # Quote
    <2>1. Twice(c) = <<c>> /\ a \o <<c>> = Append(a, c)
      BY <1>1, <1>2 DEF Twice, Text
    <2> QED
      BY <1>2, <2>1, CutPlain
  <1>3. CASE c = Quote
    <2> DEFINE b == Append(a, Quote)
               d == Append(b, Quote)
    <2>1. a \o Twice(c) = d
      <3>1. <<Quote, Quote>> = Append(<<Quote>>, Quote) /\ <<Quote>> \in Seq(Token)
        BY MarksAreTokens
      <3>2. a \o Append(<<Quote>>, Quote) = Append(a \o <<Quote>>, Quote) /\ a \o <<Quote>> = Append(a, Quote)
        BY <1>1, <3>1, MarksAreTokens, JoinedToAppend DEF Text
      <3> QED
        BY <1>3, <3>1, <3>2 DEF Twice
    <2>2. Quote \in Token /\ Quote # Semicolon
      BY MarksAreTokens
    <2>3. b \in Text /\ Cut(b).fields = fields /\ Cut(b).text = text /\ ~Cut(b).inQuotes /\ Cut(b).closed
      BY <1>1, <2>2, CutOn DEF Stands
    <2> HIDE DEF b
    <2>4. d \in Text /\ Cut(d).fields = fields /\ Cut(d).text = Append(text, Quote) /\ Cut(d).inQuotes /\ ~Cut(d).closed
      BY <2>2, <2>3, CutOn, ZenonT(20)
    <2>5. Append(text, Quote) \in Text
      BY <2>2 DEF Stands, Text
    <2> QED
      BY <1>3, <2>1, <2>4, <2>5 DEF Stands
  <1> QED
    BY <1>2, <1>3

LEMMA CutDoubled ==
  ASSUME NEW a, NEW fields, Stands(a, fields, <<>>, TRUE), NEW w \in Text
  PROVE  Stands(a \o Doubled(w), fields, w, TRUE)
  <1> DEFINE S == {x \in Text : Stands(a \o Doubled(x), fields, x, TRUE)}
  <1>1. a \in Text
    BY DEF Stands
  <1>2. <<>> \in S
    <2>1. a \o <<>> = a
      BY <1>1 DEF Text
    <2> QED
      BY <2>1, EmptyText, DoubledOfNone
  <1>3. ASSUME NEW x \in Seq(Token), x \in S, NEW c \in Token PROVE Append(x, c) \in S
    <2>1. x \in Text /\ Append(x, c) \in Text /\ Doubled(x) \in Text /\ Twice(c) \in Text
      BY <1>3, DoubledTyped, TwiceTyped DEF Text
    <2>2. Doubled(Append(x, c)) = Doubled(x) \o Twice(c)
      BY <2>1, DoubledOfAppend
    <2>3. a \o (Doubled(x) \o Twice(c)) = (a \o Doubled(x)) \o Twice(c)
      <3> DEFINE u == Doubled(x)
                 v == Twice(c)
      <3>1. a \in Seq(Token) /\ u \in Seq(Token) /\ v \in Seq(Token)
        BY <1>1, <2>1 DEF Text
      <3> HIDE DEF u, v
      <3>2. a \o (u \o v) = (a \o u) \o v
        BY <3>1, JoinedTwice
      <3> QED
        BY <3>2 DEF u, v
    <2>4. Stands(a \o Doubled(x), fields, x, TRUE)
      BY <1>3
    <2> DEFINE b == a \o Doubled(x)
    <2> HIDE DEF b
    <2>5. Stands(b \o Twice(c), fields, Append(x, c), TRUE)
      BY <2>4, CutTwice DEF b
    <2> QED
      BY <2>1, <2>2, <2>3, <2>5 DEF b
  <1>4. Seq(Token) \subseteq S
    <2> HIDE DEF S
    <2> QED
      BY <1>2, <1>3, SequenceInduction
  <1> QED
    BY <1>4 DEF Text

LEMMA CutUnquoted ==
  ASSUME NEW a, NEW fields, Stands(a, fields, <<>>, FALSE),
         NEW w \in Text, ~Occurs(Quote, w), ~Occurs(Semicolon, w)
  PROVE  Stands(a \o w, fields, w, FALSE)
  <1> DEFINE Free(x) == ~Occurs(Quote, x) /\ ~Occurs(Semicolon, x)
             S == {x \in Text : Free(x) => Stands(a \o x, fields, x, FALSE)}
  <1>1. a \in Text
    BY DEF Stands
  <1>2. <<>> \in S
    <2>1. a \o <<>> = a
      BY <1>1 DEF Text
    <2> QED
      BY <2>1, EmptyText
  <1>3. ASSUME NEW x \in Seq(Token), x \in S, NEW c \in Token PROVE Append(x, c) \in S
    <2>1. x \in Text /\ Append(x, c) \in Text
      BY <1>3 DEF Text
    <2>2. a \o Append(x, c) = Append(a \o x, c)
      BY <1>1, <2>1, JoinedToAppend DEF Text
    <2>3. ASSUME Free(Append(x, c)) PROVE Stands(a \o Append(x, c), fields, Append(x, c), FALSE)
      <3>1. Free(x) /\ c # Quote /\ c # Semicolon
        BY <2>1, <2>3, OccursInAppend
      <3>2. Stands(a \o x, fields, x, FALSE)
        BY <1>3, <3>1
      <3>3. Stands(Append(a \o x, c), fields, Append(x, c), FALSE)
        BY <3>1, <3>2, CutPlain
      <3> QED
        BY <2>2, <3>3
    <2> QED
      BY <2>1, <2>3
  <1>4. Seq(Token) \subseteq S
    <2> HIDE DEF S
    <2> QED
      BY <1>2, <1>3, SequenceInduction
  <1> QED
    BY <1>4 DEF Text

(* Escaped and behind it a separator: the field.                           *)
LEMMA CutEscaped ==
  ASSUME NEW a, NEW fields, Stands(a, fields, <<>>, FALSE), NEW f \in Text
  PROVE  Stands(Append(a \o EscapeField(f), Semicolon), Append(fields, f), <<>>, FALSE)
  <1> DEFINE b == a \o EscapeField(f)
  <1>1. a \in Text /\ b \in Text
    BY EscapeTyped, TextJoined DEF Stands
  <1>2. Cut(b).fields = fields /\ Cut(b).text = f /\ ~Cut(b).inQuotes
    <2>1. CASE ~(Occurs(Semicolon, f) \/ Occurs(Quote, f) \/ Occurs(Lf, f))
      <3>1. EscapeField(f) = f
        BY <2>1 DEF EscapeField
      <3>2. Stands(a \o f, fields, f, FALSE)
        BY <2>1, CutUnquoted
      <3> QED
        BY <3>1, <3>2 DEF Stands
    <2>2. CASE Occurs(Semicolon, f) \/ Occurs(Quote, f) \/ Occurs(Lf, f)
      <3> DEFINE d == Append(a, Quote)
                 e == d \o Doubled(f)
      <3>1. b = Append(e, Quote)
        BY <1>1, <2>2, QuotedField
      <3>2. Stands(d, fields, <<>>, TRUE)
        BY CutOpened
      <3> HIDE DEF d
      <3>3. Stands(e, fields, f, TRUE)
        BY <3>2, CutDoubled
      <3> HIDE DEF b, e
      <3>4. e \in Text /\ Quote \in Token /\ Quote # Semicolon
        BY <3>3, MarksAreTokens DEF Stands
      <3>5. Cut(Append(e, Quote)).fields = fields /\ Cut(Append(e, Quote)).text = f /\ ~Cut(Append(e, Quote)).inQuotes
        BY <3>3, <3>4, CutOn DEF Stands
      <3> QED
        BY <3>1, <3>5
    <2> QED
      BY <2>1, <2>2
  <1> HIDE DEF b
  <1>3. Stands(Append(b, Semicolon), Append(Cut(b).fields, Cut(b).text), <<>>, FALSE)
    BY <1>1, <1>2, CutField
  <1> QED
    BY <1>2, <1>3 DEF b

(* A field is appended.                                                    *)
LEMMA FieldOn ==
  ASSUME NEW S, NEW s \in Seq(S), NEW f \in S
  PROVE  /\ Append(s, f) \in Seq(S) /\ Len(Append(s, f)) = Len(s) + 1
         /\ Append(s, f)[Len(s) + 1] = f /\ \A j \in 1..Len(s) : Append(s, f)[j] = s[j]
  OBVIOUS

(* The row that is written is read as the record's fields.                 *)
LEMMA BodySplit ==
  ASSUME NEW r \in RecordForms
  PROVE  LET fields == SplitRecordFields(Body(r))
         IN  Len(fields) = 6 /\ fields[1] = r.input /\ fields[4] = <<r.inputEncoding>>
  <1> DEFINE i == r.input
             o == r.output1
             p == r.output2
             x == EscapeField(i)
             y == EscapeField(o)
             z == EscapeField(p)
             e == r.inputEncoding
             f == r.encoding1
             g == r.encoding2
             s1 == x \o <<Semicolon>>
             s2 == (s1 \o y) \o <<Semicolon>>
             s3 == Append(s2 \o z, Semicolon)
             s4 == Append(s3, e)
             s5 == Append(s4, Semicolon)
             s6 == Append(s5, f)
             s7 == Append(s6, Semicolon)
             s8 == Append(s7, g)
             f1 == Append(<<>>, i)
             f2 == Append(f1, o)
             f3 == Append(f2, p)
             f4 == Append(f3, <<e>>)
             f5 == Append(f4, <<f>>)
             f6 == Append(f5, <<g>>)
  <1>1. /\ i \in Text /\ o \in Text /\ p \in Text /\ x \in Text /\ y \in Text /\ z \in Text
        /\ {e, f, g} \subseteq Token \ {Semicolon, Quote, Lf, Cr, Space}
    BY RowParts
  <1>2. Body(r) = s8
    BY BodyIs DEF ThreeFields
  <1>3. Stands(<<>>, <<>>, <<>>, FALSE)
    BY CutOfNone, EmptyText DEF Stands, CutStart
  <1>a. <<e>> \in Text /\ <<f>> \in Text /\ <<g>> \in Text
    BY <1>1, OneToken
  <1>b. Append(<<>>, e) = <<e>> /\ Append(<<>>, f) = <<f>> /\ Append(<<>>, g) = <<g>>
    OBVIOUS
  <1> HIDE DEF i, o, p, e, f, g
  <1>4. Stands(s1, f1, <<>>, FALSE)
    <2>1. Stands(Append(<<>> \o EscapeField(i), Semicolon), f1, <<>>, FALSE)
      BY <1>1, <1>3, CutEscaped
    <2> HIDE DEF x, f1
    <2>2. Append(<<>> \o x, Semicolon) = s1
      BY <1>1, MarksAreTokens DEF Text
    <2> QED
      BY <2>1, <2>2 DEF x
  <1> HIDE DEF s1
  <1>5. Stands(s2, f2, <<>>, FALSE)
    <2> HIDE DEF f1
    <2>1. Stands(Append(s1 \o EscapeField(o), Semicolon), f2, <<>>, FALSE)
      BY <1>1, <1>4, CutEscaped
    <2> HIDE DEF y, f2
    <2>2. s1 \o y \in Text
      BY <1>1, <1>4, TextJoined DEF Stands
    <2>3. Append(s1 \o y, Semicolon) = s2
      BY <2>2, MarksAreTokens DEF Text
    <2> QED
      BY <2>1, <2>3 DEF y
  <1> HIDE DEF s2
  <1>6. Stands(s3, f3, <<>>, FALSE)
    <2> HIDE DEF f2
    <2> QED
      BY <1>1, <1>5, CutEscaped
  <1> HIDE DEF s3
  <1>7. Stands(s4, f3, <<e>>, FALSE)
    <2> HIDE DEF f3
    <2>1. Stands(s4, f3, Append(<<>>, e), FALSE)
      BY <1>1, <1>6, CutPlain
    <2> QED
      BY <2>1, <1>b
  <1> HIDE DEF s4
  <1>8. Stands(s5, f4, <<>>, FALSE)
    <2> HIDE DEF f3
    <2> QED
      BY <1>7, CutField DEF Stands
  <1> HIDE DEF s5
  <1>9. Stands(s6, f4, <<f>>, FALSE)
    <2> HIDE DEF f4
    <2>1. Stands(s6, f4, Append(<<>>, f), FALSE)
      BY <1>1, <1>8, CutPlain
    <2> QED
      BY <2>1, <1>b
  <1> HIDE DEF s6
  <1>10. Stands(s7, f5, <<>>, FALSE)
    <2> HIDE DEF f4
    <2> QED
      BY <1>9, CutField DEF Stands
  <1> HIDE DEF s7
  <1>11. Stands(s8, f5, <<g>>, FALSE)
    <2> HIDE DEF f5
    <2>1. Stands(s8, f5, Append(<<>>, g), FALSE)
      BY <1>1, <1>10, CutPlain
    <2> QED
      BY <2>1, <1>b
  <1> HIDE DEF s8
  <1>12. SplitRecordFields(s8) = f6
    <2> HIDE DEF f5
    <2> QED
      BY <1>11, SplitIsCut DEF Stands
  <1> DEFINE h == <<e>>
             l1 == Len(f1)
             l2 == Len(f2)
             l3 == Len(f3)
             l4 == Len(f4)
             l5 == Len(f5)
  <1>13. f1 \in Seq(Text) /\ l1 = 1 /\ f1[1] = i
    BY <1>1
  <1> HIDE DEF f1
  <1>14. f2 \in Seq(Text) /\ l2 = l1 + 1 /\ \A j \in 1..l1 : f2[j] = f1[j]
    <2>1. f1 \in Seq(Text)
      BY <1>13
    <2> QED
      BY <1>1, <2>1, FieldOn
  <1> HIDE DEF f2
  <1>15. f3 \in Seq(Text) /\ l3 = l2 + 1 /\ \A j \in 1..l2 : f3[j] = f2[j]
    BY <1>1, <1>14, FieldOn
  <1> HIDE DEF f3
  <1>16. f4 \in Seq(Text) /\ l4 = l3 + 1 /\ f4[l3 + 1] = h /\ \A j \in 1..l3 : f4[j] = f3[j]
    <2>1. h \in Text
      BY <1>a
    <2> HIDE DEF h
    <2>2. /\ Append(f3, h) \in Seq(Text) /\ Len(Append(f3, h)) = l3 + 1
          /\ Append(f3, h)[l3 + 1] = h /\ \A j \in 1..l3 : Append(f3, h)[j] = f3[j]
      BY <1>15, <2>1, FieldOn
    <2> QED
      BY <2>2 DEF h
  <1> HIDE DEF f4
  <1>17. f5 \in Seq(Text) /\ l5 = l4 + 1 /\ \A j \in 1..l4 : f5[j] = f4[j]
    <2> DEFINE v == <<f>>
    <2>1. v \in Text
      BY <1>a
    <2> HIDE DEF v
    <2>2. /\ Append(f4, v) \in Seq(Text) /\ Len(Append(f4, v)) = l4 + 1
          /\ \A j \in 1..l4 : Append(f4, v)[j] = f4[j]
      BY <1>16, <2>1, FieldOn
    <2> QED
      BY <2>2 DEF v
  <1> HIDE DEF f5
  <1>18. Len(f6) = l5 + 1 /\ \A j \in 1..l5 : f6[j] = f5[j]
    <2> DEFINE v == <<g>>
    <2>1. v \in Text
      BY <1>a
    <2> HIDE DEF v
    <2>2. Len(Append(f5, v)) = l5 + 1 /\ \A j \in 1..l5 : Append(f5, v)[j] = f5[j]
      BY <1>17, <2>1, FieldOn
    <2> QED
      BY <2>2 DEF v
  <1> HIDE DEF f6, h, l1, l2, l3, l4, l5
  <1>19. l1 = 1 /\ l2 = 2 /\ l3 = 3 /\ l4 = 4 /\ l5 = 5
    <2>1. l2 = 2
      BY <1>13, <1>14
    <2>2. l3 = 3
      BY <1>15, <2>1
    <2>3. l4 = 4
      BY <1>16, <2>2
    <2> QED
      BY <1>13, <1>17, <2>1, <2>2, <2>3
  <1>20. 1 \in 1..l1 /\ 1 \in 1..l2 /\ 1 \in 1..l3 /\ 1 \in 1..l4 /\ 1 \in 1..l5
         /\ 4 \in 1..l4 /\ 4 \in 1..l5 /\ l3 + 1 = 4 /\ l5 + 1 = 6
    BY <1>19
  <1>21. f6[1] = i
    BY <1>13, <1>14, <1>15, <1>16, <1>17, <1>18, <1>20
  <1>22. f6[4] = h
    BY <1>16, <1>17, <1>18, <1>20
  <1>23. Len(f6) = 6
    BY <1>18, <1>20
  <1> QED
    BY <1>2, <1>12, <1>21, <1>22, <1>23 DEF i, e, h

LEMMA TrimOfToken ==
  ASSUME NEW e \in Token, e \notin {Space, Lf, Cr}
  PROVE  TextTrim(<<e>>) = <<e>>
  <1> DEFINE text == <<e>>
             inside == {k \in DOMAIN text : text[k] \notin {Space, Lf, Cr}}
  <1>1. inside = {1} /\ text \in Seq(Token) /\ Len(text) = 1
    OBVIOUS
  <1>2. Min(inside) = 1 /\ Max(inside) = 1
    <2>1. inside # {} /\ inside \subseteq Nat /\ (\A k \in inside : k = 1) /\ \A k \in inside : k <= 1
      BY <1>1
    <2> HIDE DEF inside
    <2>2. Min(inside) \in inside
      BY <2>1, MinIs
    <2>3. Max(inside) \in inside
      BY <2>1, MaxIs
    <2> QED
      BY <2>1, <2>2, <2>3
  <1>3. SubSeq(text, 1, 1) = text
    BY <1>1, SubSeqFull
  <1>4. TextTrim(text) = IF inside = {} THEN <<>> ELSE SubSeq(text, Min(inside), Max(inside))
    BY DEF TextTrim
  <1> HIDE DEF inside, text
  <1>5. inside # {}
    BY <1>1
  <1>6. TextTrim(text) = SubSeq(text, 1, 1)
    BY <1>2, <1>4, <1>5
  <1> QED
    BY <1>3, <1>6 DEF text

(* The row of a record parses if its encoding is named, and then to the    *)
(* input and the encoding of the record.                                   *)
LEMMA BodyParsed ==
  ASSUME NEW r \in RecordForms
  PROVE  /\ ~IsBlank(Body(r))
         /\ IsRow(Body(r)) <=> IsNamed(r)
         /\ ParsedRow(Body(r)) = [input |-> r.input, inputEncoding |-> r.inputEncoding]
  <1> DEFINE e == r.inputEncoding
             fields == SplitRecordFields(Body(r))
  <1>2. TextTrim(<<e>>) = <<e>>
    BY RowParts, TrimOfToken
  <1>3. Len(fields) = 6 /\ fields[1] = r.input /\ fields[4] = <<e>>
    BY BodySplit
  <1> HIDE DEF fields, e
  <1>4. IsRow(Body(r)) <=> \E n \in ValidInputEncodings : <<e>> = <<n>>
    BY <1>2, <1>3 DEF IsRow, fields
  <1>5. (\E n \in ValidInputEncodings : <<e>> = <<n>>) <=> e \in ValidInputEncodings
    <2>1. \A n : <<e>> = <<n>> <=> e = n
      OBVIOUS
    <2> QED
      BY <2>1
  <1>6. ParsedRow(Body(r)) = [input |-> fields[1], inputEncoding |-> <<e>>[1]]
    BY <1>2, <1>3 DEF ParsedRow, fields
  <1>7. ~IsBlank(Body(r))
    <2> DEFINE w == Append(Append(Append(Append(Append(ThreeFields(r),
                      Semicolon), r.inputEncoding), Semicolon), r.encoding1), Semicolon)
               g == r.encoding2
    <2>1. Body(r) = Append(w, g) /\ ThreeFields(r) \in Text
      BY BodyIs
    <2>2. w \in Text
      BY <2>1, RowParts, MarksAreTokens DEF Text
    <2>3. g \in Token /\ g \notin {Space, Lf, Cr}
      BY RowParts
    <2> HIDE DEF w, g
    <2>4. Len(w) + 1 \in DOMAIN Append(w, g) /\ Append(w, g)[Len(w) + 1] = g
      BY <2>2, <2>3 DEF Text
    <2> QED
      BY <2>1, <2>3, <2>4 DEF IsBlank
  <1> QED
    BY <1>3, <1>4, <1>5, <1>6, <1>7 DEF IsNamed, e

(* A record of which only the second output goes, or takes the place of    *)
(* the first.                                                              *)
LEMMA OneOutput ==
  ASSUME NEW r \in RecordForms, NEW x \in Text
  PROVE  /\ [r EXCEPT !.output2 = <<>>, !.encoding2 = ""]
               = [input |-> r.input, output1 |-> r.output1, output2 |-> <<>>,
                  inputEncoding |-> r.inputEncoding, encoding1 |-> r.encoding1, encoding2 |-> ""]
         /\ [r EXCEPT !.output1 = x, !.output2 = <<>>, !.encoding2 = ""]
               = [input |-> r.input, output1 |-> x, output2 |-> <<>>,
                  inputEncoding |-> r.inputEncoding, encoding1 |-> r.encoding1, encoding2 |-> ""]
  <1> DEFINE p == [r EXCEPT !.output2 = <<>>, !.encoding2 = ""]
             q == [r EXCEPT !.output1 = x, !.output2 = <<>>, !.encoding2 = ""]
  <1>1. "" \in Outputs /\ <<>> \in Text
    BY EmptyText DEF Outputs
  <1>2. p \in RecordForms /\ q \in RecordForms
    BY <1>1 DEF RecordForms
  <1>3. /\ p.input = r.input /\ p.output1 = r.output1 /\ p.output2 = <<>>
        /\ p.inputEncoding = r.inputEncoding /\ p.encoding1 = r.encoding1 /\ p.encoding2 = ""
    BY DEF RecordForms
  <1>4. /\ q.input = r.input /\ q.output1 = x /\ q.output2 = <<>>
        /\ q.inputEncoding = r.inputEncoding /\ q.encoding1 = r.encoding1 /\ q.encoding2 = ""
    BY DEF RecordForms
  <1> HIDE DEF p, q
  <1>5. p = [input |-> p.input, output1 |-> p.output1, output2 |-> p.output2,
             inputEncoding |-> p.inputEncoding, encoding1 |-> p.encoding1, encoding2 |-> p.encoding2]
    BY <1>2 DEF RecordForms
  <1>6. q = [input |-> q.input, output1 |-> q.output1, output2 |-> q.output2,
             inputEncoding |-> q.inputEncoding, encoding1 |-> q.encoding1, encoding2 |-> q.encoding2]
    BY <1>2 DEF RecordForms
  <1>7. p = [input |-> r.input, output1 |-> r.output1, output2 |-> <<>>,
             inputEncoding |-> r.inputEncoding, encoding1 |-> r.encoding1, encoding2 |-> ""]
    BY <1>3, <1>5
  <1>8. q = [input |-> r.input, output1 |-> x, output2 |-> <<>>,
             inputEncoding |-> r.inputEncoding, encoding1 |-> r.encoding1, encoding2 |-> ""]
    BY <1>4, <1>6
  <1> QED
    BY <1>7, <1>8 DEF p, q

(* And the conversion done again makes of it what SavedTextsComeBack says. *)
LEMMA RerunRestores ==
  ASSUME NEW r \in Records, IsNamed(r)
  PROVE  Rerun([input |-> r.input, inputEncoding |-> r.inputEncoding]) = Restored(r)
  <1> DEFINE x == r.input
             e == r.inputEncoding
             row == [input |-> x, inputEncoding |-> e]
  <1>1. r \in RecordForms /\ Made(r) /\ x \in Text /\ e \in {"UTF-8", "ternary", "charT_u8", "charTC_u8"}
    BY DEF Records, RecordForms, IsNamed, ValidInputEncodings
  <1>2. row \in Rows /\ row.input = x /\ row.inputEncoding = e
    BY <1>1 DEF Rows, ValidInputEncodings
  <1> HIDE DEF row
  <1>3. Rerun(row) = CASE e = "UTF-8" -> OfText(x)
                       [] e = "ternary" -> OfCode(x, "ternary")
                       [] e = "charT_u8" -> OfU8(x)
                       [] e = "charTC_u8" -> OfUc(x)
    BY <1>2, RerunIs
  <1>4. OfText(x).inputEncoding = "UTF-8" /\ OfU8(x).inputEncoding = "charT_u8" /\ OfUc(x).inputEncoding = "charTC_u8"
    BY DEF OfText, OfU8, OfUc, Record
  <1>5. \/ e = "UTF-8" /\ r = OfText(x)
        \/ e # "UTF-8" /\ r = OfCode(x, e)
        \/ e = "charT_u8" /\ r = OfU8(x)
        \/ e = "charTC_u8" /\ r = OfUc(x)
    BY <1>1, <1>4 DEF Made
  <1>6. ASSUME e = "UTF-8" PROVE Rerun(row) = Restored(r)
    <2>1. Rerun(row) = OfText(x)
      BY <1>3, <1>6
    <2>2. Restored(r) = r
      BY <1>6 DEF Restored
    <2>3. r = OfText(x)
      BY <1>5, <1>6
    <2> QED
      BY <2>1, <2>2, <2>3
  <1>7. ASSUME e = "ternary" PROVE Rerun(row) = Restored(r)
    <2>1. Rerun(row) = OfCode(x, "ternary")
      BY <1>3, <1>7
    <2>2. Restored(r) = r
      BY <1>7 DEF Restored
    <2>3. r = OfCode(x, "ternary")
      BY <1>5, <1>7
    <2> QED
      BY <2>1, <2>2, <2>3
  <1>8. ASSUME e = "charT_u8" PROVE Rerun(row) = Restored(r)
    <2>1. Rerun(row) = OfU8(x)
      BY <1>3, <1>8
    <2>2. Restored(r) = [r EXCEPT !.output2 = <<>>, !.encoding2 = ""]
      BY <1>8 DEF Restored
    <2> DEFINE d == DecodeU8(x).text
    <2>3. r.output1 = d /\ r.encoding1 = "UTF-8"
      <3>1. r = OfCode(x, e) \/ r = OfU8(x)
        BY <1>5, <1>8
      <3>2. OfCode(x, e).output1 = d /\ OfCode(x, e).encoding1 = "UTF-8" /\ OfU8(x).output1 = d /\ OfU8(x).encoding1 = "UTF-8"
        BY DEF OfCode, OfU8, Record
      <3> QED
        BY <3>1, <3>2
    <2>4. OfU8(x) = [input |-> x, output1 |-> d, output2 |-> <<>>,
                     inputEncoding |-> "charT_u8", encoding1 |-> "UTF-8", encoding2 |-> ""]
      BY DEF OfU8, Record
    <2> HIDE DEF d
    <2>5. [r EXCEPT !.output2 = <<>>, !.encoding2 = ""]
            = [input |-> r.input, output1 |-> r.output1, output2 |-> <<>>,
               inputEncoding |-> r.inputEncoding, encoding1 |-> r.encoding1, encoding2 |-> ""]
      BY <1>1, OneOutput
    <2> QED
      BY <1>8, <2>1, <2>2, <2>3, <2>4, <2>5
  <1>9. ASSUME e = "charTC_u8" PROVE Rerun(row) = Restored(r)
    <2>1. Rerun(row) = OfUc(x)
      BY <1>3, <1>9
    <2>2. ASSUME r = OfCode(x, e) PROVE Rerun(row) = Restored(r)
      <3> DEFINE d == DecodeUc(x).text
      <3>1. r.encoding2 = "UTF-8" /\ r.encoding1 = "UTF-8" /\ r.output2 = d
        <4>1. OfCode(x, e).encoding2 = "UTF-8" /\ OfCode(x, e).encoding1 = "UTF-8" /\ OfCode(x, e).output2 = d
          BY DEF OfCode, Record
        <4> QED
          BY <2>2, <4>1
      <3>2. Restored(r) = [r EXCEPT !.output1 = r.output2, !.output2 = <<>>, !.encoding2 = ""]
        BY <1>9, <3>1 DEF Restored
      <3>3. OfUc(x) = [input |-> x, output1 |-> d, output2 |-> <<>>,
                       inputEncoding |-> "charTC_u8", encoding1 |-> "UTF-8", encoding2 |-> ""]
        BY DEF OfUc, Record
      <3> HIDE DEF d
      <3>4. [r EXCEPT !.output1 = r.output2, !.output2 = <<>>, !.encoding2 = ""]
              = [input |-> r.input, output1 |-> r.output2, output2 |-> <<>>,
                 inputEncoding |-> r.inputEncoding, encoding1 |-> r.encoding1, encoding2 |-> ""]
        <4>1. r.output2 \in Text
          BY <1>1 DEF RecordForms
        <4> QED
          BY <1>1, <4>1, OneOutput
      <3> QED
        BY <1>9, <2>1, <3>1, <3>2, <3>3, <3>4
    <2>3. ASSUME r = OfUc(x) PROVE Rerun(row) = Restored(r)
      <3>1. r.encoding2 = ""
        <4>1. OfUc(x).encoding2 = ""
          BY DEF OfUc, Record
        <4> QED
          BY <2>3, <4>1
      <3>2. Restored(r) = r
        BY <1>9, <3>1 DEF Restored
      <3> QED
        BY <2>1, <2>3, <3>2
    <2>4. r = OfCode(x, e) \/ r = OfUc(x)
      BY <1>5, <1>9
    <2> QED
      BY <2>2, <2>3, <2>4
  <1> QED
    BY <1>1, <1>6, <1>7, <1>8, <1>9 DEF row

-----------------------------------------------------------------------------
(* The header alone.                                                       *)

LEMMA HeaderIsToken ==
  Header \in Token /\ Header \notin {Quote, Lf, Cr, Space} /\ <<Header>> \in Text /\ <<Header, Lf>> \in Text
  <1>1. Header \in Token /\ Header \notin {Quote, Lf, Cr, Space}
    BY DEF Token, Header, Quote, Lf, Cr, Space
  <1>2. Lf \in Token
    BY MarksAreTokens
  <1> QED
    BY <1>1, <1>2 DEF Text

LEMMA HeaderScanned ==
  /\ BetweenRows(<<Header, Lf>>)
  /\ StateOf(<<Header, Lf>>).records = Append(<<>>, [text |-> <<Header>>, line |-> 1])
  <1> DEFINE h == <<Header>>
             b == Append(h, Lf)
  <1>1. <<>> \in Text /\ h \in Text /\ b \in Text /\ Append(<<>>, Header) = h /\ b = <<Header, Lf>>
    <2>1. Append(<<>>, Header) = h
      OBVIOUS
    <2> DEFINE c == <<Header, Lf>>
    <2>2. c \in Seq(Token) /\ Len(c) = 2 /\ c[1] = Header /\ c[2] = Lf
      BY HeaderIsToken, MarksAreTokens
    <2>3. h \in Seq(Token) /\ Len(h) = 1 /\ h[1] = Header
      BY HeaderIsToken
    <2> HIDE DEF c, h
    <2>9. h \in Seq(Token)
      BY <2>3
    <2>4. b \in Seq(Token) /\ Len(b) = Len(h) + 1 /\ b[Len(h) + 1] = Lf /\ \A j \in 1..Len(h) : b[j] = h[j]
      BY <2>9, MarksAreTokens, FieldOn
    <2>5. Len(h) + 1 = 2 /\ 1 \in 1..Len(h)
      BY <2>3
    <2> HIDE DEF b
    <2>6. Len(b) = 2 /\ b[1] = Header /\ b[2] = Lf
      BY <2>3, <2>4, <2>5
    <2>7. \A j \in 1..2 : b[j] = c[j]
      BY <2>2, <2>6
    <2>8. b = c
      BY <2>2, <2>4, <2>6, <2>7, SeqEqual
    <2> QED
      BY <2>1, <2>8, EmptyText, HeaderIsToken DEF c, h
  <1> DEFINE s == StateOf(<<>>)
             t == StateOf(h)
  <1>2. s = ScanStart /\ s.records = <<>> /\ s.text = <<>> /\ ~s.inQuotes
    BY StateOfNone DEF ScanStart
  <1>3. /\ t.records = <<>> /\ t.text = h /\ ~t.inQuotes /\ ~EndsInCr(h)
    <2>1. LET u == StateOf(Append(<<>>, Header))
          IN  /\ u.records = s.records /\ u.text = Append(s.text, Header) /\ ~EndsInCr(Append(<<>>, Header))
              /\ u.inQuotes <=> (IF Header = Quote THEN ~s.inQuotes ELSE s.inQuotes)
      BY <1>1, HeaderIsToken, OneTokenOn
    <2> QED
      BY <1>1, <1>2, <2>1, HeaderIsToken
  <1>4. t.start = 1
    <2>1. StateOf(Append(<<>>, Header)) = Fed(s, Header)
      BY <1>1, HeaderIsToken, StateOfAppend
    <2>2. Follows(s, Fed(s, Header), Header, Header = Lf /\ ~s.inQuotes, Header = Quote, FALSE)
      BY <1>1, HeaderIsToken, StateTyped, FedParts
    <2> QED
      BY <1>1, <1>2, <2>1, <2>2, HeaderIsToken DEF Follows, ScanStart
  <1>5. StateOf(b) = Fed(t, Lf)
    BY <1>1, <1>3, MarksAreTokens, StateOfAppend
  <1>6. Follows(t, Fed(t, Lf), Lf, Lf = Lf /\ ~t.inQuotes, Lf = Quote, FALSE)
    BY <1>1, MarksAreTokens, StateTyped, FedParts
  <1>7. ~EndsInCr(b)
    BY <1>1, MarksAreTokens, EndOfAppend
  <1> HIDE DEF h, b, s, t
  <1>8. /\ StateOf(b).records = Append(<<>>, [text |-> h, line |-> 1])
        /\ StateOf(b).text = <<>> /\ ~StateOf(b).inQuotes
    BY <1>3, <1>4, <1>5, <1>6, MarksAreTokens DEF Follows
  <1> QED
    BY <1>1, <1>7, <1>8 DEF BetweenRows, h

LEMMA FirstLineOfHeader == TextTrim(FirstLine(<<Header>>)) = <<Header>>
  <1> DEFINE h == <<Header>>
  <1>1. {k \in DOMAIN h : h[k] = Lf} = {}
    BY HeaderIsToken
  <1>2. FirstLine(h) = h
    BY <1>1 DEF FirstLine
  <1>3. TextTrim(h) = h
    BY HeaderIsToken, TrimOfToken
  <1> QED
    BY <1>2, <1>3

(* With the header alone there are no rows.                                *)
LEMMA HeaderJudged ==
  ASSUME NEW records, records = Append(<<>>, [text |-> <<Header>>, line |-> 1])
  PROVE  BehindHeader(records) /\ AddedOf(records) = <<>> /\ ErrorsOf(records) = <<>>
  <1> DEFINE x == [text |-> <<Header>>, line |-> 1]
             none == <<>>
  <1>1. x \in Found /\ x.text = <<Header>>
    BY HeaderIsToken DEF Found
  <1>2. ~IsBlank(<<Header>>)
    <2>1. 1 \in DOMAIN <<Header>> /\ (<<Header>>)[1] = Header
      OBVIOUS
    <2> QED
      BY <2>1, HeaderIsToken DEF IsBlank
  <1> HIDE DEF x
  <1>3. none \in Seq(Found) /\ records = Append(none, x) /\ Append(none, x) \in Seq(Found)
        /\ Append(none, x) # <<>> /\ Append(none, x)[1] = x /\ Tail(Append(none, x)) = <<>>
    BY <1>1 DEF x
  <1>4. FilledOf(none) = <<>>
    BY PickedOfNone DEF FilledOf
  <1> HIDE DEF none
  <1>5. FilledOf(records) = Append(FilledOf(none), x)
    BY <1>1, <1>2, <1>3, FilledOfAppend
  <1>6. FilledOf(records) = records
    BY <1>3, <1>4, <1>5 DEF none
  <1>7. BehindHeader(records)
    BY <1>1, <1>3, <1>6, FirstLineOfHeader DEF BehindHeader
  <1>8. RowsOf(records) = <<>>
    BY <1>3, <1>6 DEF RowsOf
  <1>9. ValidOf(records) = <<>> /\ ErrorsOf(records) = <<>>
    BY <1>8, PickedOfNone DEF ValidOf, ErrorsOf
  <1>10. AddedOf(records) = <<>>
    <2>1. DOMAIN <<>> = {}
      OBVIOUS
    <2>2. AddedOf(records) = [k \in {} |-> Rerun(ParsedRow((<<>>)[k].text))]
      BY <1>9, <2>1 DEF AddedOf
    <2>3. [k \in {} |-> Rerun(ParsedRow((<<>>)[k].text))] = <<>>
      OBVIOUS
    <2> QED
      BY <2>2, <2>3
  <1> QED
    BY <1>7, <1>9, <1>10

-----------------------------------------------------------------------------
(* What is saved, one record longer.                                       *)

KeptAt(saved) == {j \in DOMAIN saved : IsNamed(saved[j]) /\ ~HasCr(saved[j])}
KeptOf(saved) == Picked(saved, KeptAt(saved))
RestoredOf(saved) == [j \in DOMAIN KeptOf(saved) |-> Restored(KeptOf(saved)[j])]
Clean(saved) == \A j \in DOMAIN saved : ~HasCr(saved[j])

LEMMA RestoredTyped ==
  ASSUME CodecsTyped, NEW r \in Records, IsNamed(r)
  PROVE  Restored(r) \in Records
  <1> DEFINE row == [input |-> r.input, inputEncoding |-> r.inputEncoding]
  <1>1. row \in Rows
    BY DEF Records, RecordForms, Rows, IsNamed
  <1>2. Rerun(row) = Restored(r)
    BY RerunRestores
  <1> HIDE DEF row
  <1> QED
    BY <1>1, <1>2, RerunTyped

LEMMA KeptTyped ==
  ASSUME NEW saved \in Seq(Records)
  PROVE  /\ KeptOf(saved) \in Seq(Records) /\ Len(KeptOf(saved)) \in Nat
         /\ DOMAIN KeptOf(saved) = 1..Len(KeptOf(saved))
         /\ \A j \in DOMAIN KeptOf(saved) : KeptOf(saved)[j] \in Records /\ IsNamed(KeptOf(saved)[j])
  <1>1. KeptOf(saved) \in Seq(Records)
    BY PickedTyped DEF KeptOf
  <1>2. ASSUME NEW j \in DOMAIN KeptOf(saved) PROVE IsNamed(KeptOf(saved)[j])
    <2>1. PICK i \in 1..Len(saved) : i \in KeptAt(saved) /\ KeptOf(saved)[j] = saved[i]
      BY <1>2, PickedStood DEF KeptOf
    <2> QED
      BY <2>1 DEF KeptAt
  <1>3. /\ Len(KeptOf(saved)) \in Nat /\ DOMAIN KeptOf(saved) = 1..Len(KeptOf(saved))
        /\ \A j \in 1..Len(KeptOf(saved)) : KeptOf(saved)[j] \in Records
    BY <1>1
  <1> QED
    BY <1>1, <1>2, <1>3

LEMMA KeptOfNone == KeptOf(<<>>) = <<>> /\ RestoredOf(<<>>) = <<>> /\ Clean(<<>>)
  <1>1. KeptOf(<<>>) = <<>>
    BY PickedOfNone DEF KeptOf
  <1>2. DOMAIN <<>> = {} /\ [j \in {} |-> Restored((<<>>)[j])] = <<>>
    OBVIOUS
  <1> QED
    BY <1>1, <1>2 DEF RestoredOf, Clean

LEMMA KeptOfAppend ==
  ASSUME NEW saved \in Seq(Records), NEW r \in Records
  PROVE  /\ KeptOf(Append(saved, r)) =
              IF IsNamed(r) /\ ~HasCr(r) THEN Append(KeptOf(saved), r) ELSE KeptOf(saved)
         /\ Clean(Append(saved, r)) <=> Clean(saved) /\ ~HasCr(r)
         /\ Len(Append(saved, r)) = Len(saved) + 1 /\ Len(saved) \in Nat
  <1> DEFINE long == Append(saved, r)
             n == Len(saved)
             P == KeptAt(saved)
             Q == KeptAt(long)
  <1>1. /\ n \in Nat /\ DOMAIN long = 1..n + 1 /\ DOMAIN saved = 1..n /\ long[n + 1] = r /\ Len(long) = n + 1
        /\ \A k \in 1..n : long[k] = saved[k]
    OBVIOUS
  <1> HIDE DEF long
  <1>2. \A k \in 1..n : k \in P <=> k \in Q
    BY <1>1 DEF KeptAt
  <1>3. n + 1 \in Q <=> IsNamed(r) /\ ~HasCr(r)
    BY <1>1 DEF KeptAt
  <1>4. Clean(long) <=> Clean(saved) /\ ~HasCr(r)
    <2>1. \A k \in 1..n + 1 : k \in 1..n \/ k = n + 1
      BY <1>1
    <2>2. n + 1 \in 1..n + 1 /\ \A k \in 1..n : k \in 1..n + 1
      BY <1>1
    <2> HIDE DEF n
    <2> QED
      BY <1>1, <2>1, <2>2 DEF Clean
  <1> HIDE DEF P, Q
  <1>5. Picked(long, Q) = IF n + 1 \in Q THEN Append(Picked(saved, P), r) ELSE Picked(saved, P)
    BY <1>2, PickedOfAppend DEF long
  <1>6. KeptOf(long) = Picked(long, Q) /\ KeptOf(saved) = Picked(saved, P)
    BY DEF KeptOf, P, Q
  <1> QED
    BY <1>1, <1>3, <1>4, <1>5, <1>6 DEF long

LEMMA RestoredOfTyped ==
  ASSUME CodecsTyped, NEW saved \in Seq(Records)
  PROVE  /\ RestoredOf(saved) \in [1..Len(KeptOf(saved)) -> Records]
         /\ RestoredOf(saved) \in Seq(Records) /\ Len(RestoredOf(saved)) = Len(KeptOf(saved))
  <1> DEFINE kept == KeptOf(saved)
             restored == [j \in DOMAIN kept |-> Restored(kept[j])]
  <1>1. /\ Len(kept) \in Nat /\ DOMAIN kept = 1..Len(kept)
        /\ \A j \in DOMAIN kept : kept[j] \in Records /\ IsNamed(kept[j])
    BY KeptTyped
  <1>2. RestoredOf(saved) = restored
    BY DEF RestoredOf
  <1> HIDE DEF kept
  <1>3. \A j \in DOMAIN kept : Restored(kept[j]) \in Records
    BY <1>1, RestoredTyped
  <1>4. restored \in [1..Len(kept) -> Records]
    BY <1>1, <1>3
  <1> HIDE DEF restored
  <1>5. restored \in Seq(Records) /\ Len(restored) = Len(kept)
    BY <1>1, <1>4
  <1> QED
    BY <1>2, <1>4, <1>5 DEF kept

LEMMA RestoredOfAppend ==
  ASSUME CodecsTyped, NEW saved \in Seq(Records), NEW r \in Records
  PROVE  RestoredOf(Append(saved, r)) =
           IF IsNamed(r) /\ ~HasCr(r) THEN Append(RestoredOf(saved), Restored(r)) ELSE RestoredOf(saved)
  <1> DEFINE long == Append(saved, r)
             kept == KeptOf(saved)
             n == Len(kept)
             f == RestoredOf(long)
             g == RestoredOf(saved)
  <1>1. long \in Seq(Records) /\ kept \in Seq(Records) /\ n \in Nat /\ g \in [1..n -> Records]
    BY KeptTyped, RestoredOfTyped
  <1>2. CASE ~(IsNamed(r) /\ ~HasCr(r))
    <2>1. KeptOf(long) = kept
      BY <1>2, KeptOfAppend
    <2> QED
      BY <1>2, <2>1 DEF RestoredOf
  <1>3. CASE IsNamed(r) /\ ~HasCr(r)
    <2>1. KeptOf(long) = Append(kept, r)
      BY <1>3, KeptOfAppend
    <2> HIDE DEF kept
    <2>2. /\ Len(Append(kept, r)) = n + 1 /\ Append(kept, r)[n + 1] = r
          /\ \A j \in 1..n : Append(kept, r)[j] = kept[j]
      BY <1>1
    <2>3. f \in [1..n + 1 -> Records]
      BY <1>1, <2>1, <2>2, RestoredOfTyped
    <2>4. DOMAIN KeptOf(long) = 1..n + 1 /\ DOMAIN kept = 1..n
      BY <1>1, <2>1
    <2> HIDE DEF long, n
    <2>5. (\A j \in 1..n + 1 : f[j] = Restored(KeptOf(long)[j])) /\ \A j \in 1..n : g[j] = Restored(kept[j])
      BY <2>4 DEF RestoredOf, kept
    <2>6. n + 1 \in 1..n + 1 /\ \A j \in 1..n : j \in 1..n + 1
      BY <1>1
    <2>7. f[n + 1] = Restored(r) /\ \A j \in 1..n : f[j] = g[j]
      BY <2>1, <2>2, <2>5, <2>6
    <2> HIDE DEF f, g
    <2>8. f = Append(g, f[n + 1])
      BY <1>1, <2>3, <2>7, LastApart
    <2> QED
      BY <1>3, <2>7, <2>8 DEF f, g, long
  <1> QED
    BY <1>2, <1>3

LEMMA SerializeOfNone == Serialize(<<>>) = <<Header, Lf>>
  <1>1. [k \in DOMAIN <<>> |-> RowOf((<<>>)[k])] = <<>>
    OBVIOUS
  <1>2. <<Header, Lf>> \o <<>> = <<Header, Lf>>
    BY HeaderIsToken DEF Text
  <1> QED
    BY <1>1, <1>2, ConcatOfNone DEF Serialize

LEMMA SerializeOfAppend ==
  ASSUME NEW saved \in Seq(Records), NEW r \in Records
  PROVE  Serialize(Append(saved, r)) = Serialize(saved) \o RowOf(r)
  <1> DEFINE long == Append(saved, r)
             n == Len(saved)
             f == [k \in DOMAIN long |-> RowOf(long[k])]
             g == [k \in DOMAIN saved |-> RowOf(saved[k])]
             h == <<Header, Lf>>
  <1>1. /\ n \in Nat /\ DOMAIN long = 1..n + 1 /\ DOMAIN saved = 1..n /\ long[n + 1] = r
        /\ (\A k \in 1..n : long[k] = saved[k] /\ saved[k] \in Records)
    OBVIOUS
  <1> HIDE DEF long
  <1>2. n + 1 \in 1..n + 1 /\ (\A k \in 1..n : k \in 1..n + 1) /\ \A k \in 1..n + 1 : k \in 1..n \/ k = n + 1
    BY <1>1
  <1> HIDE DEF n
  <1>3. \A k \in 1..n + 1 : RowOf(long[k]) \in Text
    BY <1>1, <1>2, RowTyped
  <1>4. f \in [1..n + 1 -> Text] /\ g \in [1..n -> Text]
    BY <1>1, <1>2, <1>3, RowTyped
  <1>5. f[n + 1] = RowOf(r) /\ \A k \in 1..n : f[k] = g[k]
    BY <1>1, <1>2
  <1>6. Serialize(long) = h \o Concat(f) /\ Serialize(saved) = h \o Concat(g)
    BY DEF Serialize
  <1> HIDE DEF f, g, h
  <1>7. g \in Seq(Text) /\ f = Append(g, RowOf(r))
    BY <1>1, <1>4, <1>5, LastApart, SMTT(20)
  <1>8. RowOf(r) \in Text
    BY RowTyped
  <1>9. Concat(f) = Concat(g) \o RowOf(r)
    BY <1>7, <1>8, ConcatOfAppend DEF Text
  <1>10. Concat(g) \in Text /\ h \in Text
    BY <1>7, ConcatTyped, HeaderIsToken DEF Text, h
  <1> DEFINE u == Concat(g)
             v == RowOf(r)
  <1>11. u \in Seq(Token) /\ v \in Seq(Token) /\ h \in Seq(Token)
    BY <1>8, <1>10 DEF Text
  <1>12. Serialize(long) = h \o (u \o v) /\ Serialize(saved) = h \o u
    BY <1>6, <1>9
  <1> HIDE DEF u, v
  <1>13. (h \o u) \o v = h \o (u \o v)
    BY <1>11, JoinedTwice
  <1> QED
    BY <1>12, <1>13 DEF v, long

-----------------------------------------------------------------------------
(* What was saved comes back.                                              *)

(* Behind every row the scan is between rows, and what would be imported   *)
(* so far is what has been saved so far, as SavedTextsComeBack says.       *)
ComesBack(saved) ==
  LET csv == Serialize(saved)
      records == StateOf(csv).records
  IN  /\ csv \in Text /\ BetweenRows(csv) /\ BehindHeader(records)
      /\ IsSubsequence(RestoredOf(saved), AddedOf(records))
      /\ Clean(saved) =>
           AddedOf(records) = RestoredOf(saved) /\ Len(ErrorsOf(records)) = Len(saved) - Len(KeptOf(saved))

LEMMA NoneComesBack == ComesBack(<<>>)
  <1> DEFINE csv == <<Header, Lf>>
             records == StateOf(csv).records
  <1>1. Serialize(<<>>) = csv /\ csv \in Text /\ BetweenRows(csv)
    BY SerializeOfNone, HeaderIsToken, HeaderScanned
  <1>2. BehindHeader(records) /\ AddedOf(records) = <<>> /\ ErrorsOf(records) = <<>>
    BY HeaderScanned, HeaderJudged
  <1>3. Len(<<>>) = 0 /\ 0 - 0 = 0
    OBVIOUS
  <1> HIDE DEF csv
  <1> QED
    BY <1>1, <1>2, <1>3, KeptOfNone, SubsequenceOfNone DEF ComesBack

(* A row without a carriage return is what its record says.                *)
LEMMA CleanRowComesBack ==
  ASSUME CodecsTyped, NEW saved \in Seq(Records), ComesBack(saved), NEW r \in Records, ~HasCr(r)
  PROVE  ComesBack(Append(saved, r))
  <1> DEFINE a == Serialize(saved)
             b == Serialize(Append(saved, r))
             before == StateOf(a).records
             records == StateOf(b).records
             restored == RestoredOf(saved)
             long == Append(saved, r)
  <1>1. /\ a \in Text /\ BetweenRows(a) /\ BehindHeader(before) /\ IsSubsequence(restored, AddedOf(before))
        /\ Clean(saved) =>
             AddedOf(before) = restored /\ Len(ErrorsOf(before)) = Len(saved) - Len(KeptOf(saved))
    BY DEF ComesBack
  <1>2. r \in RecordForms /\ b = a \o RowOf(r)
    BY SerializeOfAppend DEF Records
  <1>3. b \in Text /\ BetweenRows(b)
    BY <1>1, <1>2, RowScanned
  <1>4. PICK n \in Nat : records = Append(before, [text |-> Body(r), line |-> n])
    BY <1>1, <1>2, RowScanned
  <1> DEFINE x == [text |-> Body(r), line |-> n]
  <1>5. x \in Found /\ x.text = Body(r)
    BY <1>2, BodyIs DEF Found
  <1>6. /\ ~IsBlank(x.text) /\ (IsRow(x.text) <=> IsNamed(r))
        /\ ParsedRow(x.text) = [input |-> r.input, inputEncoding |-> r.inputEncoding]
    BY <1>2, <1>5, BodyParsed
  <1> HIDE DEF x
  <1>7. /\ BehindHeader(records)
        /\ IsNamed(r) => /\ AddedOf(records) = Append(AddedOf(before), Rerun(ParsedRow(x.text)))
                         /\ ErrorsOf(records) = ErrorsOf(before)
        /\ ~IsNamed(r) => /\ AddedOf(records) = AddedOf(before)
                          /\ ErrorsOf(records) = Append(ErrorsOf(before), x)
    <2>1. records = Append(before, x)
      BY <1>4 DEF x
    <2> HIDE DEF records, before
    <2> QED
      BY <1>1, <1>5, <1>6, <2>1, JudgedOfAppend
  <1>8. IsNamed(r) => Rerun(ParsedRow(x.text)) = Restored(r)
    BY <1>6, RerunRestores
  <1>9. /\ AddedOf(before) \in Seq(Records) /\ restored \in Seq(Records)
        /\ ErrorsOf(before) \in Seq(Found) /\ Len(ErrorsOf(before)) \in Nat
        /\ KeptOf(saved) \in Seq(Records) /\ Len(KeptOf(saved)) \in Nat
    <2>1. ErrorsOf(before) \in Seq(Found)
      BY <1>1, ValidTyped
    <2> QED
      BY <1>1, <2>1, AddedOfTyped, RestoredOfTyped, KeptTyped
  <1>10. Clean(long) <=> Clean(saved)
    BY KeptOfAppend
  <1>11. Len(long) = Len(saved) + 1 /\ Len(saved) \in Nat
    BY KeptOfAppend
  <1> DEFINE m == Len(saved)
             l == Len(KeptOf(saved))
             e == Len(ErrorsOf(before))
  <1>12. CASE IsNamed(r)
    <2>1. KeptOf(long) = Append(KeptOf(saved), r) /\ RestoredOf(long) = Append(restored, Restored(r))
      BY <1>12, KeptOfAppend, RestoredOfAppend
    <2>2. AddedOf(records) = Append(AddedOf(before), Restored(r)) /\ ErrorsOf(records) = ErrorsOf(before)
      BY <1>7, <1>8, <1>12
    <2>3. Len(KeptOf(long)) = l + 1
      <3> DEFINE kept == KeptOf(saved)
      <3> HIDE DEF kept
      <3>1. kept \in Seq(Records)
        BY <1>9 DEF kept
      <3>2. Len(Append(kept, r)) = Len(kept) + 1
        BY <3>1, FieldOn
      <3> QED
        BY <2>1, <3>2 DEF kept
    <2>4. IsSubsequence(RestoredOf(long), AddedOf(records))
      <3> DEFINE s == restored
                 t == AddedOf(before)
                 d == Restored(r)
      <3>1. s \in Seq(Records) /\ t \in Seq(Records) /\ d \in Records /\ IsSubsequence(s, t)
        BY <1>1, <1>9, <1>12, RestoredTyped
      <3>2. RestoredOf(long) = Append(s, d) /\ AddedOf(records) = Append(t, d)
        BY <2>1, <2>2
      <3> HIDE DEF s, t, d
      <3>3. IsSubsequence(Append(s, d), Append(t, d))
        BY <3>1, SubsequenceOfAppend
      <3> QED
        BY <3>2, <3>3
    <2>5. ASSUME Clean(long)
          PROVE  AddedOf(records) = RestoredOf(long) /\ Len(ErrorsOf(records)) = Len(long) - Len(KeptOf(long))
      <3>1. AddedOf(before) = restored /\ e = m - l
        BY <1>1, <1>10, <2>5
      <3>2. m \in Nat /\ l \in Nat
        BY <1>9, <1>11
      <3> HIDE DEF e, m, l
      <3>3. e = (m + 1) - (l + 1)
        BY <3>1, <3>2
      <3>4. Len(ErrorsOf(records)) = e /\ Len(long) = m + 1 /\ Len(KeptOf(long)) = l + 1
        BY <1>11, <2>2, <2>3 DEF e, m, l
      <3> QED
        BY <2>1, <2>2, <3>1, <3>3, <3>4
    <2> HIDE DEF b
    <2> QED
      BY <1>3, <1>7, <2>4, <2>5 DEF ComesBack, b
  <1>13. CASE ~IsNamed(r)
    <2>1. KeptOf(long) = KeptOf(saved) /\ RestoredOf(long) = restored
      BY <1>13, KeptOfAppend, RestoredOfAppend
    <2>2. AddedOf(records) = AddedOf(before) /\ ErrorsOf(records) = Append(ErrorsOf(before), x)
      BY <1>7, <1>13
    <2>3. Len(ErrorsOf(records)) = e + 1
      <3> DEFINE errors == ErrorsOf(before)
      <3> HIDE DEF errors
      <3>1. errors \in Seq(Found)
        BY <1>9 DEF errors
      <3>2. Len(Append(errors, x)) = Len(errors) + 1
        BY <1>5, <3>1, FieldOn
      <3> QED
        BY <2>2, <3>2 DEF errors
    <2>4. ASSUME Clean(long)
          PROVE  AddedOf(records) = RestoredOf(long) /\ Len(ErrorsOf(records)) = Len(long) - Len(KeptOf(long))
      <3>1. AddedOf(before) = restored /\ e = m - l
        BY <1>1, <1>10, <2>4
      <3>2. m \in Nat /\ l \in Nat
        BY <1>9, <1>11
      <3> HIDE DEF e, m, l
      <3>3. e + 1 = (m + 1) - l
        BY <3>1, <3>2
      <3>4. Len(ErrorsOf(records)) = e + 1 /\ Len(long) = m + 1 /\ Len(KeptOf(long)) = l
        BY <1>11, <2>1, <2>3 DEF m, l
      <3> QED
        BY <2>1, <2>2, <3>1, <3>3, <3>4
    <2>5. IsSubsequence(RestoredOf(long), AddedOf(records))
      BY <1>1, <2>1, <2>2
    <2> HIDE DEF b
    <2> QED
      BY <1>3, <1>7, <2>4, <2>5 DEF ComesBack, b
  <1> QED
    BY <1>12, <1>13

(* One with a carriage return may be any number of rows and errors, but    *)
(* what came back of the others stays.                                     *)
LEMMA BrokenRowPassed ==
  ASSUME CodecsTyped, NEW saved \in Seq(Records), ComesBack(saved), NEW r \in Records, HasCr(r)
  PROVE  ComesBack(Append(saved, r))
  <1> DEFINE a == Serialize(saved)
             b == Serialize(Append(saved, r))
             restored == RestoredOf(saved)
             long == Append(saved, r)
             G == {records \in Seq(Found) : BehindHeader(records) /\ IsSubsequence(restored, AddedOf(records))}
  <1>1. a \in Text /\ BetweenRows(a) /\ BehindHeader(StateOf(a).records) /\ IsSubsequence(restored, AddedOf(StateOf(a).records))
    BY DEF ComesBack
  <1>2. r \in RecordForms /\ b = a \o RowOf(r) /\ RowOf(r) \in Text
    BY SerializeOfAppend, RowTyped DEF Records
  <1>3. b \in Text /\ BetweenRows(b)
    BY <1>1, <1>2, RowScanned
  <1>4. RestoredOf(long) = restored /\ ~Clean(long)
    BY RestoredOfAppend, KeptOfAppend
  <1>5. StateOf(a).records \in G
    BY <1>1 DEF BehindHeader
  <1>6. restored \in Seq(Records)
    BY RestoredOfTyped
  <1> HIDE DEF restored
  <1>7. ASSUME NEW records \in G, NEW x \in Found PROVE Append(records, x) \in G
    <2> DEFINE more == Append(records, x)
    <2>1. BehindHeader(records) /\ IsSubsequence(restored, AddedOf(records)) /\ records \in Seq(Found)
      OBVIOUS
    <2>2. /\ BehindHeader(more)
          /\ \/ AddedOf(more) = AddedOf(records)
             \/ /\ IsRow(x.text) /\ AddedOf(more) = Append(AddedOf(records), Rerun(ParsedRow(x.text)))
      BY <2>1, JudgedOfAppend
    <2>3. AddedOf(records) \in Seq(Records)
      BY <2>1, AddedOfTyped
    <2>4. more \in Seq(Found)
      BY <2>1
    <2> HIDE DEF more, G
    <2>5. IsSubsequence(restored, AddedOf(more))
      <3>1. CASE IsRow(x.text) /\ AddedOf(more) = Append(AddedOf(records), Rerun(ParsedRow(x.text)))
        <4>1. x.text \in Text
          BY DEF Found
        <4>2. Rerun(ParsedRow(x.text)) \in Records
          BY <3>1, <4>1, ParsedRowTyped, RerunTyped
        <4> DEFINE d == Rerun(ParsedRow(x.text))
                   t == AddedOf(records)
        <4>3. d \in Records /\ t \in Seq(Records) /\ IsSubsequence(restored, t) /\ AddedOf(more) = Append(t, d)
          BY <2>1, <2>3, <3>1, <4>2
        <4> HIDE DEF d, t
        <4>4. IsSubsequence(restored, Append(t, d))
          BY <1>6, <4>3, SubsequenceOfAppend
        <4> QED
          BY <4>3, <4>4
      <3> QED
        BY <2>1, <2>2, <3>1
    <2> QED
      BY <2>2, <2>4, <2>5 DEF more, G
  <1>8. StateOf(b).records \in G
    <2> DEFINE w == RowOf(r)
    <2>1. w \in Text /\ b = a \o w
      BY <1>2
    <2> HIDE DEF G, w, a, b
    <2>2. StateOf(a \o w).records \in G
      BY <1>1, <1>5, <1>7, <2>1, RecordsGrow
    <2> QED
      BY <2>1, <2>2
  <1>9. BehindHeader(StateOf(b).records) /\ IsSubsequence(restored, AddedOf(StateOf(b).records))
    BY <1>8
  <1> HIDE DEF b, G
  <1> QED
    BY <1>3, <1>4, <1>9 DEF ComesBack, b

LEMMA SavedComesBack ==
  ASSUME CodecsTyped, NEW saved \in Seq(Records)
  PROVE  ComesBack(saved)
  <1> DEFINE S == {s \in Seq(Records) : ComesBack(s)}
  <1>1. <<>> \in S
    BY NoneComesBack
  <1>2. ASSUME NEW s \in Seq(Records), s \in S, NEW r \in Records PROVE Append(s, r) \in S
    <2>1. ComesBack(s) /\ Append(s, r) \in Seq(Records)
      BY <1>2
    <2>2. ComesBack(Append(s, r))
      BY <2>1, CleanRowComesBack, BrokenRowPassed
    <2> QED
      BY <2>1, <2>2
  <1> HIDE DEF S
  <1>3. Seq(Records) \subseteq S
    BY <1>1, <1>2, SequenceInduction
  <1> QED
    BY <1>3 DEF S

(* What an import makes of a file that ends between rows.                  *)
LEMMA DeserializedRows ==
  ASSUME NEW csv \in Text, BetweenRows(csv), BehindHeader(StateOf(csv).records)
  PROVE  /\ Added(csv) = AddedOf(StateOf(csv).records)
         /\ Deserialize(csv).errors = ErrorsOf(StateOf(csv).records)
  <1> DEFINE records == StateOf(csv).records
             valid == ValidOf(records)
             parsed == [k \in DOMAIN valid |-> ParsedRow(valid[k].text)]
  <1>1. AllRecords(csv) = records
    BY DEF AllRecords, ReadRecords, StateOf, BetweenRows
  <1>2. Filled(csv) = FilledOf(records)
    BY <1>1 DEF Filled, FilledOf
  <1>3. Filled(csv) # <<>> /\ HasHeader(csv)
    BY <1>2 DEF BehindHeader, HasHeader
  <1>4. Tail(Filled(csv)) = RowsOf(records) /\ GoodRows(csv) = GoodOf(records)
        /\ BadRows(csv) = DOMAIN RowsOf(records) \ GoodOf(records)
    BY <1>2 DEF RowsOf, GoodRows, GoodOf, BadRows
  <1>5. Picked(Tail(Filled(csv)), GoodRows(csv)) = valid /\ Picked(Tail(Filled(csv)), BadRows(csv)) = ErrorsOf(records)
    BY <1>4 DEF ValidOf, ErrorsOf
  <1> HIDE DEF valid
  <1>6. Deserialize(csv) = [validRows |-> parsed, errors |-> ErrorsOf(records)]
    BY <1>3, <1>5, DeserializeIs
  <1>7. Added(csv) = [k \in DOMAIN parsed |-> Rerun(parsed[k])]
    BY <1>6 DEF Added
  <1>8. Added(csv) = [k \in DOMAIN valid |-> Rerun(ParsedRow(valid[k].text))]
    BY <1>7
  <1> QED
    BY <1>6, <1>8 DEF AddedOf, valid

(* A saved history comes back through its file: every record of it whose   *)
(* encoding is one of the four, in order, and without a carriage return    *)
(* nothing else, with one error for every other record; for any history,   *)
(* any texts in it and any codecs (CharTStringCsvSerializer.cs:46-62,      *)
(* 77-253; CharTStringConverter.razor:314-399).                            *)
THEOREM SavedRecordsReturn == ASSUME CodecsTyped PROVE Spec => SavedTextsComeBack
  <1> DEFINE saved(k) == imports[k].file.saved
             kept(k) == Picked(saved(k), {j \in DOMAIN saved(k) : IsNamed(saved(k)[j]) /\ ~HasCr(saved(k)[j])})
             restored(k) == [j \in DOMAIN kept(k) |-> Restored(kept(k)[j])]
             added == SubSeq(history', Len(history) + 1, Len(history'))
             Returned(k) ==
               (imports'[k].state = "read" /\ saved(k) # <<>>) =>
                 /\ IsSubsequence(restored(k), added)
                 /\ (\A j \in DOMAIN saved(k) : ~HasCr(saved(k)[j])) =>
                      added = restored(k) /\ imports'[k].skipped = Len(saved(k)) - Len(kept(k))
  <1>1. ASSUME PageInv, [Next]_vars, NEW k \in Reading PROVE Returned(k)
    <2> SUFFICES ASSUME imports'[k].state = "read", saved(k) # <<>>
                 PROVE  /\ IsSubsequence(restored(k), added)
                        /\ (\A j \in DOMAIN saved(k) : ~HasCr(saved(k)[j])) =>
                             added = restored(k) /\ imports'[k].skipped = Len(saved(k)) - Len(kept(k))
      OBVIOUS
    <2> DEFINE csv == imports[k].file.csv
               history0 == saved(k)
               errors == Deserialize(csv).errors
    <2>1. Finishes(k)
      BY <1>1, ImportRead
    <2>2. history0 \in Seq(Records) /\ csv \in Text /\ csv = Serialize(history0) /\ imports[k] \in Imports
      <3>1. k \in DOMAIN imports
        BY <2>1 DEF Finishes
      <3>2. imports[k] \in Imports /\ imports[k].file \in Files
        BY <1>1, <3>1, ImportTyped
      <3> QED
        BY <3>2 DEF Files
    <2>3. ComesBack(history0)
      BY <2>2, SavedComesBack
    <2> DEFINE records == StateOf(csv).records
    <2>4. /\ BetweenRows(csv) /\ BehindHeader(records) /\ IsSubsequence(RestoredOf(history0), AddedOf(records))
          /\ Clean(history0) =>
               /\ AddedOf(records) = RestoredOf(history0)
               /\ Len(ErrorsOf(records)) = Len(history0) - Len(KeptOf(history0))
      BY <2>2, <2>3 DEF ComesBack
    <2>5. Added(csv) = AddedOf(records) /\ errors = ErrorsOf(records)
      BY <2>2, <2>4, DeserializedRows
    <2>6. added = Added(csv)
      <3>1. history \in Seq(Records) /\ Added(csv) \in Seq(Records)
        BY <1>1, <2>2, AddedTyped DEF PageInv
      <3>2. history' = history \o Added(csv)
        BY <2>1 DEF Finishes
      <3> QED
        BY <3>1, <3>2, Appendix
    <2>7. imports'[k].skipped = Len(errors)
      <3> DEFINE new == [imports[k] EXCEPT !.state = "read",
                           !.imported = Len(Deserialize(csv).validRows), !.skipped = Len(errors)]
      <3>1. imports' = [imports EXCEPT ![k] = new] /\ k \in DOMAIN imports
        BY <2>1 DEF Finishes
      <3>2. new.skipped = Len(errors)
        BY <2>2 DEF Imports
      <3>3. imports \in Seq(Imports)
        BY <1>1 DEF PageInv
      <3> HIDE DEF new
      <3>4. imports'[k] = new
        BY <3>1, <3>3
      <3> QED
        BY <3>2, <3>4
    <2>8. kept(k) = KeptOf(history0) /\ restored(k) = RestoredOf(history0)
          /\ ((\A j \in DOMAIN saved(k) : ~HasCr(saved(k)[j])) <=> Clean(history0))
      BY DEF KeptOf, KeptAt, RestoredOf, Clean
    <2> HIDE DEF kept, restored, added, history0, errors, csv, records
    <2> QED
      BY <2>4, <2>5, <2>6, <2>7, <2>8 DEF history0
  <1>2. PageInv /\ [Next]_vars => [\A k \in Reading : Returned(k)]_vars
    BY <1>1
  <1>3. SavedTextsComeBack <=> [][\A k \in Reading : Returned(k)]_vars
    BY PTL DEF SavedTextsComeBack
  <1> HIDE DEF Returned
  <1> QED
    BY <1>2, <1>3, PageInvHolds, PTL DEF Spec

=============================================================================
