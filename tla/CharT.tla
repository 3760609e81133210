-------------------------------- MODULE CharT --------------------------------
(***************************************************************************)
(* The variable-length ternary text codes charT_u8 and charTC_u8: a text   *)
(* is encoded, its trytes may be damaged on the way, and the loop of       *)
(* Decode reads what arrived, one iteration per action. Both codecs are    *)
(* this module: CharTu8Codec.cs is the codec that is not checked, and      *)
(* CharTCu8Codec.cs, whose lead trytes end in a check trit, the checked    *)
(* one. A trial is a text that is sent through one of them.                *)
(***************************************************************************)
EXTENDS Trytes, FiniteSets, SequencesExt

CONSTANT
  Trials  \* what is tried: codec (checked), the code points texts are made of
          \* (sample), how long they are (length), trits changed (changes)

(* Unicode scalar values: what a rune of a .NET string, and Rune.IsValid,  *)
(* can be.                                                                 *)
LastScalar == 1114111
IsScalar(cp) == cp \in 0..LastScalar /\ ~(cp \in 55296..57343)

ASSUME ConstantsAssumption ==
  \A t \in Trials :
    /\ t.checked \in BOOLEAN /\ \A cp \in t.sample : IsScalar(cp)
    /\ t.length \in Nat /\ t.changes \in Nat

-----------------------------------------------------------------------------
(* The layout of a symbol of n trytes: markers, payload, check trit.       *)

CheckTrits(checked) == IF checked THEN 1 ELSE 0

Marker(n, k) ==
  CASE k = 1             -> [j \in 1..n |-> IF j = n THEN -1 ELSE 1]
    [] k > 1 /\ k = n    -> <<-1>>
    [] n = 4 /\ k = 2    -> <<0, 0>>
    [] OTHER             -> <<0>>

Room(checked, n, k) ==
  TryteLength - Len(Marker(n, k)) - (IF k = 1 THEN CheckTrits(checked) ELSE 0)
RoomUpTo(checked, n, last) ==
  LET room[k \in 0..last] == IF k = 0 THEN 0 ELSE room[k - 1] + Room(checked, n, k)
  IN  room[last]

(* The code points of each form.                                           *)
MinCp(checked) ==
  IF checked THEN <<0, 0, 6561, 538002>> ELSE <<0, 126, 19809, 1614132>>
MaxCp(checked) ==
  IF checked THEN <<125, 6560, 538001, 14886908>>
             ELSE <<125, 19808, 1614131, 44660852>>

-----------------------------------------------------------------------------
(* The check trit makes the sum of all trits of a symbol divisible by 3.   *)

ComputeCrcBalanced(partialSum) == <<0, 1, -1>>[((-partialSum) % 3) + 1]

SymbolSum(symbol) ==
  LET sum[k \in 0..Len(symbol)] == IF k = 0 THEN 0 ELSE sum[k - 1] + BalancedSum(symbol[k])
  IN  sum[Len(symbol)]

(* The trit is computed with a zero in its place.                          *)
WithCheckTrit(checked, symbol) ==
  IF checked
  THEN LET blank == [symbol EXCEPT ![1] = Append(@, 0)]
       IN  [blank EXCEPT ![1][TryteLength] = ComputeCrcBalanced(SymbolSum(blank))]
  ELSE symbol

-----------------------------------------------------------------------------
(* One-tryte symbols: the patterns that are no lead, in ascending order,   *)
(* are assigned to code points 0 to 125, or to the 42 of charTC_u8.        *)

SingleChars(checked) ==
  LET UpTo(a, b) == [i \in 1..(b - a + 1) |-> a + i - 1]
  IN  IF checked
      THEN <<0, 9, 10, 13, 32>> \o UpTo(97, 122) \o UpTo(48, 57) \o <<46>>
      ELSE UpTo(0, 125)

SingleTryteTable ==
  [checked \in BOOLEAN |->
     LET count == TryteLength - 1 - CheckTrits(checked)
         Pattern(raw) == <<1>> \o ExtractTrits(raw, count)
         free == {raw \in 0..(IF checked THEN 80 ELSE 242) : GetRole(Pattern(raw)) = "single"}
         Rank(raw) == Cardinality({r \in free : r <= raw})
     IN  {[cp |-> SingleChars(checked)[Rank(raw)],
           tryte |-> WithCheckTrit(checked, <<Pattern(raw)>>)[1]] : raw \in free}]

IsSingle(checked, cp) == \E entry \in SingleTryteTable[checked] : entry.cp = cp

-----------------------------------------------------------------------------
(* Encoding. *)

(* Mutant of CpFormLength: a form's last code point counted to the next.   *)
LastInNextForm(checked, cp) ==
  LET last == MaxCp(checked)
  IN  IF IsSingle(checked, cp) THEN 1
      ELSE CHOOSE n \in 2..4 : cp < last[n] /\ (n > 2 => cp >= last[n - 1])

(* The minimal form of a code point.                                       *)
CpFormLength(checked, cp) ==
  IF IsSingle(checked, cp) THEN 1
  ELSE CHOOSE n \in 2..4 : cp \in MinCp(checked)[n]..MaxCp(checked)[n]

EncodeForm(checked, n, offset) ==
  LET payload == ExtractTrits(offset, RoomUpTo(checked, n, n))
      Slice(k) == SubSeq(payload, RoomUpTo(checked, n, k - 1) + 1, RoomUpTo(checked, n, k))
  IN  WithCheckTrit(checked, [k \in 1..n |-> Marker(n, k) \o Slice(k)])

EncodeCodePoint(checked, cp) ==
  LET n == CpFormLength(checked, cp)
  IN  IF n = 1
      THEN <<(CHOOSE entry \in SingleTryteTable[checked] : entry.cp = cp).tryte>>
      ELSE EncodeForm(checked, n, cp - MinCp(checked)[n])

(* One line per symbol.                                                    *)
Encode(checked, cps) == [n \in DOMAIN cps |-> EncodeCodePoint(checked, cps[n])]

(* TokenizeTrytes: line breaks do not matter.                              *)
Joined(symbols) ==
  LET joined[n \in 0..Len(symbols)] == IF n = 0 THEN <<>> ELSE joined[n - 1] \o symbols[n]
  IN  joined[Len(symbols)]

-----------------------------------------------------------------------------
(* Decoding of one symbol. *)

SequenceLength(tryte) ==
  LET role == GetRole(tryte)
  IN  CASE role = "single" -> 1 [] role = "lead2" -> 2 [] role = "lead3" -> 3
        [] role = "lead4" -> 4  [] OTHER -> 0

(* Mutant of ContinuationsValid: the loop stops before the last tryte.     *)
FinalUnchecked(symbol) ==
  \A k \in 2..(Len(symbol) - 1) : GetRole(symbol[k]) \in {"middle1", "middle2"}

(* Either middle role is taken at either middle position.                  *)
ContinuationsValid(symbol) ==
  \A k \in 2..Len(symbol) :
    GetRole(symbol[k]) \in (IF k = Len(symbol) THEN {"final"} ELSE {"middle1", "middle2"})

(* Mutant of CrcHolds: longer symbols are not checked.                     *)
CrcOfOneTryte(checked, symbol) == checked /\ Len(symbol) = 1 => SymbolSum(symbol) % 3 = 0

CrcHolds(checked, symbol) == checked => SymbolSum(symbol) % 3 = 0

Payload(checked, symbol) ==
  LET n == Len(symbol)
      Slice(k) == SubSeq(symbol[k], Len(Marker(n, k)) + 1, Len(Marker(n, k)) + Room(checked, n, k))
  IN  Joined([k \in 1..n |-> Slice(k)])

(* A one-tryte pattern that is not in the table is an exception, which     *)
(* charTC_u8 catches; charT_u8's table holds every such pattern.           *)
KnownPattern(checked, tryte) ==
  \E entry \in SingleTryteTable[checked] : entry.tryte = tryte

DecodeCodePoint(checked, symbol) ==
  IF Len(symbol) = 1
  THEN (CHOOSE entry \in SingleTryteTable[checked] : entry.tryte = symbol[1]).cp
  ELSE MinCp(checked)[Len(symbol)] + PayloadToOffset(Payload(checked, symbol))

(* Mutant of Accepted: no over-long check.                                 *)
OverLongAccepted(checked, symbol) ==
  /\ Len(symbol) = 1 /\ checked => KnownPattern(checked, symbol[1])
  /\ LET cp == DecodeCodePoint(checked, symbol)
     IN  /\ Len(symbol) > 1 => cp <= MaxCp(checked)[Len(symbol)]
         /\ IsScalar(cp)

(* Over-long forms, code points out of the form's range, and values that   *)
(* are no Unicode scalar are rejected.                                     *)
Accepted(checked, symbol) ==
  /\ Len(symbol) = 1 /\ checked => KnownPattern(checked, symbol[1])
  /\ LET cp == DecodeCodePoint(checked, symbol)
     IN  /\ Len(symbol) > 1 => ~IsSingle(checked, cp) /\ cp <= MaxCp(checked)[Len(symbol)]
         /\ IsScalar(cp)

-----------------------------------------------------------------------------
VARIABLES
  trial,      \* the codec, and the bounds of this trial
  text,       \* the code points that were encoded
  lines,      \* the encoded text, a line for each symbol, as it arrives
  trytes,     \* what TokenizeTrytes makes of it
  changes,    \* trits changed on the way
  hit,        \* the symbols that were damaged
  lost,       \* "nothing", "tryte" or "trit": what was lost on the way
  pc,         \* "transit", "decode", "done"
  i,          \* Decode's index
  output, errors

vars == <<trial, text, lines, trytes, changes, hit, lost, pc, i, output, errors>>

Init ==
  /\ trial \in Trials
  /\ text \in BoundedSeq(trial.sample, trial.length)
  /\ lines = Encode(trial.checked, text) /\ trytes = <<>>
  /\ changes = 0 /\ hit = {} /\ lost = "nothing"
  /\ pc = "transit" /\ i = 1 /\ output = <<>> /\ errors = <<>>

(* Transit: a trit is misread, a tryte or a trit is left out.              *)
ChangeTrit(n, k, j, t) ==
  /\ pc = "transit" /\ lost = "nothing" /\ changes < trial.changes
  /\ lines[n][k][j] # t
  /\ lines' = [lines EXCEPT ![n][k][j] = t]
  /\ changes' = changes + 1 /\ hit' = hit \cup {n}
  /\ UNCHANGED <<trial, text, trytes, lost, pc, i, output, errors>>

LoseTryte(n, k) ==
  /\ pc = "transit" /\ lost = "nothing" /\ changes = 0
  /\ lines' = [lines EXCEPT ![n] = RemoveAt(@, k)]
  /\ lost' = "tryte" /\ hit' = {n}
  /\ UNCHANGED <<trial, text, trytes, changes, pc, i, output, errors>>

LoseTrit(n) ==
  /\ pc = "transit" /\ lost = "nothing" /\ changes = 0
  /\ lost' = "trit" /\ hit' = {n}
  /\ UNCHANGED <<trial, text, lines, trytes, changes, pc, i, output, errors>>

(* TokenizeTrytes: one line that is no whole number of trytes fails it all.*)
Tokenize ==
  /\ pc = "transit"
  /\ IF lost = "trit"
     THEN /\ pc' = "done" /\ errors' = <<[at |-> 0, why |-> "format"]>>
          /\ UNCHANGED trytes
     ELSE pc' = "decode" /\ trytes' = Joined(lines) /\ UNCHANGED errors
  /\ UNCHANGED <<trial, text, lines, changes, hit, lost, i, output>>

-----------------------------------------------------------------------------
(* One iteration of Decode's loop each. *)

Report(why) == errors' = Append(errors, [at |-> i, why |-> why])

AtTryte == pc = "decode" /\ i <= Len(trytes)
Expected == SequenceLength(trytes[i])
Symbol == SubSeq(trytes, i, i + Expected - 1)

SkipContinuation ==
  /\ AtTryte /\ Expected = 0
  /\ Report("continuation") /\ i' = i + 1
  /\ UNCHANGED <<trial, text, lines, trytes, changes, hit, lost, pc, output>>

(* Mutant of IncompleteSequence: it skips what a complete one would take.  *)
IncompleteRunsOn ==
  /\ AtTryte /\ i + Expected - 1 > Len(trytes)
  /\ Report("incomplete") /\ i' = i + Expected
  /\ UNCHANGED <<trial, text, lines, trytes, changes, hit, lost, pc, output>>

(* The rest of the input is consumed, whatever it is.                      *)
IncompleteSequence ==
  /\ AtTryte /\ i + Expected - 1 > Len(trytes)
  /\ Report("incomplete") /\ i' = Len(trytes) + 1
  /\ UNCHANGED <<trial, text, lines, trytes, changes, hit, lost, pc, output>>

Complete == AtTryte /\ Expected > 0 /\ i + Expected - 1 <= Len(trytes)

(* Mutant of UnexpectedRole: the whole sequence is skipped.                *)
SkipsSequence ==
  /\ Complete /\ ~ContinuationsValid(Symbol)
  /\ Report("role") /\ i' = i + Expected
  /\ UNCHANGED <<trial, text, lines, trytes, changes, hit, lost, pc, output>>

UnexpectedRole ==
  /\ Complete /\ ~ContinuationsValid(Symbol)
  /\ Report("role") /\ i' = i + 1
  /\ UNCHANGED <<trial, text, lines, trytes, changes, hit, lost, pc, output>>

(* A failed check is reported, and the symbol decoded all the same.        *)
CrcErrors == IF CrcHolds(trial.checked, Symbol) THEN <<>> ELSE <<[at |-> i, why |-> "crc"]>>

RejectSymbol ==
  /\ Complete /\ ContinuationsValid(Symbol) /\ ~Accepted(trial.checked, Symbol)
  /\ errors' = errors \o CrcErrors \o <<[at |-> i, why |-> "rejected"]>>
  /\ i' = i + Expected
  /\ UNCHANGED <<trial, text, lines, trytes, changes, hit, lost, pc, output>>

AppendRune ==
  /\ Complete /\ ContinuationsValid(Symbol) /\ Accepted(trial.checked, Symbol)
  /\ errors' = errors \o CrcErrors
  /\ output' = Append(output, DecodeCodePoint(trial.checked, Symbol))
  /\ i' = i + Expected
  /\ UNCHANGED <<trial, text, lines, trytes, changes, hit, lost, pc>>

EndOfInput ==
  /\ pc = "decode" /\ i > Len(trytes) /\ pc' = "done"
  /\ UNCHANGED <<trial, text, lines, trytes, changes, hit, lost, i, output, errors>>

Finished == pc = "done" /\ UNCHANGED vars

Transit ==
  \E n \in DOMAIN lines :
    \/ \E k \in DOMAIN lines[n] :
         \/ \E j \in 1..TryteLength, t \in Trit : ChangeTrit(n, k, j, t)
         \/ LoseTryte(n, k)
    \/ LoseTrit(n)

DecodeStep ==
  \/ SkipContinuation \/ IncompleteSequence \/ UnexpectedRole
  \/ RejectSymbol \/ AppendRune \/ EndOfInput

Next == Transit \/ Tokenize \/ DecodeStep \/ Finished

Spec == Init /\ [][Next]_vars

-----------------------------------------------------------------------------
(* Properties. *)

(* Every iteration stays inside the input, and what it puts out is text.   *)
TypeOK ==
  /\ \A p \in DOMAIN trytes : trytes[p] \in Tryte
  /\ trial \in Trials /\ changes \in 0..trial.changes /\ hit \subseteq DOMAIN text
  /\ pc \in {"transit", "decode", "done"} /\ i \in 1..(Len(trytes) + 1)
  /\ \A n \in DOMAIN output : IsScalar(output[n])
  /\ \A n \in DOMAIN errors : errors[n].at \in 0..Len(trytes)

(* Decode gives back the text Encode was given, at the first and last code *)
(* point of every form and wherever the forms meet.                        *)
RoundTrip == pc = "done" /\ hit = {} => output = text /\ errors = <<>>

(* A tryte missing from a longer symbol never goes unnoticed.              *)
LossReported ==
  pc = "done" /\ lost = "tryte" /\ (\E s \in hit : Len(EncodeCodePoint(trial.checked, text[s])) > 1)
    => errors # <<>>

(* Damage to one symbol spares every other: what precedes it is decoded,   *)
(* and what follows it too, unless less than a symbol's length follows.    *)
DamagedOne == pc = "done" /\ lost # "trit" /\ Cardinality(hit) = 1
Before == SubSeq(text, 1, (CHOOSE s \in hit : TRUE) - 1)
After  == SubSeq(text, (CHOOSE s \in hit : TRUE) + 1, Len(text))
DamageIsLocal ==
  DamagedOne => IsPrefix(Before, output) /\ (IsSuffix(After, output) \/ Len(Joined(Encode(trial.checked, After))) <= 2)

(* The same without the exception, as the codec's comment has it: "The     *)
(* decoder self-synchronizes after errors: it skips to the next '+'-leading*)
(* tryte and continues."                                                   *)
SelfSynchronizing == DamagedOne => IsSuffix(After, output)

(* charTC_u8 reports every single misread trit, also one in a marker that  *)
(* makes the decoder see other symbols than were sent.                     *)
SingleErrorReported == trial.checked /\ pc = "done" /\ changes = 1 => errors # <<>>

(* Input that is decoded without an error is what Encode makes of the      *)
(* output: no text has two clean encodings, except that the second trit of *)
(* a four-tryte symbol's second tryte is read as neither role nor payload, *)
(* only into the sum the check trit completes.                             *)
Canonical ==
  pc = "done" /\ errors = <<>> =>
    LET clean == Joined(Encode(trial.checked, output))
    IN  /\ Len(trytes) = Len(clean)
        /\ \A p \in DOMAIN clean, j \in 1..TryteLength :
             \/ trytes[p][j] = clean[p][j]
             \/ j = 2 /\ p > 1 /\ GetRole(clean[p - 1]) = "lead4"
             \/ j = TryteLength /\ GetRole(clean[p]) = "lead4"
=============================================================================
