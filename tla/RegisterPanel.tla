---------------------------- MODULE RegisterPanel ----------------------------
(***************************************************************************)
(* The registers of a halted target as the editor shows them and lets the  *)
(* user change them: the wire carries integers, TritFormat renders them in *)
(* the format of the session and reads what the user types, whose form     *)
(* alone tells trits from hexadecimal and decimal. The stub keeps any      *)
(* integer of the wire that it is sent, or refuses to.                     *)
(***************************************************************************)
EXTENDS RadixConverter

CONSTANTS
  Registers,      \* names of registers
  WordSizeTrits,  \* trits of a register (24)
  WireBits,       \* bits of a value on the wire (64)
  Left,           \* words the program leaves in registers
  Typed           \* texts the user types

FitsWord(value) == 2 * Magnitude(value) < Power(3, WordSizeTrits)

ASSUME PanelAssumption ==
  /\ WordSizeTrits \in Nat \ {0, 1} /\ WireBits \in Nat \ {0} /\ WireBits % 4 = 0
  /\ Power(3, WordSizeTrits) <= Power(2, WireBits)
  /\ \A word \in Left : word \in Int /\ FitsWord(word)
  /\ \A text \in Typed : text \in Seq(Characters)

VARIABLES
  registers,  \* the stub's registers
  format,     \* _format
  panel,      \* what the editor shows of them; Hidden before it asks, Thrown if it failed
  answer      \* of the last setVariable: "none", "done", "failed"

panelVars == <<registers, format, panel, answer>>

Wire == -Power(2, WireBits - 1)..Power(2, WireBits - 1) - 1

-----------------------------------------------------------------------------
(* TritFormat.                                                             *)

Hidden == <<>>
LowerX == 59
UpperX == 33
HexPrefix == <<0, LowerX>>

WordOptions == [lsdFirst |-> FALSE, input |-> 0, output |-> WordSizeTrits]
ToTrits(value) == Format(value, "Base3Balanced", WordOptions)

(* {value:x}: the digits of the wire's bits, in lower case.                *)
ToHex(value) ==
  LET digits == Expand(value % Power(2, WireBits), 16)
  IN  [k \in DOMAIN digits |-> IF digits[k] < 10 THEN digits[k] ELSE digits[k] + 26]

(* Trits are followed by the number: " = " and its decimal.                *)
Equals == <<Foreign, Foreign, Foreign>>
Render(value, as) ==
  CASE as = "trits" -> IF ToTrits(value) = Thrown THEN Thrown
                       ELSE ToTrits(value) \o Equals \o Formatted(value, "Base10")
    [] as = "hex" -> (IF value < 0 THEN <<Minus>> ELSE <<>>) \o HexPrefix
                       \o ToHex(IF value < 0 THEN -value ELSE value)
    [] as = "decimal" -> Formatted(value, "Base10")

NotAValue == Power(2, WireBits)
OnWire(value) == IF value \in Wire THEN value ELSE NotAValue

(* A sign other than a leading minus makes a text of more than one         *)
(* character trits, and so does a leading plus.                            *)
IsTrits(text) ==
  \/ Len(text) > 1 /\ \E k \in (IF text[1] = Minus THEN 2 ELSE 1)..Len(text) : text[k] \in {Plus, Minus}
  \/ text[1] = Plus

HasHexPrefix(text) == Len(text) >= 2 /\ text[1] = 0 /\ text[2] \in {LowerX, UpperX}

(* As many digits as the wire has bits for, and its top bit is the sign.   *)
ParseHex(digits) ==
  IF ~HasDigits(digits, "Base16Unsigned") \/ Parse(digits, "Base16Unsigned") >= Power(2, WireBits)
  THEN NotAValue
  ELSE LET bits == Parse(digits, "Base16Unsigned")
       IN  IF bits < Power(2, WireBits - 1) THEN bits ELSE bits - Power(2, WireBits)

(* -value of a long: that of the least one is itself.                      *)
Negate(value) ==
  IF value \in {NotAValue, -Power(2, WireBits - 1)} THEN value ELSE -value

(* Mutant of TryParseValue: a minus before 0x is read and forgotten.       *)
ForgetsHexSign(text) ==
  CASE text = <<>> -> NotAValue
    [] text # <<>> /\ IsTrits(text) ->
         IF Parses(text, "Base3Balanced") THEN OnWire(Parse(text, "Base3Balanced")) ELSE NotAValue
    [] text # <<>> /\ ~IsTrits(text) /\ HasHexPrefix(Unsign(text)) ->
         ParseHex(Tail(Tail(Unsign(text))))
    [] OTHER -> IF Parses(text, "Base10") THEN OnWire(Parse(text, "Base10")) ELSE NotAValue

TryParseValue(text) ==
  CASE text = <<>> -> NotAValue
    [] text # <<>> /\ IsTrits(text) ->
         IF Parses(text, "Base3Balanced") THEN OnWire(Parse(text, "Base3Balanced")) ELSE NotAValue
    [] text # <<>> /\ ~IsTrits(text) /\ HasHexPrefix(text) -> ParseHex(SubSeq(text, 3, Len(text)))
    [] text # <<>> /\ ~IsTrits(text) /\ text[1] = Minus /\ HasHexPrefix(Tail(text)) ->
         Negate(ParseHex(SubSeq(text, 4, Len(text))))
    [] OTHER -> IF Parses(text, "Base10") THEN OnWire(Parse(text, "Base10")) ELSE NotAValue

-----------------------------------------------------------------------------
PanelInit ==
  /\ registers = [r \in Registers |-> 0]
  /\ format = "trits" /\ panel = [r \in Registers |-> Hidden] /\ answer = "none"

PanelTypeOK ==
  /\ DOMAIN registers = Registers /\ \A r \in Registers : registers[r] \in Wire
  /\ format \in {"trits", "decimal", "hex"} /\ DOMAIN panel = Registers
  /\ answer \in {"none", "done", "failed"}

(* The target runs: it leaves words in its registers, and the editor asks  *)
(* again.                                                                  *)
TargetRuns ==
  /\ \E values \in [Registers -> Left] : registers' = values
  /\ panel' = [r \in Registers |-> Hidden]
  /\ answer' = "none" /\ UNCHANGED format

(* "format trits|decimal|hex" in the debug console; "registerFormat" of    *)
(* the launch configuration is as if it came first.                        *)
SetFormat == \E f \in {"trits", "decimal", "hex"} :
  /\ f # format /\ format' = f /\ UNCHANGED <<registers, panel, answer>>

(* All registers are rendered, or none.                                    *)
HandleVariables ==
  /\ panel' = IF \E r \in Registers : Render(registers[r], format) = Thrown
              THEN [r \in Registers |-> Thrown]
              ELSE [r \in Registers |-> Render(registers[r], format)]
  /\ panel' # panel
  /\ UNCHANGED <<registers, format, answer>>

(* What a user can type: anything, or what the panel shows, of trits the   *)
(* part before the number.                                                 *)
Shown(text) ==
  IF \E k \in DOMAIN text : text[k] = Foreign THEN SubSeq(text, 1, WordSizeTrits) ELSE text

Visible(register) == panel[register] \notin {Hidden, Thrown}

(* Mutant of HandleSetVariable: what does not parse is written as 0.       *)
WritesUnparsed(register, text) ==
  LET value == IF TryParseValue(text) = NotAValue THEN 0 ELSE TryParseValue(text)
  IN  /\ Visible(register)
      /\ registers' = [registers EXCEPT ![register] = value]
      /\ answer' = IF TryParseValue(text) = NotAValue THEN "failed" ELSE "done"
      /\ panel' = [panel EXCEPT ![register] = Hidden] /\ UNCHANGED format

(* The write comes before the rendering of the answer, which may throw.    *)
HandleSetVariable(register, text) ==
  LET value == TryParseValue(text)
      shown == Render(value, format)
  IN  /\ Visible(register) /\ UNCHANGED format
      /\ \/ /\ value = NotAValue \/ ~FitsWord(value)  \* the stub may refuse the latter
            /\ answer' = "failed" /\ UNCHANGED <<registers, panel>>
         \/ /\ value # NotAValue
            /\ registers' = [registers EXCEPT ![register] = value]
            /\ answer' = IF shown = Thrown THEN "failed" ELSE "done"
            /\ panel' = IF shown = Thrown THEN panel ELSE [panel EXCEPT ![register] = shown]

PanelNext ==
  \/ SetFormat \/ HandleVariables
  \/ \E r \in Registers :
       \/ \E text \in Typed : HandleSetVariable(r, text)
       \/ \E q \in Registers : Visible(q) /\ HandleSetVariable(r, Shown(panel[q]))

-----------------------------------------------------------------------------
(* Properties.                                                             *)

(* The panel and the stub agree: what is shown of a register, typed again, *)
(* is the value the stub holds, in every format and after any sequence of  *)
(* writes; and only a value wider than a word makes the panel fail         *)
(* (TritFormat.cs:25-73, DebugSession.cs:380-400, 436-459). Excepted are   *)
(* the word -3^(WordSizeTrits - 1), shown in trits as a minus and zeros    *)
(* and read as the decimal 0, and a register in which a write that was     *)
(* answered as failed has left a value wider than a word.                  *)
ShownReadsBack ==
  \A r \in Registers :
    LET read == TryParseValue(Shown(panel[r]))
    IN  /\ Visible(r) => \/ read = registers[r]
                         \/ ~FitsWord(registers[r])
                         \/ registers[r] = -Power(3, WordSizeTrits - 1) /\ read = 0
        /\ panel[r] = Thrown => \E q \in Registers : ~FitsWord(registers[q])

(* A write that is answered as failed leaves the registers alone, unless   *)
(* the value is wider than a word and the format is trits: then it stands, *)
(* and it is the answer that failed (DebugSession.cs:454-458).             *)
FailedWriteIsWide ==
  [][(registers' # registers /\ answer' = "failed") =>
       format = "trits" /\ \E r \in Registers : ~FitsWord(registers'[r])]_panelVars
=============================================================================
