-------------------------- MODULE ProgramAssembler6 --------------------------
(***************************************************************************)
(* REBEL-6 assembly (RebelAssembler/Assembly: ProgramAssembler6.cs and the *)
(* operand encoders of InstructionEncoder6.cs): the lines of a source are  *)
(* parsed, the data image is laid out after the instruction image, and     *)
(* instructions and data are encoded with the labels' final values.        *)
(*                                                                         *)
(* The source is not given in advance: each parsing action takes any line  *)
(* of Lines as the next. A line that carries a label and a statement is    *)
(* two lines here. A mnemonic is abstracted to the fields its pattern      *)
(* gives its label-valued operands; register operands, func and opcode     *)
(* select nothing and are left out. A trit string of six trits is one      *)
(* digit, of value -TryteMax..TryteMax.                                    *)
(***************************************************************************)
EXTENDS Integers, Sequences, FiniteSets

CONSTANTS
  Lines,                \* source lines a program is made of
  CsrNumber,            \* InstructionSet6.CsrNames: name to number
  RegisterNumber,       \* InstructionSet6.RegisterDictionary: name to number
  TryteMax,             \* largest value of six trits (364)
  PageInstructionCount, \* instructions of a ROM page (729)
  MaxLines              \* lines of a source (bound)

WordTrytes == 4
InstructionWidth == 32
Base == 2 * TryteMax + 1
Displacement6Max == TryteMax
Displacement12Max == (Base^2 - 1) \div 2
WordMax == (Base^4 - 1) \div 2

(* Fields: the wide displacement of a two-way branch, any other wide       *)
(* immediate, a three-way branch offset, any other six-trit slot, the long *)
(* immediate of JAL.T and AIPC.T, and of LI.T, LWA.T and SWA.T.            *)
Wide == {"branch12", "value12"}
PcRelative == {"branch12", "off6", "pcrel24"}
Field == Wide \cup {"off6", "slot6", "pcrel24", "abs24"}

Tryte == -TryteMax..TryteMax
Token == [kind : {"name"}, name : STRING]
         \cup [kind : {"number"}, value : Int]
         \cup [kind : {"trits"}, trytes : Seq(Tryte)]
Operands == Seq([field : Field, token : Token])
Line == [kind : {"label"}, name : STRING]
        \cup [kind : {".text", ".data", "malformed"}]
        \cup [kind : {".word"}, token : Token]
        \cup [kind : {".zero"}, count : Int]
        \cup [kind : {"instruction"}, operands : Operands]

ParsedDatum == [directive : {".word", ".zero"}, operand : Token,
                offset : Nat, size : Nat \ {0}]

ASSUME ConstantsAssumption ==
  /\ Lines \subseteq Line
  /\ TryteMax \in Nat \ {0}
  /\ PageInstructionCount \in 1..Base
  /\ MaxLines \in Nat
  /\ \A n \in DOMAIN CsrNumber : CsrNumber[n] \in -Displacement12Max..Displacement12Max
  /\ \A n \in DOMAIN RegisterNumber : RegisterNumber[n] \in Tryte

VARIABLES
  pc,            \* "parse", "instructions", "data", "done" or "failed"
  source,        \* the lines read so far
  inData, dataOffset, labels, instructions, data,   \* ParseProgram
  dataBase, finalLabels, code, memory               \* Assemble

parsing == <<inData, dataOffset, labels, instructions, data>>
layout == <<dataBase, finalLabels>>
vars == <<pc, source, parsing, layout, code, memory>>

-----------------------------------------------------------------------------
(* ToBalancedTernaryN(value, 6 * count), most significant tryte first.     *)

Shifted(value, count) ==
  LET rest[j \in 0..count] == IF j = 0 THEN value ELSE (rest[j - 1] + TryteMax) \div Base
  IN  rest[count]

ToBalancedTernary(value, count) ==
  [j \in 1..count |-> ((Shifted(value, count - j) + TryteMax) % Base) - TryteMax]

(* The sets below hold the encoding of an operand, or nothing if the code  *)
(* throws.                                                                 *)
(* Mutant of Encoded: what is left over is not looked at.                 *)
TruncatedEncoded(value, count) == {ToBalancedTernary(value, count)}

Encoded(value, count) ==
  {ToBalancedTernary(v, count) : v \in {v \in {value} : Shifted(v, count) = 0}}

InRange(value, max, count) == IF value \in -max..max THEN Encoded(value, count) ELSE {}

Literal(token, max, count) ==
  CASE token.kind = "trits" /\ Len(token.trytes) = count -> {token.trytes}
    [] token.kind = "number"                             -> InRange(token.value, max, count)
    [] OTHER                                             -> {}

Names(token, table) == token.kind = "name" /\ token.name \in DOMAIN table

ParseWide12(token, current) ==
  IF Names(token, CsrNumber) THEN Encoded(CsrNumber[token.name], 2)
  ELSE IF Names(token, finalLabels)
  THEN LET label == finalLabels[token.name]
       IN  InRange(IF label.isData THEN label.index ELSE label.index - current,
                   Displacement12Max, 2)
  ELSE Literal(token, Displacement12Max, 2)

(* AddressSpace: the address of a slot of the page.                        *)
AddressSpace(index) == index - TryteMax

ParseOperand(token, isBranchOffset, current) ==
  IF Names(token, finalLabels)
  THEN LET label == finalLabels[token.name]
       IN  CASE label.isData -> {}
             [] ~label.isData /\ isBranchOffset ->
                  InRange(label.index - current, Displacement6Max, 1)
             [] OTHER ->
                  IF label.index \in 0..(PageInstructionCount - 1)
                  THEN {<<AddressSpace(label.index)>>} ELSE {}
  ELSE IF Names(token, RegisterNumber) THEN {<<RegisterNumber[token.name]>>}
  ELSE Literal(token, Displacement6Max, 1)

ParseLongImmediate(token, pcRelative, current) ==
  IF Names(token, finalLabels)
  THEN LET label == finalLabels[token.name]
       IN  CASE pcRelative /\ label.isData  -> {}
             [] pcRelative /\ ~label.isData -> Encoded(label.index - current, 4)
             [] OTHER                       -> Encoded(label.index, 4)
  ELSE Literal(token, WordMax, 4)

ParseField(operand, current) ==
  CASE operand.field \in Wide              -> ParseWide12(operand.token, current)
    [] operand.field \in {"off6", "slot6"} ->
         ParseOperand(operand.token, operand.field = "off6", current)
    [] OTHER                               ->
         ParseLongImmediate(operand.token, operand.field = "pcrel24", current)

(* The encodings of all operands of the instruction, or nothing.           *)
Translate(operands, current) ==
  IF \A k \in DOMAIN operands : ParseField(operands[k], current) # {}
  THEN {[k \in DOMAIN operands |-> CHOOSE e \in ParseField(operands[k], current) : TRUE]}
  ELSE {}

Reverse4(trytes) == [j \in 1..WordTrytes |-> trytes[WordTrytes + 1 - j]]

(* The trytes of a datum, lowest address first, or nothing.                *)
DatumTrytes(datum) ==
  IF datum.directive = ".zero" THEN {[j \in 1..datum.size |-> 0]}
  ELSE {Reverse4(word) : word \in
          IF Names(datum.operand, finalLabels)
          THEN Encoded(finalLabels[datum.operand.name].index, WordTrytes)
          ELSE IF datum.operand.kind = "number"
          THEN Encoded(datum.operand.value, WordTrytes) ELSE {}}

-----------------------------------------------------------------------------
(* ParseProgram: one line per action. An exception abandons everything.    *)

Init ==
  /\ pc = "parse"
  /\ source = <<>>
  /\ inData = FALSE /\ dataOffset = 0
  /\ labels = [n \in {} |-> 0] /\ instructions = <<>> /\ data = <<>>
  /\ dataBase = 0 /\ finalLabels = [n \in {} |-> 0]
  /\ code = <<>> /\ memory = <<>>

Read(line) ==
  /\ pc = "parse" /\ Len(source) < MaxLines
  /\ source' = Append(source, line)
  /\ UNCHANGED <<layout, code, memory>>

Throw == pc' = "failed" /\ UNCHANGED parsing

BindLabel == \E line \in Lines :
  /\ line.kind = "label"
  /\ line.name \notin DOMAIN RegisterNumber
  /\ line.name \notin DOMAIN labels
  /\ Read(line)
  /\ labels' = [n \in DOMAIN labels \cup {line.name} |->
                  IF n \in DOMAIN labels THEN labels[n]
                  ELSE [index |-> IF inData THEN dataOffset ELSE Len(instructions),
                        isData |-> inData]]
  /\ UNCHANGED <<pc, inData, dataOffset, instructions, data>>

RejectLabel == \E line \in Lines :
  /\ line.kind = "label"
  /\ line.name \in DOMAIN RegisterNumber \cup DOMAIN labels
  /\ Read(line) /\ Throw

Section == \E line \in Lines :
  /\ line.kind \in {".text", ".data"}
  /\ Read(line)
  /\ inData' = (line.kind = ".data")
  /\ UNCHANGED <<pc, dataOffset, labels, instructions, data>>

(* Mutant of AddDatum: every datum advances the counter by a word.        *)
AddDatumOfWord(directive, operand, size) ==
  /\ data' = Append(data, [directive |-> directive, operand |-> operand,
                           offset |-> dataOffset, size |-> size])
  /\ dataOffset' = dataOffset + WordTrytes
  /\ UNCHANGED <<pc, inData, labels, instructions>>

AddDatum(directive, operand, size) ==
  /\ data' = Append(data, [directive |-> directive, operand |-> operand,
                           offset |-> dataOffset, size |-> size])
  /\ dataOffset' = dataOffset + size
  /\ UNCHANGED <<pc, inData, labels, instructions>>

Word == \E line \in Lines :
  /\ line.kind = ".word" /\ inData
  /\ Read(line)
  /\ AddDatum(".word", line.token, WordTrytes)

(* The operand of a .zero is read as its count; it plays no later part.    *)
Zero == \E line \in Lines :
  /\ line.kind = ".zero" /\ inData /\ line.count > 0
  /\ Read(line)
  /\ AddDatum(".zero", [kind |-> "number", value |-> line.count], line.count)

RejectData == \E line \in Lines :
  /\ line.kind \in {".word", ".zero"}
  /\ ~inData \/ (line.kind = ".zero" /\ line.count <= 0)
  /\ Read(line) /\ Throw

(* Mutant of Instruction: the page is checked before the line is added.  *)
LatePageCheck == \E line \in Lines :
  /\ line.kind = "instruction" /\ ~inData
  /\ Len(instructions) <= PageInstructionCount
  /\ Read(line)
  /\ instructions' = Append(instructions, line.operands)
  /\ UNCHANGED <<pc, inData, dataOffset, labels, data>>

Instruction == \E line \in Lines :
  /\ line.kind = "instruction" /\ ~inData
  /\ Len(instructions) < PageInstructionCount
  /\ Read(line)
  /\ instructions' = Append(instructions, line.operands)
  /\ UNCHANGED <<pc, inData, dataOffset, labels, data>>

RejectInstruction == \E line \in Lines :
  /\ line.kind = "instruction"
  /\ inData \/ Len(instructions) = PageInstructionCount
  /\ Read(line) /\ Throw

(* No label, directive or number of operands the dialect knows.            *)
RejectLine == \E line \in Lines :
  /\ line.kind = "malformed"
  /\ Read(line) /\ Throw

-----------------------------------------------------------------------------
(* Assemble: the layout, then one instruction or datum per action.         *)

InstructionTrytes == (Len(instructions) * InstructionWidth + 5) \div 6

(* Mutant of EndOfSource: data labels keep their offsets.                 *)
LabelsNotMoved ==
  /\ pc = "parse"
  /\ pc' = "instructions"
  /\ dataBase' = InstructionTrytes + WordTrytes - (InstructionTrytes % WordTrytes)
  /\ finalLabels' = labels
  /\ UNCHANGED <<source, parsing, code, memory>>

EndOfSource ==
  /\ pc = "parse"
  /\ pc' = "instructions"
  /\ dataBase' = InstructionTrytes + WordTrytes - (InstructionTrytes % WordTrytes)
  /\ finalLabels' = [n \in DOMAIN labels |->
                       IF labels[n].isData
                       THEN [labels[n] EXCEPT !.index = @ + dataBase'] ELSE labels[n]]
  /\ UNCHANGED <<source, parsing, code, memory>>

NextInstruction == Translate(instructions[Len(code) + 1], Len(code))

EncodeInstruction ==
  /\ pc = "instructions" /\ Len(code) < Len(instructions)
  /\ \E fields \in NextInstruction :
       code' = Append(code, [address |-> AddressSpace(Len(code)), fields |-> fields])
  /\ UNCHANGED <<pc, source, parsing, layout, memory>>

InstructionsEncoded ==
  /\ pc = "instructions" /\ Len(code) = Len(instructions)
  /\ pc' = "data"
  /\ UNCHANGED <<source, parsing, layout, code, memory>>

NextDatum == data[Len(memory) + 1]

EncodeDatum ==
  /\ pc = "data" /\ Len(memory) < Len(data)
  /\ \E trytes \in DatumTrytes(NextDatum) :
       memory' = Append(memory, [address |-> dataBase + NextDatum.offset, trytes |-> trytes])
  /\ UNCHANGED <<pc, source, parsing, layout, code>>

DataEncoded ==
  /\ pc = "data" /\ Len(memory) = Len(data)
  /\ pc' = "done"
  /\ UNCHANGED <<source, parsing, layout, code, memory>>

RejectOperand ==
  /\ \/ pc = "instructions" /\ Len(code) < Len(instructions) /\ NextInstruction = {}
     \/ pc = "data" /\ Len(memory) < Len(data) /\ DatumTrytes(NextDatum) = {}
  /\ pc' = "failed"
  /\ UNCHANGED <<source, parsing, layout, code, memory>>

ParseLine ==
  \/ BindLabel \/ RejectLabel \/ Section \/ Word \/ Zero \/ RejectData
  \/ Instruction \/ RejectInstruction \/ RejectLine

Next ==
  \/ ParseLine \/ EndOfSource
  \/ EncodeInstruction \/ InstructionsEncoded
  \/ EncodeDatum \/ DataEncoded \/ RejectOperand

Spec == Init /\ [][Next]_vars

-----------------------------------------------------------------------------
(* What a reader of the source expects, computed from the lines alone.     *)

InDataAt(k) ==
  \E j \in 1..(k - 1) :
    source[j].kind = ".data" /\ \A l \in (j + 1)..(k - 1) : source[l].kind # ".text"
LinesBefore(kinds, k) == Cardinality({j \in 1..(k - 1) : source[j].kind \in kinds})
InstructionsBefore(k) == LinesBefore({"instruction"}, k)
DataBefore(k) == LinesBefore({".word", ".zero"}, k)

IsLabel(token) ==
  token.kind = "name"
  /\ \E k \in DOMAIN source : source[k].kind = "label" /\ source[k].name = token.name
Definition(name) ==
  CHOOSE k \in DOMAIN source : source[k].kind = "label" /\ source[k].name = name

(* The value of a sequence of trytes, most significant first.              *)
Value(trytes) ==
  LET value[j \in 0..Len(trytes)] == IF j = 0 THEN 0 ELSE Base * value[j - 1] + trytes[j]
  IN  value[Len(trytes)]

(* Where the datum that follows line k is, or would be.                    *)
DataAddress(k) ==
  LET n == DataBefore(k)
  IN  IF n < Len(memory) THEN memory[n + 1].address
      ELSE IF n = 0 THEN dataBase
      ELSE memory[n].address + Len(memory[n].trytes)

(* Value in the given field of instruction current refers to the label     *)
(* defined on line k.                                                      *)
RefersTo(field, value, current, k) ==
  LET target == InstructionsBefore(k)
  IN  IF InDataAt(k) THEN value = DataAddress(k)
      ELSE CASE field = "abs24" -> value = target
             [] field = "slot6" -> value = AddressSpace(target)
             [] OTHER           -> current + value = target

IsCsr(operand) == operand.field \in Wide /\ Names(operand.token, CsrNumber)

(* Every operand of every instruction line, with its encoding.             *)
EachOperand(P(_, _, _)) ==
  \A k \in DOMAIN source : source[k].kind = "instruction" =>
    LET current == InstructionsBefore(k)
    IN  \A o \in DOMAIN source[k].operands :
          P(source[k].operands[o], Value(code[current + 1].fields[o]), current)

EachWord(P(_, _)) ==
  \A k \in DOMAIN source : source[k].kind = ".word" =>
    P(source[k].token, Value(Reverse4(memory[DataBefore(k) + 1].trytes)))

-----------------------------------------------------------------------------
(* Properties.                                                             *)

(* The sections, labels and images are what ProgramAssembler6's locals can *)
(* hold; nothing is encoded before its section is parsed.                  *)
TypeOK ==
  /\ pc \in {"parse", "instructions", "data", "done", "failed"}
  /\ source \in Seq(Lines)
  /\ inData \in BOOLEAN /\ dataOffset \in Nat
  /\ labels \in [DOMAIN labels -> [index : Nat, isData : BOOLEAN]]
  /\ instructions \in Seq(Operands) /\ Len(instructions) <= PageInstructionCount
  /\ data \in Seq(ParsedDatum)
  /\ dataBase \in Nat
  /\ finalLabels \in [DOMAIN finalLabels -> [index : Nat, isData : BOOLEAN]]
  /\ Len(code) <= Len(instructions) /\ Len(memory) <= Len(data)

(* Labels of an assembled program, forward references and references from  *)
(* one section to another included, refer to what follows the label in the *)
(* source: ParseProgram's counters, the layout and the three operand       *)
(* encoders agree. A CSR name in a wide field is the CSR (ParseWide12).    *)
ReferencesResolve ==
  pc = "done" =>
    /\ EachOperand(LAMBDA operand, value, current :
         IF IsCsr(operand) THEN value = CsrNumber[operand.token.name]
         ELSE IsLabel(operand.token) =>
                RefersTo(operand.field, value, current, Definition(operand.token.name)))
    /\ EachWord(LAMBDA token, value :
         IsLabel(token) => RefersTo("abs24", value, 0, Definition(token.name)))

(* What an assembled program says in numbers is what its images hold: a    *)
(* field read most significant tryte first, a word read from memory least  *)
(* significant tryte first; nothing was truncated on the way.              *)
NumbersReadBack ==
  pc = "done" =>
    /\ EachOperand(LAMBDA operand, value, current :
         operand.token.kind = "number" => value = operand.token.value)
    /\ EachWord(LAMBDA token, value : token.kind = "number" => value = token.value)

(* The layout of Assemble: the data image starts on a word boundary above  *)
(* the last trit of the instruction image, and its data follow each other  *)
(* without gap or overlap.                                                 *)
ImagesDisjoint ==
  pc = "done" =>
    /\ dataBase % WordTrytes = 0
    /\ Len(code) * InstructionWidth < dataBase * 6
    /\ \A i \in DOMAIN memory :
         memory[i].address =
           IF i = 1 THEN dataBase
           ELSE memory[i - 1].address + Len(memory[i - 1].trytes)

(* Rebel6Assembler.AssembleProgram: "Labels resolve across sections - code *)
(* labels to instruction indices (I-space)": a branch to a label of .text  *)
(* reaches the instruction after it. Violated: a label may have the name   *)
(* of a CSR that is no register, and ParseWide12 looks there first.        *)
BranchesReachLabels ==
  pc = "done" =>
    EachOperand(LAMBDA operand, value, current :
      operand.field = "branch12" /\ IsLabel(operand.token)
        /\ ~InDataAt(Definition(operand.token.name)) =>
          RefersTo("branch12", value, current, Definition(operand.token.name)))

(* docs/rebel6-isa.md: "PC-relative addressing is restricted to code       *)
(* symbols". Violated: ParseWide12 gives a two-way branch the address of a *)
(* datum as its displacement.                                              *)
PcRelativeReachesCode ==
  pc = "done" =>
    EachOperand(LAMBDA operand, value, current :
      operand.field \in PcRelative /\ ~IsCsr(operand) /\ IsLabel(operand.token) =>
        ~InDataAt(Definition(operand.token.name)))

=============================================================================
