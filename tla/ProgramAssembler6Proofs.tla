----------------------- MODULE ProgramAssembler6Proofs -----------------------
(***************************************************************************)
(* Proofs about ProgramAssembler6 for every set of source lines, every     *)
(* dictionary of names, every width of a tryte and every page size. IInv   *)
(* is the layout of the images; MeaningInv adds what each line has left in *)
(* the parser's lists (SourceInv), where the labels were placed            *)
(* (LabelsPlaced) and what the encoded statements mean (ImagesMean).       *)
(***************************************************************************)
EXTENDS ProgramAssembler6, DataInduction, FiniteSetTheorems

IsSequence(s) == s \in Seq({s[i] : i \in DOMAIN s})

(* The data of ParseProgram follow each other; dataOffset is their end.    *)
DataInSequence ==
  /\ \A i \in 1..Len(data) :
       /\ data[i].offset = IF i = 1 THEN 0 ELSE data[i - 1].offset + data[i - 1].size
       /\ data[i].directive = ".word" => data[i].size = WordTrytes
  /\ dataOffset = IF Len(data) = 0 THEN 0
                  ELSE data[Len(data)].offset + data[Len(data)].size

(* The base is computed once, from all instructions.                       *)
BaseAboveCode ==
  /\ pc \in {"instructions", "data", "done"} =>
       dataBase = InstructionTrytes + WordTrytes - (InstructionTrytes % WordTrytes)
  /\ pc \in {"data", "done"} => Len(code) = Len(instructions)

(* Memory holds each datum encoded so far, whole, where it was laid out.   *)
MemoryAsLaidOut ==
  /\ IsSequence(code) /\ IsSequence(memory)
  /\ pc = "parse" => memory = <<>>
  /\ \A i \in 1..Len(memory) :
       /\ memory[i].address = dataBase + data[i].offset
       /\ Len(memory[i].trytes) = data[i].size

IInv == TypeOK /\ DataInSequence /\ BaseAboveCode /\ MemoryAsLaidOut

-----------------------------------------------------------------------------
LEMMA LineParts ==
  ASSUME NEW line \in Lines
  PROVE  /\ line.kind = ".word" => line.token \in Token
         /\ line.kind = ".zero" => line.count \in Int
         /\ line.kind = "instruction" => line.operands \in Operands
  <1>1. line \in Line
    BY ConstantsAssumption
  <1> QED
    BY <1>1 DEF Line

LEMMA NumberToken ==
  ASSUME NEW n \in Int
  PROVE  [kind |-> "number", value |-> n] \in Token
  BY DEF Token

LEMMA Appended ==
  ASSUME NEW S, NEW s \in Seq(S), NEW e \in S
  PROVE  /\ Append(s, e) \in Seq(S)
         /\ Len(Append(s, e)) = Len(s) + 1
         /\ Append(s, e)[Len(s) + 1] = e
         /\ \A i \in 1..Len(s) : Append(s, e)[i] = s[i]
  OBVIOUS

LEMMA SequenceOfElements ==
  ASSUME NEW S, NEW s \in Seq(S)
  PROVE  IsSequence(s)
  <1>1. Len(s) \in Nat /\ DOMAIN s = 1..Len(s) /\ s = [i \in 1..Len(s) |-> s[i]]
    OBVIOUS
  <1>2. s \in [1..Len(s) -> {s[i] : i \in DOMAIN s}]
    BY <1>1
  <1> QED
    BY <1>1, <1>2 DEF IsSequence

(* A sequence stays one, whatever is appended to it.                       *)
LEMMA AnyAppended ==
  ASSUME NEW s, IsSequence(s), NEW e
  PROVE  /\ IsSequence(Append(s, e))
         /\ Len(s) \in Nat
         /\ Len(Append(s, e)) = Len(s) + 1
         /\ Append(s, e)[Len(s) + 1] = e
         /\ \A i \in 1..Len(s) : Append(s, e)[i] = s[i]
  <1> DEFINE S == {s[i] : i \in DOMAIN s} \cup {e}
  <1>1. s \in Seq(S)
    <2>1. s \in Seq({s[i] : i \in DOMAIN s})
      BY DEF IsSequence
    <2> QED
      BY <2>1
  <1>2. e \in S
    OBVIOUS
  <1> HIDE DEF S
  <1>3. Append(s, e) \in Seq(S)
    BY <1>1, <1>2
  <1>4. IsSequence(Append(s, e))
    BY <1>3, SequenceOfElements
  <1>5. /\ Len(s) \in Nat
        /\ Len(Append(s, e)) = Len(s) + 1
        /\ Append(s, e)[Len(s) + 1] = e
        /\ \A i \in 1..Len(s) : Append(s, e)[i] = s[i]
    BY <1>1, <1>2
  <1> QED
    BY <1>4, <1>5

LEMMA FunctionLength ==
  ASSUME NEW n \in Nat, NEW f, f = [j \in 1..n |-> f[j]]
  PROVE  Len(f) = n
  <1>1. f \in [1..n -> {f[j] : j \in 1..n}]
    OBVIOUS
  <1>2. f \in Seq({f[j] : j \in 1..n})
    BY <1>1
  <1> QED
    BY <1>1, <1>2

(* A datum fills exactly the trytes the layout set aside for it.           *)
LEMMA DatumFills ==
  ASSUME NEW datum, datum.size \in Nat,
         datum.directive \in {".word", ".zero"},
         datum.directive = ".word" => datum.size = WordTrytes,
         NEW trytes \in DatumTrytes(datum)
  PROVE  Len(trytes) = datum.size
  <1>1. CASE datum.directive = ".zero"
    <2>1. trytes = [j \in 1..datum.size |-> 0]
      BY <1>1 DEF DatumTrytes
    <2> QED
      BY <2>1, FunctionLength
  <1>2. CASE datum.directive = ".word"
    <2>1. PICK word : trytes = Reverse4(word)
      BY <1>2 DEF DatumTrytes
    <2>2. trytes = [j \in 1..4 |-> trytes[j]]
      BY <2>1 DEF Reverse4, WordTrytes
    <2>3. Len(trytes) = 4
      BY <2>2, FunctionLength
    <2> QED
      BY <1>2, <2>3 DEF WordTrytes
  <1> QED
    BY <1>1, <1>2

(* The data image is word-aligned and starts above the last instruction.   *)
LEMMA BaseIsAbove ==
  ASSUME NEW n \in Nat
  PROVE  LET t == (n * InstructionWidth + 5) \div 6
             b == t + WordTrytes - (t % WordTrytes)
         IN  t \in Nat /\ b \in Nat /\ b % WordTrytes = 0 /\ n * InstructionWidth < b * 6
  <1> DEFINE t == (n * 32 + 5) \div 6
             b == t + 4 - (t % 4)
  <1>1. t \in Nat /\ n * 32 <= t * 6
    OBVIOUS
  <1>2. b \in Nat /\ b % 4 = 0 /\ t < b
    <2> HIDE DEF t
    <2> QED
      BY <1>1
  <1>3. n * 32 < b * 6
    <2> HIDE DEF t, b
    <2> QED
      BY <1>1, <1>2
  <1> QED
    BY <1>1, <1>2, <1>3 DEF InstructionWidth, WordTrytes

-----------------------------------------------------------------------------
LEMMA DatumElement ==
  ASSUME TypeOK, NEW i \in 1..Len(data)
  PROVE  data[i] \in ParsedDatum
  <1>1. data \in Seq(ParsedDatum)
    BY DEF TypeOK
  <1> QED
    BY <1>1

LEMMA InitIInv == Init => IInv
  <1> SUFFICES ASSUME Init PROVE IInv
    OBVIOUS
  <1>1. TypeOK
    <2>1. PageInstructionCount \in Int /\ 0 <= PageInstructionCount
      BY ConstantsAssumption
    <2>2. \A S : [n \in {} |-> 0] \in [DOMAIN [n \in {} |-> 0] -> S]
      OBVIOUS
    <2>3. Len(instructions) = 0 /\ Len(data) = 0 /\ Len(code) = 0 /\ Len(memory) = 0
      BY DEF Init
    <2>4. \A S : <<>> \in Seq(S)
      OBVIOUS
    <2>5. /\ labels \in [DOMAIN labels -> [index : Nat, isData : BOOLEAN]]
          /\ finalLabels \in [DOMAIN finalLabels -> [index : Nat, isData : BOOLEAN]]
      BY <2>2 DEF Init
    <2>6. source \in Seq(Lines) /\ instructions \in Seq(Operands) /\ data \in Seq(ParsedDatum)
      BY <2>4 DEF Init
    <2>7. /\ pc \in {"parse", "instructions", "data", "done", "failed"}
          /\ inData \in BOOLEAN /\ dataOffset \in Nat /\ dataBase \in Nat
      BY DEF Init
    <2> QED
      BY <2>1, <2>3, <2>5, <2>6, <2>7 DEF TypeOK
  <1>2. DataInSequence /\ BaseAboveCode
    BY DEF Init, DataInSequence, BaseAboveCode
  <1>3. MemoryAsLaidOut
    BY DEF Init, MemoryAsLaidOut, IsSequence
  <1> QED
    BY <1>1, <1>2, <1>3 DEF IInv

(* Reading a line adds it to the source and touches no image.              *)
LEMMA ReadKeeps ==
  ASSUME TypeOK, NEW line \in Lines, Read(line)
  PROVE  /\ source' \in Seq(Lines)
         /\ pc = "parse"
         /\ UNCHANGED <<dataBase, finalLabels, code, memory>>
  BY DEF TypeOK, Read, layout

LEMMA ThrowIInv ==
  ASSUME IInv, NEW line \in Lines, Read(line), Throw
  PROVE  IInv'
  <1>1. TypeOK'
    BY ReadKeeps DEF IInv, TypeOK, Throw, parsing
  <1>2. DataInSequence' /\ BaseAboveCode'
    BY DEF IInv, DataInSequence, BaseAboveCode, Throw, parsing
  <1>3. MemoryAsLaidOut'
    BY ReadKeeps DEF IInv, MemoryAsLaidOut, Throw, parsing, IsSequence
  <1> QED
    BY <1>1, <1>2, <1>3 DEF IInv

LEMMA BindLabelIInv == IInv /\ BindLabel => IInv'
  <1> SUFFICES ASSUME IInv, BindLabel PROVE IInv'
    OBVIOUS
  <1>1. PICK line \in Lines :
          /\ Read(line)
          /\ labels' = [n \in DOMAIN labels \cup {line.name} |->
                          IF n \in DOMAIN labels THEN labels[n]
                          ELSE [index |-> IF inData THEN dataOffset ELSE Len(instructions),
                                isData |-> inData]]
    BY DEF BindLabel
  <1>2. UNCHANGED <<pc, inData, dataOffset, instructions, data>>
    BY DEF BindLabel
  <1>3. labels' \in [DOMAIN labels' -> [index : Nat, isData : BOOLEAN]]
    BY <1>1 DEF IInv, TypeOK
  <1>4. TypeOK'
    BY <1>1, <1>2, <1>3, ReadKeeps DEF IInv, TypeOK
  <1>5. DataInSequence' /\ BaseAboveCode' /\ MemoryAsLaidOut'
    BY <1>1, <1>2, ReadKeeps
    DEF IInv, DataInSequence, BaseAboveCode, MemoryAsLaidOut, IsSequence
  <1> QED
    BY <1>4, <1>5 DEF IInv

LEMMA SectionIInv == IInv /\ Section => IInv'
  <1> SUFFICES ASSUME IInv, NEW line \in Lines, Read(line),
                      inData' = (line.kind = ".data"),
                      UNCHANGED <<pc, dataOffset, labels, instructions, data>>
               PROVE  IInv'
    BY DEF Section
  <1>1. TypeOK'
    BY ReadKeeps DEF IInv, TypeOK
  <1>2. DataInSequence' /\ BaseAboveCode' /\ MemoryAsLaidOut'
    BY ReadKeeps DEF IInv, DataInSequence, BaseAboveCode, MemoryAsLaidOut, IsSequence
  <1> QED
    BY <1>1, <1>2 DEF IInv

LEMMA AddDatumIInv ==
  ASSUME IInv, NEW line \in Lines, Read(line),
         NEW directive \in {".word", ".zero"}, NEW operand \in Token,
         NEW size \in Nat \ {0}, directive = ".word" => size = WordTrytes,
         AddDatum(directive, operand, size)
  PROVE  IInv'
  <1> DEFINE datum == [directive |-> directive, operand |-> operand,
                       offset |-> dataOffset, size |-> size]
  <1>1. datum \in ParsedDatum /\ data \in Seq(ParsedDatum)
    BY DEF IInv, TypeOK, ParsedDatum
  <1>2. data' = Append(data, datum) /\ dataOffset' = dataOffset + size
    BY DEF AddDatum
  <1>3. UNCHANGED <<pc, inData, labels, instructions>>
    BY DEF AddDatum
  <1> HIDE DEF datum
  <1>4. /\ data' \in Seq(ParsedDatum) /\ Len(data') = Len(data) + 1
        /\ data'[Len(data) + 1] = datum
        /\ \A i \in 1..Len(data) : data'[i] = data[i]
    BY <1>1, <1>2, Appended
  <1>5. TypeOK'
    <2>1. Len(memory) <= Len(data)
      BY DEF IInv, TypeOK
    <2>2. Len(memory)' <= Len(data') /\ dataOffset' \in Nat
      <3>1. Len(memory) \in Nat /\ Len(data) \in Nat
        BY AnyAppended, <1>1 DEF IInv, MemoryAsLaidOut
      <3> QED
        BY <2>1, <3>1, <1>2, <1>4, ReadKeeps DEF IInv, TypeOK
    <2> QED
      BY <2>2, <1>3, <1>4, ReadKeeps DEF IInv, TypeOK
  <1>6. DataInSequence'
    <2>1. Len(data) \in Nat
      BY <1>1
    <2>2. /\ datum.offset = dataOffset /\ datum.size = size
          /\ datum.directive = directive
      BY DEF datum
    <2>3. ASSUME NEW i \in 1..Len(data')
          PROVE  /\ data'[i].offset =
                      IF i = 1 THEN 0 ELSE data'[i - 1].offset + data'[i - 1].size
                 /\ data'[i].directive = ".word" => data'[i].size = WordTrytes
      <3>1. CASE i = Len(data) + 1
        <4>1. data'[i] = datum
          BY <3>1, <1>4
        <4>3. i # 1 => i - 1 = Len(data) /\ Len(data) \in 1..Len(data)
          BY <3>1, <2>1
        <4>4. i # 1 => data'[i - 1] = data[Len(data)]
          BY <4>3, <1>4
        <4>2. dataOffset = IF Len(data) = 0 THEN 0
                           ELSE data[Len(data)].offset + data[Len(data)].size
          BY DEF IInv, DataInSequence
        <4> QED
          BY <4>1, <4>2, <4>4, <2>1, <2>2, <3>1
      <3>2. CASE i \in 1..Len(data)
        <4>1. data'[i] = data[i]
          BY <3>2, <1>4
        <4>2. i # 1 => i - 1 \in 1..Len(data)
          BY <3>2, <2>1
        <4>3. i # 1 => data'[i - 1] = data[i - 1]
          BY <4>2, <1>4
        <4> QED
          BY <4>1, <4>3, <3>2 DEF IInv, DataInSequence
      <3> QED
        BY <3>1, <3>2, <2>1, <1>4
    <2>4. dataOffset' = data'[Len(data')].offset + data'[Len(data')].size
      BY <1>2, <1>4, <2>1, <2>2
    <2>5. Len(data') # 0
      BY <1>4, <2>1
    <2> QED
      BY <2>3, <2>4, <2>5, Zenon DEF DataInSequence
  <1>7. BaseAboveCode' /\ MemoryAsLaidOut'
    BY <1>3, ReadKeeps DEF IInv, BaseAboveCode, MemoryAsLaidOut, IsSequence
  <1> QED
    BY <1>5, <1>6, <1>7 DEF IInv

LEMMA InstructionIInv == IInv /\ Instruction => IInv'
  <1> SUFFICES ASSUME IInv, NEW line \in Lines, Read(line),
                      line.kind = "instruction",
                      Len(instructions) < PageInstructionCount,
                      instructions' = Append(instructions, line.operands),
                      UNCHANGED <<pc, inData, dataOffset, labels, data>>
               PROVE  IInv'
    BY DEF Instruction
  <1>1. line.operands \in Operands /\ instructions \in Seq(Operands)
    BY LineParts DEF IInv, TypeOK
  <1>2. instructions' \in Seq(Operands) /\ Len(instructions') = Len(instructions) + 1
    BY <1>1, Appended
  <1>3. TypeOK'
    <2>1. PageInstructionCount \in Int /\ Len(instructions) \in Nat /\ Len(code) \in Nat
      BY <1>1, AnyAppended, ConstantsAssumption DEF IInv, MemoryAsLaidOut, Base
    <2>2. Len(instructions') <= PageInstructionCount /\ Len(code) <= Len(instructions')
      BY <1>2, <2>1 DEF IInv, TypeOK
    <2> QED
      BY <1>2, <2>2, ReadKeeps DEF IInv, TypeOK
  <1>4. DataInSequence' /\ BaseAboveCode' /\ MemoryAsLaidOut'
    BY ReadKeeps DEF IInv, DataInSequence, BaseAboveCode, MemoryAsLaidOut, IsSequence
  <1> QED
    BY <1>3, <1>4 DEF IInv

LEMMA EndOfSourceIInv == IInv /\ EndOfSource => IInv'
  <1> SUFFICES ASSUME IInv, EndOfSource PROVE IInv'
    OBVIOUS
  <1>1. /\ pc = "parse" /\ pc' = "instructions"
        /\ dataBase' = InstructionTrytes + WordTrytes - (InstructionTrytes % WordTrytes)
        /\ finalLabels' = [n \in DOMAIN labels |->
                             IF labels[n].isData
                             THEN [labels[n] EXCEPT !.index = @ + dataBase'] ELSE labels[n]]
        /\ UNCHANGED <<source, inData, dataOffset, labels, instructions, data, code, memory>>
    BY DEF EndOfSource, parsing
  <1>2. dataBase' \in Nat
    <2>1. Len(instructions) \in Nat
      BY DEF IInv, TypeOK
    <2> QED
      BY <1>1, <2>1, BaseIsAbove DEF InstructionTrytes
  <1>3. finalLabels' \in [DOMAIN finalLabels' -> [index : Nat, isData : BOOLEAN]]
    <2>1. labels \in [DOMAIN labels -> [index : Nat, isData : BOOLEAN]]
      BY DEF IInv, TypeOK
    <2>2. DOMAIN finalLabels' = DOMAIN labels
      BY <1>1
    <2>3. ASSUME NEW n \in DOMAIN labels
          PROVE  finalLabels'[n] \in [index : Nat, isData : BOOLEAN]
      <3>1. labels[n] \in [index : Nat, isData : BOOLEAN]
        BY <2>1
      <3>2. labels[n].index + dataBase' \in Nat
        BY <1>2, <3>1
      <3>3. [labels[n] EXCEPT !.index = @ + dataBase'] \in [index : Nat, isData : BOOLEAN]
        BY <3>1, <3>2
      <3> QED
        BY <1>1, <3>1, <3>3
    <2>4. finalLabels' = [n \in DOMAIN labels |-> finalLabels'[n]]
      BY <1>1
    <2> QED
      BY <2>2, <2>3, <2>4
  <1>4. TypeOK'
    BY <1>1, <1>2, <1>3 DEF IInv, TypeOK
  <1>5. DataInSequence'
    BY <1>1 DEF IInv, DataInSequence
  <1>6. BaseAboveCode'
    BY <1>1 DEF BaseAboveCode, InstructionTrytes
  <1>7. MemoryAsLaidOut'
    BY <1>1 DEF IInv, MemoryAsLaidOut, IsSequence
  <1> QED
    BY <1>4, <1>5, <1>6, <1>7 DEF IInv

LEMMA EncodeInstructionIInv == IInv /\ EncodeInstruction => IInv'
  <1> SUFFICES ASSUME IInv, EncodeInstruction PROVE IInv'
    OBVIOUS
  <1>1. PICK fields : code' = Append(code, [address |-> AddressSpace(Len(code)),
                                            fields |-> fields])
    BY DEF EncodeInstruction
  <1>2. /\ pc = "instructions" /\ Len(code) < Len(instructions)
        /\ UNCHANGED <<pc, source, inData, dataOffset, labels, instructions, data,
                       dataBase, finalLabels, memory>>
    BY DEF EncodeInstruction, parsing, layout
  <1>3. IsSequence(code') /\ Len(code) \in Nat /\ Len(code') = Len(code) + 1
    BY <1>1, AnyAppended DEF IInv, MemoryAsLaidOut
  <1>4. TypeOK'
    <2>1. Len(code') <= Len(instructions)
      BY <1>2, <1>3 DEF IInv, TypeOK
    <2> QED
      BY <1>2, <2>1 DEF IInv, TypeOK
  <1>5. DataInSequence' /\ BaseAboveCode'
    BY <1>2 DEF IInv, DataInSequence, BaseAboveCode, InstructionTrytes
  <1>6. MemoryAsLaidOut'
    BY <1>2, <1>3 DEF IInv, MemoryAsLaidOut, IsSequence
  <1> QED
    BY <1>4, <1>5, <1>6 DEF IInv

LEMMA EncodeDatumIInv == IInv /\ EncodeDatum => IInv'
  <1> SUFFICES ASSUME IInv, EncodeDatum PROVE IInv'
    OBVIOUS
  <1> DEFINE n == Len(memory) + 1
  <1>1. PICK trytes \in DatumTrytes(data[n]) :
          memory' = Append(memory, [address |-> dataBase + data[n].offset, trytes |-> trytes])
    BY DEF EncodeDatum, NextDatum
  <1>2. /\ pc = "data" /\ Len(memory) < Len(data)
        /\ UNCHANGED <<pc, source, inData, dataOffset, labels, instructions, data,
                       dataBase, finalLabels, code>>
    BY DEF EncodeDatum, parsing, layout
  <1>3. /\ IsSequence(memory') /\ Len(memory) \in Nat /\ Len(memory') = n
        /\ memory'[n] = [address |-> dataBase + data[n].offset, trytes |-> trytes]
        /\ \A i \in 1..Len(memory) : memory'[i] = memory[i]
    BY <1>1, AnyAppended DEF IInv, MemoryAsLaidOut
  <1>4. n \in 1..Len(data) /\ Len(data) \in Nat
    <2>1. Len(data) \in Nat
      BY DEF IInv, TypeOK
    <2> QED
      BY <1>2, <1>3, <2>1
  <1>5. Len(trytes) = data[n].size
    <2>1. data[n] \in ParsedDatum
      BY <1>4, DatumElement DEF IInv
    <2>2. data[n].directive = ".word" => data[n].size = WordTrytes
      BY <1>4 DEF IInv, DataInSequence
    <2>3. data[n].directive \in {".word", ".zero"} /\ data[n].size \in Nat
      BY <2>1 DEF ParsedDatum
    <2> QED
      BY <2>2, <2>3, DatumFills
  <1> HIDE DEF n
  <1>6. TypeOK'
    BY <1>2, <1>3, <1>4 DEF IInv, TypeOK
  <1>7. DataInSequence' /\ BaseAboveCode'
    BY <1>2 DEF IInv, DataInSequence, BaseAboveCode, InstructionTrytes
  <1>8. MemoryAsLaidOut'
    <2>1. ASSUME NEW i \in 1..Len(memory')
          PROVE  /\ memory'[i].address = dataBase + data[i].offset
                 /\ Len(memory'[i].trytes) = data[i].size
      <3>1. CASE i = n
        BY <3>1, <1>3, <1>5
      <3>2. CASE i # n
        <4>1. i \in 1..Len(memory)
          BY <3>2, <1>3 DEF n
        <4> QED
          BY <4>1, <1>3 DEF IInv, MemoryAsLaidOut
      <3> QED
        BY <3>1, <3>2
    <2> QED
      BY <1>2, <1>3, <2>1 DEF IInv, MemoryAsLaidOut, IsSequence
  <1> QED
    BY <1>6, <1>7, <1>8 DEF IInv

(* The steps that only move to the next phase, or give up.                 *)
LEMMA PhaseIInv ==
  ASSUME IInv, InstructionsEncoded \/ DataEncoded \/ RejectOperand
  PROVE  IInv'
  <1>1. UNCHANGED <<source, inData, dataOffset, labels, instructions, data,
                    dataBase, finalLabels, code, memory>>
    BY DEF InstructionsEncoded, DataEncoded, RejectOperand, parsing, layout
  <1>2. \/ pc = "instructions" /\ pc' = "data" /\ Len(code) = Len(instructions)
        \/ pc = "data" /\ pc' = "done"
        \/ pc' = "failed"
    BY DEF InstructionsEncoded, DataEncoded, RejectOperand
  <1>3. TypeOK' /\ DataInSequence'
    BY <1>1, <1>2 DEF IInv, TypeOK, DataInSequence
  <1>4. BaseAboveCode'
    BY <1>1, <1>2 DEF IInv, BaseAboveCode, InstructionTrytes
  <1>5. MemoryAsLaidOut'
    BY <1>1, <1>2 DEF IInv, MemoryAsLaidOut, IsSequence
  <1> QED
    BY <1>3, <1>4, <1>5 DEF IInv

LEMMA ParseLineIInv == IInv /\ ParseLine => IInv'
  <1> SUFFICES ASSUME IInv, ParseLine PROVE IInv'
    OBVIOUS
  <1>1. CASE BindLabel
    BY <1>1, BindLabelIInv
  <1>2. CASE Section
    BY <1>2, SectionIInv
  <1>3. CASE Word
    <2>1. PICK line \in Lines : /\ line.kind = ".word" /\ Read(line)
                                /\ AddDatum(".word", line.token, WordTrytes)
      BY <1>3 DEF Word
    <2>2. WordTrytes \in Nat \ {0}
      BY DEF WordTrytes
    <2> QED
      BY <2>1, <2>2, LineParts, AddDatumIInv
  <1>4. CASE Zero
    <2>1. PICK line \in Lines :
            /\ line.kind = ".zero" /\ line.count > 0 /\ Read(line)
            /\ AddDatum(".zero", [kind |-> "number", value |-> line.count], line.count)
      BY <1>4 DEF Zero
    <2>2. line.count \in Nat \ {0}
      BY <2>1, LineParts
    <2>3. [kind |-> "number", value |-> line.count] \in Token
      BY <2>2, NumberToken
    <2> QED
      BY <2>1, <2>2, <2>3, AddDatumIInv
  <1>5. CASE Instruction
    BY <1>5, InstructionIInv
  <1>6. CASE RejectLabel \/ RejectData \/ RejectInstruction \/ RejectLine
    BY <1>6, ThrowIInv DEF RejectLabel, RejectData, RejectInstruction, RejectLine
  <1> QED
    BY <1>1, <1>2, <1>3, <1>4, <1>5, <1>6 DEF ParseLine

LEMMA NextIInv == IInv /\ [Next]_vars => IInv'
  <1> SUFFICES ASSUME IInv, [Next]_vars PROVE IInv'
    OBVIOUS
  <1>1. CASE Next
    BY <1>1, ParseLineIInv, EndOfSourceIInv, EncodeInstructionIInv, EncodeDatumIInv, PhaseIInv
    DEF Next
  <1>2. CASE UNCHANGED vars
    BY <1>2 DEF vars, parsing, layout, IInv, TypeOK, DataInSequence, BaseAboveCode,
      InstructionTrytes, MemoryAsLaidOut, IsSequence
  <1> QED
    BY <1>1, <1>2

-----------------------------------------------------------------------------
(* The assembler's state is well formed throughout (ParseProgram, Assemble).*)
THEOREM TypeCorrect == Spec => []TypeOK
  <1>1. IInv => TypeOK
    BY DEF IInv
  <1> QED
    BY <1>1, InitIInv, NextIInv, PTL DEF Spec

LEMMA ImagesDisjointFromIInv == IInv => ImagesDisjoint
  <1> SUFFICES ASSUME IInv, pc = "done" PROVE ImagesDisjoint
    BY DEF ImagesDisjoint
  <1>1. dataBase % WordTrytes = 0 /\ Len(code) * InstructionWidth < dataBase * 6
    <2>1. Len(instructions) \in Nat
      BY DEF IInv, TypeOK
    <2> QED
      BY <2>1, BaseIsAbove DEF IInv, BaseAboveCode, InstructionTrytes
  <1>2. Len(memory) \in Nat /\ DOMAIN memory = 1..Len(memory)
    BY DEF IInv, MemoryAsLaidOut, IsSequence
  <1>3. Len(data) \in Nat /\ Len(memory) <= Len(data)
    BY DEF IInv, TypeOK
  <1>4. ASSUME NEW i \in 1..Len(memory)
        PROVE  memory[i].address =
                 IF i = 1 THEN dataBase
                 ELSE memory[i - 1].address + Len(memory[i - 1].trytes)
    <2>1. i \in 1..Len(data) /\ (i # 1 => i - 1 \in 1..Len(memory) /\ i - 1 \in 1..Len(data))
      BY <1>2, <1>3
    <2>2. /\ memory[i].address = dataBase + data[i].offset
          /\ data[i].offset = IF i = 1 THEN 0 ELSE data[i - 1].offset + data[i - 1].size
      BY <2>1 DEF IInv, MemoryAsLaidOut, DataInSequence
    <2>3. i # 1 => /\ memory[i - 1].address = dataBase + data[i - 1].offset
                   /\ Len(memory[i - 1].trytes) = data[i - 1].size
      BY <2>1 DEF IInv, MemoryAsLaidOut
    <2>4. dataBase \in Nat
      BY DEF IInv, TypeOK
    <2>5. i # 1 => data[i - 1].offset \in Nat /\ data[i - 1].size \in Nat
      BY <2>1, DatumElement DEF IInv, ParsedDatum
    <2> QED
      BY <2>2, <2>3, <2>4, <2>5
  <1> QED
    BY <1>1, <1>2, <1>4 DEF ImagesDisjoint

(* Assemble's layout: for every page size and every program, the data      *)
(* image is word-aligned, above the instruction image, and without gaps.   *)
THEOREM LayoutDisjoint == Spec => []ImagesDisjoint
  BY InitIInv, NextIInv, ImagesDisjointFromIInv, PTL DEF Spec

-----------------------------------------------------------------------------
(* The encoding of a number: ToBalancedTernary's digits give the number    *)
(* back. Both recursions are unfolded once, by Recursion of DataInduction; *)
(* the digits then add up by induction on their position.                  *)

LEMMA BaseIs ==
  /\ TryteMax \in Nat /\ TryteMax > 0
  /\ Base \in Nat \ {0}
  BY ConstantsAssumption DEF Base

(* A whole number is its quotient and its rest.                            *)
LEMMA DivMod ==
  ASSUME NEW b \in Nat \ {0}, NEW x \in Int
  PROVE  /\ x \div b \in Int /\ x % b \in 0..b - 1
         /\ x = b * (x \div b) + (x % b)
  OBVIOUS

(* The quotients of ToBalancedTernary, unfolded once and for all.          *)
LEMMA ShiftedUnfolds ==
  ASSUME NEW value \in Int, NEW count \in Nat
  PROVE  \E R \in [0..count -> Int] :
           /\ Shifted(value, count) = R[count]
           /\ R[0] = value
           /\ \A k \in 1..count : R[k] = (R[k - 1] + TryteMax) \div Base
  <1> DEFINE n == count
             A == Int
             next(s, k) == (s + TryteMax) \div Base
             step == [p \in A \X (0 + 1..n) |-> next(p[1], p[2])]
             Is(f) == f = [k \in 0..n |-> IF k = 0 THEN value ELSE next(f[k - 1], k)]
             R == CHOOSE f : Is(f)
  <1>1. n \in Nat /\ n \in Int /\ 0 \in Int /\ value \in A
    OBVIOUS
  <1>2. \A a \in A, k \in 1..n : next(a, k) \in A
    <2>1. \A a \in Int : a + TryteMax \in Int
      BY BaseIs
    <2> QED
      BY <2>1, BaseIs, DivMod
  <1>3. Shifted(value, count) = R[n]
    BY DEF Shifted
  <1> HIDE DEF A, n, next
  <1>4. step \in [A \X (0 + 1..n) -> A]
    <2> SUFFICES ASSUME NEW p \in A \X (0 + 1..n) PROVE next(p[1], p[2]) \in A
      OBVIOUS
    <2>1. p[1] \in A /\ p[2] \in 1..n
      BY <1>1
    <2> QED
      BY <1>2, <2>1
  <1>5. ASSUME NEW a \in A, NEW k \in 0..n, k # 0 PROVE step[<<a, k>>] = next(a, k)
    <2>1. <<a, k>> \in A \X (0 + 1..n)
      BY <1>1, <1>5
    <2> QED
      BY <2>1
  <1>6. PICK f \in [0..n -> A] : Unfolds(f, 0, n, value, step)
    <2> HIDE DEF step
    <2> QED
      BY <1>1, <1>4, Recursion
  <1>7. \A k \in 0..n : f[k] = IF k = 0 THEN value ELSE next(f[k - 1], k)
    <2> HIDE DEF step
    <2>1. \A k \in 0..n : k # 0 => f[k - 1] \in A
      BY <1>1
    <2> QED
      BY <1>5, <1>6, <2>1 DEF Unfolds
  <1>8. Is(f)
    BY <1>7
  <1>9. R = [k \in 0..n |-> IF k = 0 THEN value ELSE next(R[k - 1], k)]
    <2> HIDE DEF Is
    <2>1. Is(R)
      BY <1>8
    <2> QED
      BY <2>1 DEF Is
  <1> HIDE DEF R
  <1>10. R[0] = value /\ \A k \in 1..n : R[k] = next(R[k - 1], k)
    BY <1>9, <1>1
  <1>11. \A k \in 0..n : R[k] \in A
    <2> DEFINE Good == {k \in 0..n : R[k] \in A}
    <2>1. 0 \in Good
      BY <1>1, <1>10
    <2>2. ASSUME NEW k \in 0..n - 1, k \in Good PROVE k + 1 \in Good
      <3>1. k + 1 \in 1..n /\ k + 1 \in 0..n /\ (k + 1) - 1 = k
        BY <1>1
      <3>2. R[k + 1] = next(R[k], k + 1) /\ R[k] \in A
        BY <1>10, <2>2, <3>1
      <3> QED
        BY <1>2, <3>1, <3>2
    <2>3. 0..n \subseteq Good
      <3> HIDE DEF Good
      <3> QED
        BY <1>1, <2>1, <2>2, IntervalInduction
    <2> QED
      BY <2>3
  <1>12. R \in [0..n -> A]
    BY <1>9, <1>11
  <1> QED
    BY <1>3, <1>10, <1>12 DEF A, n, next

(* The partial values of a sequence of trytes, likewise.                   *)
LEMMA ValueUnfolds ==
  ASSUME NEW trytes, Len(trytes) \in Nat, \A j \in 1..Len(trytes) : trytes[j] \in Int
  PROVE  \E R \in [0..Len(trytes) -> Int] :
           /\ Value(trytes) = R[Len(trytes)]
           /\ R[0] = 0
           /\ \A k \in 1..Len(trytes) : R[k] = Base * R[k - 1] + trytes[k]
  <1> DEFINE n == Len(trytes)
             A == Int
             next(s, k) == Base * s + trytes[k]
             step == [p \in A \X (0 + 1..n) |-> next(p[1], p[2])]
             Is(f) == f = [k \in 0..n |-> IF k = 0 THEN 0 ELSE next(f[k - 1], k)]
             R == CHOOSE f : Is(f)
  <1>1. n \in Nat /\ n \in Int /\ 0 \in Int /\ 0 \in A
    OBVIOUS
  <1>2. \A a \in A, k \in 1..n : next(a, k) \in A
    <2>1. Base \in Int
      BY BaseIs
    <2>2. ASSUME NEW a \in Int, NEW k \in 1..Len(trytes) PROVE Base * a + trytes[k] \in Int
      <3>1. trytes[k] \in Int /\ Base * a \in Int
        BY <2>1
      <3> QED
        BY <3>1
    <2> QED
      BY <2>2
  <1>3. Value(trytes) = R[n]
    BY DEF Value
  <1> HIDE DEF A, n, next
  <1>4. step \in [A \X (0 + 1..n) -> A]
    <2> SUFFICES ASSUME NEW p \in A \X (0 + 1..n) PROVE next(p[1], p[2]) \in A
      OBVIOUS
    <2>1. p[1] \in A /\ p[2] \in 1..n
      BY <1>1
    <2> QED
      BY <1>2, <2>1
  <1>5. ASSUME NEW a \in A, NEW k \in 0..n, k # 0 PROVE step[<<a, k>>] = next(a, k)
    <2>1. <<a, k>> \in A \X (0 + 1..n)
      BY <1>1, <1>5
    <2> QED
      BY <2>1
  <1>6. PICK f \in [0..n -> A] : Unfolds(f, 0, n, 0, step)
    <2> HIDE DEF step
    <2> QED
      BY <1>1, <1>4, Recursion
  <1>7. \A k \in 0..n : f[k] = IF k = 0 THEN 0 ELSE next(f[k - 1], k)
    <2> HIDE DEF step
    <2>1. \A k \in 0..n : k # 0 => f[k - 1] \in A
      BY <1>1
    <2> QED
      BY <1>5, <1>6, <2>1 DEF Unfolds
  <1>8. Is(f)
    BY <1>7
  <1>9. R = [k \in 0..n |-> IF k = 0 THEN 0 ELSE next(R[k - 1], k)]
    <2> HIDE DEF Is
    <2>1. Is(R)
      BY <1>8
    <2> QED
      BY <2>1 DEF Is
  <1> HIDE DEF R
  <1>10. R[0] = 0 /\ \A k \in 1..n : R[k] = next(R[k - 1], k)
    BY <1>9, <1>1
  <1>11. \A k \in 0..n : R[k] \in A
    <2> DEFINE Good == {k \in 0..n : R[k] \in A}
    <2>1. 0 \in Good
      BY <1>1, <1>10
    <2>2. ASSUME NEW k \in 0..n - 1, k \in Good PROVE k + 1 \in Good
      <3>1. k + 1 \in 1..n /\ k + 1 \in 0..n /\ (k + 1) - 1 = k
        BY <1>1
      <3>2. R[k + 1] = next(R[k], k + 1) /\ R[k] \in A
        BY <1>10, <2>2, <3>1
      <3> QED
        BY <1>2, <3>1, <3>2
    <2>3. 0..n \subseteq Good
      <3> HIDE DEF Good
      <3> QED
        BY <1>1, <2>1, <2>2, IntervalInduction
    <2> QED
      BY <2>3
  <1>12. R \in [0..n -> A]
    BY <1>9, <1>11
  <1> QED
    BY <1>3, <1>10, <1>12 DEF A, n, next

(* Each division of a value starts where the one before it ended.          *)
LEMMA ShiftedIs ==
  ASSUME NEW value \in Int, NEW count \in Nat
  PROVE  \E r \in [0..count -> Int] :
           /\ r[0] = value
           /\ \A k \in 1..count : r[k] = (r[k - 1] + TryteMax) \div Base
           /\ \A c \in 0..count : Shifted(value, c) = r[c]
  <1>1. PICK r \in [0..count -> Int] :
          /\ r[0] = value
          /\ \A k \in 1..count : r[k] = (r[k - 1] + TryteMax) \div Base
    BY ShiftedUnfolds
  <1>2. ASSUME NEW c \in 0..count PROVE Shifted(value, c) = r[c]
    <2>0. c \in Nat /\ c \in Int /\ 0 \in Int
      OBVIOUS
    <2>1. PICK q \in [0..c -> Int] :
            /\ Shifted(value, c) = q[c] /\ q[0] = value
            /\ \A k \in 1..c : q[k] = (q[k - 1] + TryteMax) \div Base
      BY <2>0, ShiftedUnfolds
    <2> DEFINE Good == {k \in 0..c : q[k] = r[k]}
    <2>2. 0 \in Good
      BY <1>1, <2>0, <2>1
    <2>3. ASSUME NEW k \in 0..c - 1, k \in Good PROVE k + 1 \in Good
      <3>1. k + 1 \in 1..c /\ k + 1 \in 1..count /\ k + 1 \in 0..c /\ (k + 1) - 1 = k
        BY <2>0
      <3>2. q[k + 1] = (q[k] + TryteMax) \div Base /\ r[k + 1] = (r[k] + TryteMax) \div Base
        BY <1>1, <2>1, <3>1
      <3> QED
        BY <2>3, <3>1, <3>2
    <2>4. 0..c \subseteq Good
      <3> HIDE DEF Good
      <3> QED
        BY <2>0, <2>2, <2>3, IntervalInduction
    <2>5. c \in Good
      BY <2>0, <2>4
    <2> QED
      BY <2>1, <2>5
  <1> QED
    BY <1>1, <1>2

(* A value that leaves nothing over is what its trytes say.                *)
LEMMA Encodes ==
  ASSUME NEW value \in Int, NEW count \in Nat, Shifted(value, count) = 0
  PROVE  /\ Value(ToBalancedTernary(value, count)) = value
         /\ ToBalancedTernary(value, count) \in [1..count -> Int]
  <1> DEFINE t == ToBalancedTernary(value, count)
  <1>1. PICK r \in [0..count -> Int] :
          /\ r[0] = value
          /\ \A k \in 1..count : r[k] = (r[k - 1] + TryteMax) \div Base
          /\ \A c \in 0..count : Shifted(value, c) = r[c]
    BY ShiftedIs
  <1>2. ASSUME NEW j \in 1..count
        PROVE  /\ t[j] = ((r[count - j] + TryteMax) % Base) - TryteMax
               /\ t[j] \in Int
    <2>1. count - j \in 0..count
      OBVIOUS
    <2>2. t[j] = ((r[count - j] + TryteMax) % Base) - TryteMax
      BY <1>1, <2>1 DEF ToBalancedTernary
    <2>3. r[count - j] + TryteMax \in Int
      BY <2>1, BaseIs
    <2>4. (r[count - j] + TryteMax) % Base \in Int
      <3> DEFINE x == r[count - j] + TryteMax
      <3>1. x \in Int
        BY <2>3
      <3> HIDE DEF x
      <3>2. x % Base \in Int
        BY <3>1, BaseIs, DivMod
      <3> QED
        BY <3>2 DEF x
    <2> HIDE DEF t
    <2> QED
      BY <2>2, <2>4, BaseIs
  <1>3. t = [j \in 1..count |-> t[j]]
    BY DEF ToBalancedTernary
  <1> HIDE DEF t
  <1>4. Len(t) = count
    BY <1>3, FunctionLength
  <1>5. PICK w \in [0..count -> Int] :
          /\ Value(t) = w[count] /\ w[0] = 0
          /\ \A k \in 1..count : w[k] = Base * w[k - 1] + t[k]
    <2>1. Len(t) \in Nat /\ \A j \in 1..Len(t) : t[j] \in Int
      BY <1>2, <1>4
    <2>2. \E w \in [0..Len(t) -> Int] :
            /\ Value(t) = w[Len(t)] /\ w[0] = 0
            /\ \A k \in 1..Len(t) : w[k] = Base * w[k - 1] + t[k]
      BY <2>1, ValueUnfolds
    <2> QED
      BY <1>4, <2>2
  <1> DEFINE Good == {k \in 0..count : w[k] = r[count - k]}
  <1>6. 0 \in Good /\ 0 \in Int /\ count \in Int
    <2>1. count \in 0..count /\ count - 0 = count /\ 0 \in 0..count
      OBVIOUS
    <2> QED
      BY <1>1, <1>5, <2>1
  <1>7. ASSUME NEW k \in 0..count - 1, k \in Good PROVE k + 1 \in Good
    <2>1. /\ k + 1 \in 1..count /\ k + 1 \in 0..count /\ (k + 1) - 1 = k
          /\ count - (k + 1) \in 0..count /\ count - k \in 1..count /\ (count - k) - 1 = count - (k + 1)
      OBVIOUS
    <2> DEFINE x == r[count - (k + 1)] + TryteMax
    <2>2. x \in Int /\ r[count - (k + 1)] = x - TryteMax
      BY <2>1, BaseIs
    <2>3. w[k] = x \div Base
      BY <1>1, <1>7, <2>1
    <2>4. t[k + 1] = (x % Base) - TryteMax
      BY <1>2, <2>1
    <2> HIDE DEF x
    <2>5. x = Base * (x \div Base) + (x % Base) /\ x \div Base \in Int /\ x % Base \in Int
      BY <2>2, BaseIs, DivMod
    <2>6. w[k + 1] = Base * w[k] + t[k + 1]
      BY <1>5, <2>1
    <2>7. w[k + 1] = x - TryteMax
      <3> DEFINE p == Base * (x \div Base)
                 m == x % Base
      <3>1. w[k + 1] = p + (m - TryteMax) /\ x = p + m
        BY <2>3, <2>4, <2>5, <2>6
      <3>2. p \in Int /\ m \in Int /\ TryteMax \in Int
        BY <2>5, BaseIs
      <3> HIDE DEF p, m
      <3> QED
        BY <3>1, <3>2
    <2> QED
      BY <2>1, <2>2, <2>7
  <1>8. 0..count \subseteq Good
    <2> HIDE DEF Good
    <2> QED
      BY <1>6, <1>7, IntervalInduction
  <1>9. count \in Good /\ count - count = 0
    BY <1>8
  <1>10. Value(t) = value
    BY <1>1, <1>5, <1>9
  <1> QED
    BY <1>2, <1>3, <1>10 DEF t

(* What Encoded lets through reads back as the value; what it refuses has  *)
(* a quotient left over.                                                   *)
LEMMA EncodedValue ==
  ASSUME NEW value \in Int, NEW count \in Nat, NEW e \in Encoded(value, count)
  PROVE  Value(e) = value /\ e \in [1..count -> Int]
  <1>1. e = ToBalancedTernary(value, count) /\ Shifted(value, count) = 0
    BY DEF Encoded
  <1> QED
    BY <1>1, Encodes

LEMMA InRangeValue ==
  ASSUME NEW value \in Int, NEW max, NEW count \in Nat, NEW e \in InRange(value, max, count)
  PROVE  Value(e) = value
  <1>1. e \in Encoded(value, count)
    BY DEF InRange
  <1> QED
    BY <1>1, EncodedValue

LEMMA SingleTryte ==
  ASSUME NEW x \in Int
  PROVE  Value(<<x>>) = x
  <1> DEFINE t == <<x>>
  <1>1. Len(t) = 1 /\ t[1] = x
    OBVIOUS
  <1> HIDE DEF t
  <1>2. PICK w \in [0..Len(t) -> Int] :
          /\ Value(t) = w[Len(t)] /\ w[0] = 0
          /\ \A k \in 1..Len(t) : w[k] = Base * w[k - 1] + t[k]
    BY <1>1, ValueUnfolds
  <1>3. 1 \in 1..Len(t) /\ 1 - 1 = 0
    BY <1>1
  <1>4. Value(t) = Base * 0 + x
    BY <1>1, <1>2, <1>3
  <1> QED
    BY <1>4, BaseIs DEF t

-----------------------------------------------------------------------------
(* What is above a line of the source, and how the line that is read       *)
(* changes it: the counters of the parser are the counts of a reader.      *)

(* The lines of some kinds above line k of a source, counted; and whether  *)
(* line k is in its data section.                                          *)
Above(lines, kinds, k) == {j \in 1..(k - 1) : lines[j].kind \in kinds}
InstructionsAbove(lines, k) == Cardinality(Above(lines, {"instruction"}, k))
DataAbove(lines, k) == Cardinality(Above(lines, {".word", ".zero"}, k))
DataOpenAt(lines, k) ==
  \E j \in 1..(k - 1) :
    lines[j].kind = ".data" /\ \A l \in (j + 1)..(k - 1) : lines[l].kind # ".text"

(* A source has finitely many lines above each of its lines.               *)
LEMMA CountsAreNumbers ==
  ASSUME NEW lines, NEW kinds, NEW k \in Nat
  PROVE  IsFiniteSet(Above(lines, kinds, k)) /\ Cardinality(Above(lines, kinds, k)) \in Nat
  <1>1. Above(lines, kinds, k) \subseteq 1..k - 1
    BY DEF Above
  <1>2. IsFiniteSet(1..k - 1)
    BY FS_Interval
  <1> QED
    BY <1>1, <1>2, FS_Subset, FS_CardinalityType

(* The parser has read one more line: the lines before it are where they   *)
(* were.                                                                   *)
LineAdded(lines, more, line, n) ==
  /\ n \in Nat \ {0}
  /\ Len(lines) = n - 1 /\ DOMAIN lines = 1..n - 1
  /\ Len(more) = n /\ DOMAIN more = 1..n
  /\ more[n] = line /\ \A k \in 1..n - 1 : more[k] = lines[k]
  /\ \A k \in 1..n : /\ InstructionsAbove(lines, k) \in Nat /\ DataAbove(lines, k) \in Nat
                     /\ InstructionsAbove(more, k) = InstructionsAbove(lines, k)
                     /\ DataAbove(more, k) = DataAbove(lines, k)
                     /\ DataOpenAt(more, k) <=> DataOpenAt(lines, k)
  /\ InstructionsAbove(more, n + 1) =
       InstructionsAbove(lines, n) + (IF line.kind = "instruction" THEN 1 ELSE 0)
  /\ DataAbove(more, n + 1) =
       DataAbove(lines, n) + (IF line.kind \in {".word", ".zero"} THEN 1 ELSE 0)
  /\ line.kind \notin {".data", ".text"} => (DataOpenAt(more, n + 1) <=> DataOpenAt(lines, n))
  /\ line.kind = ".data" => DataOpenAt(more, n + 1)
  /\ line.kind = ".text" => ~ DataOpenAt(more, n + 1)

(* A line that is read changes nothing above the lines before it, and what *)
(* is above the next line by itself.                                       *)
LEMMA OneLineMore ==
  ASSUME NEW S, NEW lines \in Seq(S), NEW line \in S
  PROVE  LineAdded(lines, Append(lines, line), line, Len(lines) + 1)
  <1> DEFINE more == Append(lines, line)
             n == Len(lines) + 1
  <1>1. /\ n \in Nat /\ n - 1 = Len(lines) /\ (n + 1) - 1 = n /\ DOMAIN more = 1..n
        /\ more[n] = line /\ \A k \in 1..n - 1 : more[k] = lines[k]
    OBVIOUS
  <1> HIDE DEF more, n
  <1>2. ASSUME NEW k \in 1..n
        PROVE  /\ \A kinds : Above(more, kinds, k) = Above(lines, kinds, k)
               /\ DataOpenAt(more, k) <=> DataOpenAt(lines, k)
    <2>1. \A j \in 1..k - 1 : j \in 1..n - 1 /\ more[j] = lines[j]
      BY <1>1
    <2>2. \A j \in 1..k - 1 : \A l \in j + 1..k - 1 : l \in 1..k - 1
      BY <1>1
    <2> QED
      BY <2>1, <2>2 DEF Above, DataOpenAt
  <1>3. ASSUME NEW kinds
        PROVE  Cardinality(Above(more, kinds, n + 1)) =
                 Cardinality(Above(lines, kinds, n)) + (IF line.kind \in kinds THEN 1 ELSE 0)
    <2>1. IsFiniteSet(Above(lines, kinds, n)) /\ Cardinality(Above(lines, kinds, n)) \in Nat
      BY <1>1, CountsAreNumbers
    <2>2. n \notin Above(lines, kinds, n)
      BY <1>1 DEF Above
    <2>3. \A j : j \in 1..(n + 1) - 1 <=> j \in 1..n - 1 \/ j = n
      BY <1>1
    <2>4. CASE line.kind \in kinds
      <3>1. Above(more, kinds, n + 1) = Above(lines, kinds, n) \cup {n}
        BY <1>1, <2>3, <2>4 DEF Above
      <3> QED
        BY <2>1, <2>2, <2>4, <3>1, FS_AddElement
    <2>5. CASE line.kind \notin kinds
      <3>1. Above(more, kinds, n + 1) = Above(lines, kinds, n)
        BY <1>1, <2>3, <2>5 DEF Above
      <3> QED
        BY <2>1, <2>5, <3>1
    <2> QED
      BY <2>4, <2>5
  <1>4. ASSUME line.kind \notin {".data", ".text"}
        PROVE  DataOpenAt(more, n + 1) <=> DataOpenAt(lines, n)
    <2>1. ASSUME NEW j \in 1..n - 1
          PROVE  (\A l \in j + 1..n : more[l].kind # ".text") <=> (\A l \in j + 1..n - 1 : lines[l].kind # ".text")
      <3>1. \A l : l \in j + 1..n <=> l \in j + 1..n - 1 \/ l = n
        BY <1>1, <2>1
      <3>2. \A l \in j + 1..n - 1 : more[l] = lines[l]
        BY <1>1, <2>1
      <3> QED
        BY <1>1, <1>4, <3>1, <3>2
    <2>2. \A j : j \in 1..n <=> j \in 1..n - 1 \/ j = n
      BY <1>1
    <2>3. more[n].kind # ".data"
      BY <1>1, <1>4
    <2>4. \A j \in 1..n - 1 : more[j] = lines[j]
      BY <1>1
    <2> QED
      BY <1>1, <2>1, <2>2, <2>3, <2>4 DEF DataOpenAt
  <1>5. ASSUME line.kind = ".data" PROVE DataOpenAt(more, n + 1)
    <2>1. n \in 1..n /\ more[n].kind = ".data" /\ \A l \in n + 1..n : FALSE
      BY <1>1, <1>5
    <2> QED
      BY <1>1, <2>1 DEF DataOpenAt
  <1>6. ASSUME line.kind = ".text" PROVE ~ DataOpenAt(more, n + 1)
    <2>1. \A j \in 1..n : j = n \/ n \in j + 1..n
      BY <1>1
    <2>2. more[n].kind = ".text"
      BY <1>1, <1>6
    <2> QED
      BY <1>1, <2>1, <2>2 DEF DataOpenAt
  <1>7. /\ InstructionsAbove(more, n + 1) =
             InstructionsAbove(lines, n) + (IF line.kind = "instruction" THEN 1 ELSE 0)
        /\ DataAbove(more, n + 1) =
             DataAbove(lines, n) + (IF line.kind \in {".word", ".zero"} THEN 1 ELSE 0)
    <2>1. Cardinality(Above(more, {"instruction"}, n + 1)) =
            Cardinality(Above(lines, {"instruction"}, n)) + (IF line.kind \in {"instruction"} THEN 1 ELSE 0)
      BY <1>3
    <2>2. Cardinality(Above(more, {".word", ".zero"}, n + 1)) =
            Cardinality(Above(lines, {".word", ".zero"}, n)) + (IF line.kind \in {".word", ".zero"} THEN 1 ELSE 0)
      BY <1>3
    <2> QED
      BY <2>1, <2>2 DEF InstructionsAbove, DataAbove
  <1>8. ASSUME NEW k \in 1..n
        PROVE  /\ InstructionsAbove(lines, k) \in Nat /\ DataAbove(lines, k) \in Nat
               /\ InstructionsAbove(more, k) = InstructionsAbove(lines, k)
               /\ DataAbove(more, k) = DataAbove(lines, k)
    <2>1. k \in Nat
      BY <1>1
    <2>2. \A kinds : Cardinality(Above(lines, kinds, k)) \in Nat
      BY <2>1, CountsAreNumbers
    <2>3. \A kinds : Above(more, kinds, k) = Above(lines, kinds, k)
      BY <1>2
    <2>4. InstructionsAbove(lines, k) \in Nat /\ DataAbove(lines, k) \in Nat
      BY <2>2 DEF InstructionsAbove, DataAbove
    <2>5. InstructionsAbove(more, k) = InstructionsAbove(lines, k)
      BY <2>3 DEF InstructionsAbove
    <2>6. DataAbove(more, k) = DataAbove(lines, k)
      BY <2>3 DEF DataAbove
    <2> QED
      BY <2>4, <2>5, <2>6
  <1>9. n \in Nat \ {0} /\ Len(lines) = n - 1 /\ DOMAIN lines = 1..n - 1 /\ Len(more) = n
    BY DEF more, n
  <1>10. LineAdded(lines, more, line, n)
    BY <1>1, <1>2, <1>4, <1>5, <1>6, <1>7, <1>8, <1>9 DEF LineAdded
  <1> QED
    BY <1>10 DEF more, n

(* What is above the line that is read was counted when the line before it *)
(* was read.                                                               *)
LEMMA AtTheLine ==
  ASSUME NEW lines, NEW more, NEW line, NEW n, LineAdded(lines, more, line, n)
  PROVE  /\ InstructionsAbove(more, n) = InstructionsAbove(lines, n)
         /\ DataAbove(more, n) = DataAbove(lines, n)
         /\ DataOpenAt(more, n) <=> DataOpenAt(lines, n)
         /\ line.kind \notin {".data", ".text"} => (DataOpenAt(more, n + 1) <=> DataOpenAt(lines, n))
  <1>1. n \in 1..n
    BY DEF LineAdded
  <1> QED
    BY <1>1 DEF LineAdded

-----------------------------------------------------------------------------
(* What the parser's lists hold of each line that was read.                *)

(* Where the datum after the first n of an image begins.                   *)
OffsetAfter(image, n) == IF n = 0 THEN 0 ELSE image[n].offset + image[n].size

(* What line k has left in the parser's lists.                             *)
InstructionRead(lines, statements, k) ==
  lines[k].kind = "instruction" =>
    /\ InstructionsAbove(lines, k) < Len(statements)
    /\ statements[InstructionsAbove(lines, k) + 1] = lines[k].operands
WordRead(lines, image, k) ==
  lines[k].kind = ".word" =>
    /\ DataAbove(lines, k) < Len(image)
    /\ image[DataAbove(lines, k) + 1].directive = ".word"
    /\ image[DataAbove(lines, k) + 1].operand = lines[k].token
LabelRead(lines, image, table, k) ==
  lines[k].kind = "label" =>
    /\ lines[k].name \in DOMAIN table
    /\ DataAbove(lines, k) <= Len(image)
    /\ table[lines[k].name].isData <=> DataOpenAt(lines, k)
    /\ table[lines[k].name].index =
         IF DataOpenAt(lines, k) THEN OffsetAfter(image, DataAbove(lines, k))
         ELSE InstructionsAbove(lines, k)
    /\ \A j \in DOMAIN lines :
         lines[j].kind = "label" /\ lines[j].name = lines[k].name => j = k
LineParsed(lines, statements, image, table, k) ==
  InstructionRead(lines, statements, k) /\ WordRead(lines, image, k)
    /\ LabelRead(lines, image, table, k)

SourceInv ==
  pc # "failed" =>
    /\ inData <=> DataOpenAt(source, Len(source) + 1)
    /\ Len(instructions) = InstructionsAbove(source, Len(source) + 1)
    /\ Len(data) = DataAbove(source, Len(source) + 1)
    /\ \A k \in DOMAIN source : LineParsed(source, instructions, data, labels, k)

LEMMA InitSource == Init => SourceInv
  <1> SUFFICES ASSUME Init PROVE SourceInv
    OBVIOUS
  <1>1. /\ source = <<>> /\ inData = FALSE /\ instructions = <<>> /\ data = <<>>
        /\ DOMAIN source = {} /\ Len(source) + 1 = 1 /\ Len(instructions) = 0 /\ Len(data) = 0
    BY DEF Init
  <1>2. ~ DataOpenAt(source, 1)
    BY DEF DataOpenAt
  <1>3. \A kinds : Cardinality(Above(source, kinds, 1)) = 0
    <2> SUFFICES ASSUME NEW kinds PROVE Cardinality(Above(source, kinds, 1)) = 0
      OBVIOUS
    <2>1. Above(source, kinds, 1) = {}
      BY DEF Above
    <2> QED
      BY <2>1, FS_EmptySet
  <1>4. InstructionsAbove(source, 1) = 0 /\ DataAbove(source, 1) = 0
    BY <1>3 DEF InstructionsAbove, DataAbove
  <1> QED
    BY <1>1, <1>2, <1>4 DEF SourceInv

(* A line the parser rejects ends the assembly.                            *)
LEMMA ThrowSource == Throw => SourceInv'
  BY DEF Throw, SourceInv

(* A list of the parser that has grown at its end.                         *)
Grown(list, longer) ==
  /\ Len(list) \in Nat /\ Len(longer) \in Nat /\ Len(list) <= Len(longer)
  /\ \A i \in 1..Len(list) : longer[i] = list[i]

(* What the lines before the one that is read have left stays.             *)
LEMMA OldLines ==
  ASSUME NEW lines, NEW more, NEW line, NEW n \in Nat, LineAdded(lines, more, line, n),
         NEW statements, NEW statements2, Grown(statements, statements2),
         NEW image, NEW image2, Grown(image, image2),
         NEW table, NEW table2, DOMAIN table \subseteq DOMAIN table2,
         \A m \in DOMAIN table : table2[m] = table[m],
         line.kind = "label" => line.name \notin DOMAIN table,
         NEW k \in 1..n - 1, LineParsed(lines, statements, image, table, k)
  PROVE  LineParsed(more, statements2, image2, table2, k)
  <1>1. /\ DOMAIN lines = 1..n - 1 /\ DOMAIN more = 1..n
        /\ more[n] = line /\ \A j \in 1..n - 1 : more[j] = lines[j]
        /\ InstructionsAbove(lines, k) \in Nat /\ InstructionsAbove(more, k) = InstructionsAbove(lines, k)
        /\ DataAbove(lines, k) \in Nat /\ DataAbove(more, k) = DataAbove(lines, k)
        /\ DataOpenAt(more, k) <=> DataOpenAt(lines, k)
    BY DEF LineAdded
  <1>2. more[k] = lines[k]
    BY <1>1
  <1>3. InstructionRead(more, statements2, k)
    <2> SUFFICES ASSUME lines[k].kind = "instruction"
                 PROVE  /\ InstructionsAbove(lines, k) < Len(statements2)
                        /\ statements2[InstructionsAbove(lines, k) + 1] = lines[k].operands
      BY <1>1, <1>2 DEF InstructionRead
    <2>1. /\ InstructionsAbove(lines, k) < Len(statements)
          /\ statements[InstructionsAbove(lines, k) + 1] = lines[k].operands
      BY DEF InstructionRead, LineParsed
    <2>2. InstructionsAbove(lines, k) + 1 \in 1..Len(statements)
      BY <1>1, <2>1 DEF Grown
    <2> QED
      BY <1>1, <2>1, <2>2 DEF Grown
  <1>4. WordRead(more, image2, k)
    <2> SUFFICES ASSUME lines[k].kind = ".word"
                 PROVE  /\ DataAbove(lines, k) < Len(image2)
                        /\ image2[DataAbove(lines, k) + 1].directive = ".word"
                        /\ image2[DataAbove(lines, k) + 1].operand = lines[k].token
      BY <1>1, <1>2 DEF WordRead
    <2>1. /\ DataAbove(lines, k) < Len(image)
          /\ image[DataAbove(lines, k) + 1].directive = ".word"
          /\ image[DataAbove(lines, k) + 1].operand = lines[k].token
      BY DEF WordRead, LineParsed
    <2>2. DataAbove(lines, k) + 1 \in 1..Len(image)
      BY <1>1, <2>1 DEF Grown
    <2> QED
      BY <1>1, <2>1, <2>2 DEF Grown
  <1>5. LabelRead(more, image2, table2, k)
    <2> SUFFICES ASSUME lines[k].kind = "label"
                 PROVE  /\ lines[k].name \in DOMAIN table2
                        /\ DataAbove(lines, k) <= Len(image2)
                        /\ table2[lines[k].name].isData <=> DataOpenAt(lines, k)
                        /\ table2[lines[k].name].index =
                             IF DataOpenAt(lines, k) THEN OffsetAfter(image2, DataAbove(lines, k))
                             ELSE InstructionsAbove(lines, k)
                        /\ \A j \in DOMAIN more :
                             more[j].kind = "label" /\ more[j].name = lines[k].name => j = k
      BY <1>1, <1>2 DEF LabelRead
    <2>1. /\ lines[k].name \in DOMAIN table
          /\ DataAbove(lines, k) <= Len(image)
          /\ table[lines[k].name].isData <=> DataOpenAt(lines, k)
          /\ table[lines[k].name].index =
               IF DataOpenAt(lines, k) THEN OffsetAfter(image, DataAbove(lines, k))
               ELSE InstructionsAbove(lines, k)
          /\ \A j \in DOMAIN lines :
               lines[j].kind = "label" /\ lines[j].name = lines[k].name => j = k
      BY DEF LabelRead, LineParsed
    <2>2. OffsetAfter(image2, DataAbove(lines, k)) = OffsetAfter(image, DataAbove(lines, k))
      <3>1. DataAbove(lines, k) # 0 => DataAbove(lines, k) \in 1..Len(image)
        BY <1>1, <2>1 DEF Grown
      <3> QED
        BY <3>1 DEF OffsetAfter, Grown
    <2>3. ASSUME NEW j \in DOMAIN more, more[j].kind = "label", more[j].name = lines[k].name
          PROVE  j = k
      <3>1. CASE j = n
        BY <1>1, <2>1, <2>3, <3>1
      <3>2. CASE j # n
        <4>1. j \in DOMAIN lines /\ more[j] = lines[j]
          BY <1>1, <3>2
        <4> QED
          BY <2>1, <2>3, <4>1
      <3> QED
        BY <3>1, <3>2
    <2>4. DataAbove(lines, k) <= Len(image2)
      BY <1>1, <2>1 DEF Grown
    <2> QED
      BY <2>1, <2>2, <2>3, <2>4
  <1> QED
    BY <1>3, <1>4, <1>5 DEF LineParsed

(* It suffices to look at the line that is read.                           *)
LEMMA LineRead ==
  ASSUME TypeOK, SourceInv, NEW line \in Lines, Read(line),
         Grown(instructions, instructions'), Grown(data, data'),
         DOMAIN labels \subseteq DOMAIN labels', \A m \in DOMAIN labels : labels'[m] = labels[m],
         line.kind = "label" => line.name \notin DOMAIN labels,
         Len(instructions') = Len(instructions) + (IF line.kind = "instruction" THEN 1 ELSE 0),
         Len(data') = Len(data) + (IF line.kind \in {".word", ".zero"} THEN 1 ELSE 0),
         NEW n \in Nat, LineAdded(source, source', line, n),
         inData' <=> DataOpenAt(source', n + 1),
         LineParsed(source', instructions', data', labels', n)
  PROVE  SourceInv'
  <1>1. pc # "failed" /\ Len(source) + 1 = n /\ Len(source') = n /\ DOMAIN source = 1..n - 1 /\ DOMAIN source' = 1..n
    BY DEF Read, LineAdded
  <1>2. /\ Len(instructions) = InstructionsAbove(source, n) /\ Len(data) = DataAbove(source, n)
        /\ \A k \in 1..n - 1 : LineParsed(source, instructions, data, labels, k)
    BY <1>1 DEF SourceInv
  <1>3. /\ InstructionsAbove(source', n + 1) = Len(instructions')
        /\ DataAbove(source', n + 1) = Len(data')
    BY <1>2 DEF LineAdded
  <1>4. \A k \in 1..n - 1 : LineParsed(source', instructions', data', labels', k)
    BY <1>2, OldLines
  <1>5. \A k \in 1..n : LineParsed(source', instructions', data', labels', k)
    <2>1. \A k \in 1..n : k \in 1..n - 1 \/ k = n
      OBVIOUS
    <2> QED
      BY <1>4, <2>1
  <1> QED
    BY <1>1, <1>3, <1>5 DEF SourceInv

LEMMA ReadLine ==
  ASSUME TypeOK, NEW line \in Lines, Read(line)
  PROVE  \E n \in Nat : LineAdded(source, source', line, n)
  <1>1. source \in Seq(Lines) /\ source' = Append(source, line) /\ Len(source) + 1 \in Nat
    BY DEF TypeOK, Read
  <1>2. LineAdded(source, source', line, Len(source) + 1)
    BY <1>1, OneLineMore
  <1> QED
    BY <1>1, <1>2

(* What is left alone has grown by nothing.                                *)
LEMMA Same ==
  ASSUME TypeOK
  PROVE  /\ UNCHANGED instructions => Grown(instructions, instructions')
         /\ UNCHANGED data => Grown(data, data')
  BY DEF TypeOK, Grown

(* A directive opens or closes the data section for the lines below it.    *)
LEMMA SectionSource == TypeOK /\ SourceInv /\ Section => SourceInv'
  <1> SUFFICES ASSUME TypeOK, SourceInv, NEW line \in Lines, line.kind \in {".text", ".data"}, Read(line),
                      inData' = (line.kind = ".data"),
                      UNCHANGED <<pc, dataOffset, labels, instructions, data>>
               PROVE  SourceInv'
    BY DEF Section
  <1>1. PICK n \in Nat : LineAdded(source, source', line, n)
    BY ReadLine
  <1>2. /\ Len(instructions') = Len(instructions) + 0 /\ Len(data') = Len(data) + 0
        /\ Grown(instructions, instructions') /\ Grown(data, data')
    BY Same DEF TypeOK
  <1>3. inData' <=> DataOpenAt(source', n + 1)
    <2>1. (line.kind = ".data" => DataOpenAt(source', n + 1)) /\ (line.kind = ".text" => ~ DataOpenAt(source', n + 1))
      BY <1>1 DEF LineAdded
    <2> QED
      BY <2>1
  <1>4. LineParsed(source', instructions', data', labels', n)
    <2>1. source'[n] = line
      BY <1>1 DEF LineAdded
    <2> QED
      BY <2>1 DEF InstructionRead, WordRead, LabelRead, LineParsed
  <1>5. /\ Len(instructions') = Len(instructions) + (IF line.kind = "instruction" THEN 1 ELSE 0)
        /\ Len(data') = Len(data) + (IF line.kind \in {".word", ".zero"} THEN 1 ELSE 0)
        /\ DOMAIN labels \subseteq DOMAIN labels' /\ \A m \in DOMAIN labels : labels'[m] = labels[m]
        /\ line.kind # "label"
    BY <1>2
  <1> QED
    BY <1>1, <1>2, <1>3, <1>4, <1>5, LineRead

(* A label is bound to where the next statement of its section will be.    *)
LEMMA BindLabelSource == IInv /\ SourceInv /\ BindLabel => SourceInv'
  <1> SUFFICES ASSUME IInv, SourceInv, NEW line \in Lines, line.kind = "label",
                      line.name \notin DOMAIN labels, Read(line),
                      labels' = [n \in DOMAIN labels \cup {line.name} |->
                                   IF n \in DOMAIN labels THEN labels[n]
                                   ELSE [index |-> IF inData THEN dataOffset ELSE Len(instructions),
                                         isData |-> inData]],
                      UNCHANGED <<pc, inData, dataOffset, instructions, data>>
               PROVE  SourceInv'
    BY DEF BindLabel
  <1>1. TypeOK /\ DataInSequence
    BY DEF IInv
  <1>2. PICK n \in Nat : LineAdded(source, source', line, n)
    BY <1>1, ReadLine
  <1>3. /\ Len(instructions') = Len(instructions) + 0 /\ Len(data') = Len(data) + 0
        /\ Grown(instructions, instructions') /\ Grown(data, data')
    BY <1>1, Same DEF TypeOK
  <1>4. pc # "failed" /\ Len(source) + 1 = n /\ DOMAIN source' = 1..n /\ source'[n] = line
        /\ DOMAIN source = 1..n - 1 /\ \A k \in 1..n - 1 : source'[k] = source[k]
    BY <1>2 DEF Read, LineAdded
  <1>5. /\ inData <=> DataOpenAt(source, n)
        /\ Len(instructions) = InstructionsAbove(source, n) /\ Len(data) = DataAbove(source, n)
        /\ \A k \in 1..n - 1 : LineParsed(source, instructions, data, labels, k)
    BY <1>4 DEF SourceInv
  <1>6. /\ DataOpenAt(source', n) <=> inData
        /\ DataOpenAt(source', n + 1) <=> inData
        /\ InstructionsAbove(source', n) = Len(instructions) /\ DataAbove(source', n) = Len(data)
    BY <1>2, <1>5, AtTheLine
  <1>7. dataOffset = OffsetAfter(data, Len(data))
    BY <1>1 DEF DataInSequence, OffsetAfter
  <1>8. DOMAIN labels' = DOMAIN labels \cup {line.name} /\ \A m \in DOMAIN labels : labels'[m] = labels[m]
    OBVIOUS
  <1>9. LineParsed(source', instructions', data', labels', n)
    <2>1. labels'[line.name] = [index |-> IF inData THEN dataOffset ELSE Len(instructions),
                                isData |-> inData]
      BY <1>8
    <2>2. /\ labels'[line.name].isData = inData
          /\ labels'[line.name].index = IF inData THEN dataOffset ELSE Len(instructions)
      BY <2>1
    <2>3. \A j \in 1..n : source'[j].kind = "label" /\ source'[j].name = line.name => j = n
      <3> SUFFICES ASSUME NEW j \in 1..n - 1, source'[j].kind = "label", source'[j].name = line.name
                   PROVE  FALSE
        BY <1>1, <1>4 DEF TypeOK
      <3>1. LabelRead(source, data, labels, j) /\ source'[j] = source[j]
        BY <1>4, <1>5 DEF LineParsed
      <3> QED
        BY <3>1 DEF LabelRead
    <2>4. LabelRead(source', data', labels', n)
      <3>1. DataAbove(source', n) <= Len(data')
        BY <1>1, <1>6 DEF TypeOK
      <3>2. labels'[line.name].isData <=> DataOpenAt(source', n)
        BY <1>6, <2>2
      <3>3. labels'[line.name].index =
              IF DataOpenAt(source', n) THEN OffsetAfter(data', DataAbove(source', n))
              ELSE InstructionsAbove(source', n)
        BY <1>6, <1>7, <2>2
      <3> QED
        BY <1>4, <1>8, <2>3, <3>1, <3>2, <3>3 DEF LabelRead
    <2> QED
      BY <1>4, <2>4 DEF LineParsed, InstructionRead, WordRead
  <1>10. /\ Len(instructions') = Len(instructions) + (IF line.kind = "instruction" THEN 1 ELSE 0)
         /\ Len(data') = Len(data) + (IF line.kind \in {".word", ".zero"} THEN 1 ELSE 0)
         /\ DOMAIN labels \subseteq DOMAIN labels'
    BY <1>3, <1>8
  <1>11. inData' <=> DataOpenAt(source', n + 1)
    BY <1>6
  <1> QED
    BY <1>1, <1>2, <1>3, <1>8, <1>9, <1>10, <1>11, LineRead

(* A datum is found where the data lines above it are counted to.          *)
LEMMA AddDatumSource ==
  ASSUME IInv, SourceInv, NEW line \in Lines, line.kind \in {".word", ".zero"}, Read(line),
         NEW directive, NEW operand, NEW size, AddDatum(directive, operand, size),
         line.kind = ".word" => directive = ".word" /\ operand = line.token
  PROVE  SourceInv'
  <1>1. TypeOK
    BY DEF IInv
  <1>2. PICK n \in Nat : LineAdded(source, source', line, n)
    BY <1>1, ReadLine
  <1>3. pc # "failed" /\ Len(source) + 1 = n /\ DOMAIN source' = 1..n /\ source'[n] = line
    BY <1>2 DEF Read, LineAdded
  <1>4. /\ (inData <=> DataOpenAt(source, n)) /\ Len(data) = DataAbove(source, n)
    BY <1>3 DEF SourceInv
  <1>5. DataAbove(source', n) = Len(data)
    BY <1>2, <1>4, AtTheLine
  <1> DEFINE datum == [directive |-> directive, operand |-> operand, offset |-> dataOffset, size |-> size]
  <1>6. data' = Append(data, datum) /\ UNCHANGED <<pc, inData, labels, instructions>>
    BY DEF AddDatum
  <1>7. datum.directive = directive /\ datum.operand = operand
    OBVIOUS
  <1> HIDE DEF datum
  <1>8. /\ Len(data) \in Nat /\ Len(data') = Len(data) + 1 /\ data'[Len(data) + 1] = datum
        /\ Grown(data, data')
    <2>1. IsSequence(data)
      BY <1>1, SequenceOfElements DEF TypeOK
    <2>2. /\ Len(data) \in Nat /\ Len(data') = Len(data) + 1 /\ data'[Len(data) + 1] = datum
          /\ \A i \in 1..Len(data) : data'[i] = data[i]
      BY <1>6, <2>1, AnyAppended
    <2> QED
      BY <2>2 DEF Grown
  <1>9. Grown(instructions, instructions') /\ Len(instructions') = Len(instructions) + 0
    BY <1>1, <1>6, Same DEF TypeOK
  <1>10. LineParsed(source', instructions', data', labels', n)
    <2>1. WordRead(source', data', n)
      BY <1>3, <1>5, <1>7, <1>8 DEF WordRead
    <2> QED
      BY <1>3, <2>1 DEF LineParsed, InstructionRead, LabelRead
  <1>11. inData' <=> DataOpenAt(source', n + 1)
    BY <1>2, <1>4, <1>6, AtTheLine
  <1>12. /\ Len(instructions') = Len(instructions) + (IF line.kind = "instruction" THEN 1 ELSE 0)
         /\ Len(data') = Len(data) + (IF line.kind \in {".word", ".zero"} THEN 1 ELSE 0)
         /\ DOMAIN labels \subseteq DOMAIN labels' /\ \A m \in DOMAIN labels : labels'[m] = labels[m]
         /\ line.kind # "label"
    BY <1>6, <1>8, <1>9
  <1> QED
    BY <1>1, <1>2, <1>8, <1>9, <1>10, <1>11, <1>12, LineRead

LEMMA WordSource == IInv /\ SourceInv /\ Word => SourceInv'
  <1> SUFFICES ASSUME IInv, SourceInv, NEW line \in Lines, line.kind = ".word", Read(line),
                      AddDatum(".word", line.token, WordTrytes)
               PROVE  SourceInv'
    BY DEF Word
  <1> QED
    BY AddDatumSource

LEMMA ZeroSource == IInv /\ SourceInv /\ Zero => SourceInv'
  <1> DEFINE operand(line) == [kind |-> "number", value |-> line.count]
  <1> SUFFICES ASSUME IInv, SourceInv, NEW line \in Lines, line.kind = ".zero", Read(line),
                      AddDatum(".zero", operand(line), line.count)
               PROVE  SourceInv'
    BY DEF Zero
  <1> HIDE DEF operand
  <1> QED
    BY AddDatumSource

(* An instruction is found where the instruction lines above it are        *)
(* counted to.                                                             *)
LEMMA InstructionSource == IInv /\ SourceInv /\ Instruction => SourceInv'
  <1> SUFFICES ASSUME IInv, SourceInv, NEW line \in Lines, line.kind = "instruction", Read(line),
                      instructions' = Append(instructions, line.operands),
                      UNCHANGED <<pc, inData, dataOffset, labels, data>>
               PROVE  SourceInv'
    BY DEF Instruction
  <1>1. TypeOK
    BY DEF IInv
  <1>2. PICK n \in Nat : LineAdded(source, source', line, n)
    BY <1>1, ReadLine
  <1>3. pc # "failed" /\ Len(source) + 1 = n /\ DOMAIN source' = 1..n /\ source'[n] = line
    BY <1>2 DEF Read, LineAdded
  <1>4. /\ (inData <=> DataOpenAt(source, n)) /\ Len(instructions) = InstructionsAbove(source, n)
    BY <1>3 DEF SourceInv
  <1>5. InstructionsAbove(source', n) = Len(instructions)
    BY <1>2, <1>4, AtTheLine
  <1>6. /\ Len(instructions) \in Nat /\ Len(instructions') = Len(instructions) + 1
        /\ instructions'[Len(instructions) + 1] = line.operands
        /\ Grown(instructions, instructions')
    <2>1. IsSequence(instructions)
      BY <1>1, SequenceOfElements DEF TypeOK
    <2>2. /\ Len(instructions) \in Nat /\ Len(instructions') = Len(instructions) + 1
          /\ instructions'[Len(instructions) + 1] = line.operands
          /\ \A i \in 1..Len(instructions) : instructions'[i] = instructions[i]
      <3> HIDE DEF Read
      <3> QED
      BY <2>1, AnyAppended
    <2> QED
      BY <2>2 DEF Grown
  <1>7. Grown(data, data') /\ Len(data') = Len(data) + 0
    BY <1>1, Same DEF TypeOK
  <1>8. LineParsed(source', instructions', data', labels', n)
    <2>1. InstructionRead(source', instructions', n)
      BY <1>3, <1>5, <1>6 DEF InstructionRead
    <2> QED
      BY <1>3, <2>1 DEF LineParsed, WordRead, LabelRead
  <1>9. inData' <=> DataOpenAt(source', n + 1)
    BY <1>2, <1>4, AtTheLine
  <1>10. /\ Len(instructions') = Len(instructions) + (IF line.kind = "instruction" THEN 1 ELSE 0)
         /\ Len(data') = Len(data) + (IF line.kind \in {".word", ".zero"} THEN 1 ELSE 0)
         /\ DOMAIN labels \subseteq DOMAIN labels' /\ \A m \in DOMAIN labels : labels'[m] = labels[m]
         /\ line.kind # "label"
    BY <1>6, <1>7
  <1> QED
    BY <1>1, <1>2, <1>6, <1>7, <1>8, <1>9, <1>10, LineRead

(* After the last line the source and what was parsed of it stay.          *)
LEMMA LaterSource == SourceInv /\ pc # "failed" /\ UNCHANGED <<source, parsing>> => SourceInv'
  BY DEF SourceInv, parsing

(* Every step keeps what the lines have left; a throw leaves nothing to    *)
(* keep.                                                                   *)
LEMMA NextSource == IInv /\ SourceInv /\ [Next]_vars => SourceInv'
  <1> SUFFICES ASSUME IInv, SourceInv, [Next]_vars PROVE SourceInv'
    OBVIOUS
  <1>1. CASE ParseLine
    <2>1. CASE RejectLabel \/ RejectData \/ RejectInstruction \/ RejectLine
      BY <2>1, ThrowSource DEF RejectLabel, RejectData, RejectInstruction, RejectLine
    <2> QED
      BY <1>1, <2>1, BindLabelSource, SectionSource, WordSource, ZeroSource, InstructionSource DEF ParseLine, IInv
  <1>2. CASE EndOfSource \/ EncodeInstruction \/ InstructionsEncoded \/ EncodeDatum \/ DataEncoded
    BY <1>2, LaterSource
       DEF EndOfSource, EncodeInstruction, InstructionsEncoded, EncodeDatum, DataEncoded
  <1>3. CASE RejectOperand
    BY <1>3 DEF RejectOperand, SourceInv
  <1>4. CASE UNCHANGED vars
    BY <1>4 DEF vars, parsing, SourceInv
  <1> QED
    BY <1>1, <1>2, <1>3, <1>4 DEF Next

-----------------------------------------------------------------------------
(* The operand encoders: what an encoded field or word says of its token,  *)
(* under any table of final labels.                                        *)

(* What the fields and words of the images mean, given the final labels.   *)
LabelValue(field, label, value, current) ==
  IF label.isData THEN value = label.index
  ELSE CASE field = "abs24" -> value = label.index
         [] field = "slot6" -> value = AddressSpace(label.index)
         [] OTHER           -> current + value = label.index

FieldMeans(table, operand, value, current) ==
  /\ operand.token.kind = "number" => value = operand.token.value
  /\ IsCsr(operand) => value = CsrNumber[operand.token.name]
  /\ ~IsCsr(operand) /\ Names(operand.token, table) =>
       LabelValue(operand.field, table[operand.token.name], value, current)

WordMeans(table, token, value) ==
  /\ token.kind = "number" => value = token.value
  /\ Names(token, table) => value = table[token.name].index

LEMMA TokenParts ==
  ASSUME NEW token \in Token
  PROVE  /\ token.kind \in {"name", "number", "trits"}
         /\ token.kind = "number" => token.value \in Int
  BY DEF Token

LEMMA LabelParts ==
  ASSUME TypeOK, NEW name \in DOMAIN finalLabels
  PROVE  finalLabels[name].index \in Int /\ finalLabels[name].isData \in BOOLEAN
  <1>1. finalLabels[name] \in [index : Nat, isData : BOOLEAN]
    BY DEF TypeOK
  <1> QED
    BY <1>1

LEMMA LiteralMeans ==
  ASSUME NEW token \in Token, NEW max, NEW count \in Nat, NEW e \in Literal(token, max, count)
  PROVE  token.kind # "name" /\ (token.kind = "number" => Value(e) = token.value)
  <1>1. token.kind # "name"
    BY TokenParts DEF Literal
  <1>2. ASSUME token.kind = "number" PROVE Value(e) = token.value
    <2>1. token.value \in Int /\ e \in InRange(token.value, max, count)
      BY <1>2, TokenParts DEF Literal
    <2> QED
      BY <2>1, InRangeValue
  <1> QED
    BY <1>1, <1>2

(* ParseWide12: a CSR name comes first, then a label, a literal last.      *)
LEMMA WideMeans ==
  ASSUME TypeOK, NEW operand \in [field : Field, token : Token], operand.field \in Wide,
         NEW current \in Nat, NEW e \in ParseWide12(operand.token, current)
  PROVE  FieldMeans(finalLabels, operand, Value(e), current)
  <1> DEFINE token == operand.token
  <1>1. token \in Token /\ operand.field \notin {"abs24", "slot6"}
    BY DEF Wide
  <1>2. CASE Names(token, CsrNumber)
    <2>1. CsrNumber[token.name] \in Int /\ e \in Encoded(CsrNumber[token.name], 2)
      BY <1>2, ConstantsAssumption DEF ParseWide12, Names
    <2>2. Value(e) = CsrNumber[token.name]
      BY <2>1, EncodedValue
    <2> QED
      BY <1>2, <2>2 DEF FieldMeans, IsCsr, Names
  <1>3. CASE ~Names(token, CsrNumber) /\ Names(token, finalLabels)
    <2> DEFINE label == finalLabels[token.name]
               goal == IF label.isData THEN label.index ELSE label.index - current
    <2>1. label.index \in Int /\ label.isData \in BOOLEAN
      BY <1>3, LabelParts DEF Names
    <2>2. e \in InRange(goal, Displacement12Max, 2)
      BY <1>3 DEF ParseWide12
    <2> HIDE DEF label
    <2>3. goal \in Int
      BY <2>1
    <2>4. Value(e) = goal
      <3> HIDE DEF goal
      <3> QED
        BY <2>2, <2>3, InRangeValue
    <2>5. LabelValue(operand.field, label, Value(e), current)
      BY <1>1, <2>1, <2>4 DEF LabelValue
    <2> QED
      BY <1>3, <2>5 DEF FieldMeans, IsCsr, Names, label
  <1>4. CASE ~Names(token, CsrNumber) /\ ~Names(token, finalLabels)
    <2>1. e \in Literal(token, Displacement12Max, 2)
      BY <1>4 DEF ParseWide12
    <2>2. token.kind # "name" /\ (token.kind = "number" => Value(e) = token.value)
      BY <1>1, <2>1, LiteralMeans
    <2> QED
      BY <1>4, <2>2 DEF FieldMeans, IsCsr, Names
  <1> QED
    BY <1>2, <1>3, <1>4

(* ParseOperand: a label comes before a register; a label of the data      *)
(* section is refused.                                                     *)
LEMMA OperandMeans ==
  ASSUME TypeOK, NEW operand \in [field : Field, token : Token], operand.field \in {"off6", "slot6"},
         NEW current \in Nat, NEW e \in ParseOperand(operand.token, operand.field = "off6", current)
  PROVE  FieldMeans(finalLabels, operand, Value(e), current)
  <1> DEFINE token == operand.token
  <1>1. token \in Token /\ ~IsCsr(operand)
    BY DEF Wide, IsCsr
  <1>2. CASE Names(token, finalLabels)
    <2> DEFINE label == finalLabels[token.name]
    <2>1. label.index \in Int /\ label.isData \in BOOLEAN
      BY <1>2, LabelParts DEF Names
    <2>2. e \in CASE label.isData -> {}
                  [] ~label.isData /\ operand.field = "off6" ->
                       InRange(label.index - current, Displacement6Max, 1)
                  [] OTHER ->
                       IF label.index \in 0..(PageInstructionCount - 1)
                       THEN {<<AddressSpace(label.index)>>} ELSE {}
      BY <1>2 DEF ParseOperand
    <2> HIDE DEF label
    <2>3. ~label.isData
      BY <2>1, <2>2
    <2>4. LabelValue(operand.field, label, Value(e), current)
      <3>1. CASE operand.field = "off6"
        <4>1. e \in InRange(label.index - current, Displacement6Max, 1) /\ label.index - current \in Int
          BY <2>1, <2>2, <2>3, <3>1
        <4>2. Value(e) = label.index - current
          BY <4>1, InRangeValue
        <4> QED
          BY <2>1, <2>3, <3>1, <4>2 DEF LabelValue
      <3>2. CASE operand.field = "slot6"
        <4>1. e \in {<<AddressSpace(label.index)>>}
          BY <2>1, <2>2, <2>3, <3>2
        <4>2. AddressSpace(label.index) \in Int
          BY <2>1, BaseIs DEF AddressSpace
        <4>3. Value(e) = AddressSpace(label.index)
          BY <4>1, <4>2, SingleTryte
        <4> QED
          BY <2>3, <3>2, <4>3 DEF LabelValue
      <3> QED
        BY <3>1, <3>2
    <2> QED
      BY <1>1, <1>2, <2>4 DEF FieldMeans, Names, label
  <1>3. CASE ~Names(token, finalLabels) /\ Names(token, RegisterNumber)
    BY <1>1, <1>3 DEF FieldMeans, Names
  <1>4. CASE ~Names(token, finalLabels) /\ ~Names(token, RegisterNumber)
    <2>1. e \in Literal(token, Displacement6Max, 1)
      BY <1>4 DEF ParseOperand
    <2>2. token.kind # "name" /\ (token.kind = "number" => Value(e) = token.value)
      BY <1>1, <2>1, LiteralMeans
    <2> QED
      BY <1>1, <1>4, <2>2 DEF FieldMeans
  <1> QED
    BY <1>2, <1>3, <1>4

(* ParseLongImmediate: relative to the program counter only for code       *)
(* labels.                                                                 *)
LEMMA LongImmediateMeans ==
  ASSUME TypeOK, NEW operand \in [field : Field, token : Token], operand.field \in {"pcrel24", "abs24"},
         NEW current \in Nat, NEW e \in ParseLongImmediate(operand.token, operand.field = "pcrel24", current)
  PROVE  FieldMeans(finalLabels, operand, Value(e), current)
  <1> DEFINE token == operand.token
  <1>1. token \in Token /\ ~IsCsr(operand)
    BY DEF Wide, IsCsr
  <1>2. CASE Names(token, finalLabels)
    <2> DEFINE label == finalLabels[token.name]
    <2>1. label.index \in Int /\ label.isData \in BOOLEAN
      BY <1>2, LabelParts DEF Names
    <2>2. e \in CASE operand.field = "pcrel24" /\ label.isData -> {}
                  [] operand.field = "pcrel24" /\ ~label.isData -> Encoded(label.index - current, 4)
                  [] OTHER -> Encoded(label.index, 4)
      BY <1>2 DEF ParseLongImmediate
    <2> HIDE DEF label
    <2>3. LabelValue(operand.field, label, Value(e), current)
      <3>1. CASE operand.field = "pcrel24"
        <4>1. ~label.isData /\ e \in Encoded(label.index - current, 4) /\ label.index - current \in Int
          BY <2>1, <2>2, <3>1
        <4>2. Value(e) = label.index - current
          BY <4>1, EncodedValue
        <4> QED
          BY <2>1, <3>1, <4>1, <4>2 DEF LabelValue
      <3>2. CASE operand.field = "abs24"
        <4>1. e \in Encoded(label.index, 4)
          BY <2>1, <2>2, <3>2
        <4>2. Value(e) = label.index
          BY <2>1, <4>1, EncodedValue
        <4> QED
          BY <3>2, <4>2 DEF LabelValue
      <3> QED
        BY <3>1, <3>2
    <2> QED
      BY <1>1, <1>2, <2>3 DEF FieldMeans, Names, label
  <1>3. CASE ~Names(token, finalLabels)
    <2>1. e \in Literal(token, WordMax, 4)
      BY <1>3 DEF ParseLongImmediate
    <2>2. token.kind # "name" /\ (token.kind = "number" => Value(e) = token.value)
      BY <1>1, <2>1, LiteralMeans
    <2> QED
      BY <1>1, <1>3, <2>2 DEF FieldMeans
  <1> QED
    BY <1>2, <1>3

LEMMA ParsedMeans ==
  ASSUME TypeOK, NEW operand \in [field : Field, token : Token],
         NEW current \in Nat, NEW e \in ParseField(operand, current)
  PROVE  FieldMeans(finalLabels, operand, Value(e), current)
  <1>1. CASE operand.field \in Wide
    <2>1. e \in ParseWide12(operand.token, current)
      BY <1>1 DEF ParseField, Wide
    <2> QED
      BY <1>1, <2>1, WideMeans
  <1>2. CASE operand.field \in {"off6", "slot6"}
    <2>1. e \in ParseOperand(operand.token, operand.field = "off6", current)
      BY <1>2 DEF ParseField, Wide
    <2> QED
      BY <1>2, <2>1, OperandMeans
  <1>3. CASE operand.field \in {"pcrel24", "abs24"}
    <2>1. e \in ParseLongImmediate(operand.token, operand.field = "pcrel24", current)
      BY <1>3 DEF ParseField, Wide
    <2> QED
      BY <1>3, <2>1, LongImmediateMeans
  <1>4. operand.field \in Wide \cup {"off6", "slot6", "pcrel24", "abs24"}
    BY DEF Field
  <1> QED
    BY <1>1, <1>2, <1>3, <1>4

(* A word is stored least significant tryte first.                         *)
LEMMA StoredMeans ==
  ASSUME TypeOK, NEW datum \in ParsedDatum, datum.directive = ".word", NEW trytes \in DatumTrytes(datum)
  PROVE  WordMeans(finalLabels, datum.operand, Value(Reverse4(trytes)))
  <1> DEFINE token == datum.operand
  <1>1. token \in Token
    BY DEF ParsedDatum
  <1>2. PICK value \in Int :
          /\ trytes \in {Reverse4(word) : word \in Encoded(value, 4)}
          /\ IF Names(token, finalLabels) THEN value = finalLabels[token.name].index
             ELSE token.kind = "number" => value = token.value
    <2>1. CASE Names(token, finalLabels)
      <3>1. finalLabels[token.name].index \in Int
        BY <2>1, LabelParts DEF Names
      <3> QED
        BY <2>1, <3>1 DEF DatumTrytes, WordTrytes
    <2>2. CASE ~Names(token, finalLabels)
      <3>1. token.kind = "number" /\ token.value \in Int
        BY <1>1, <2>2, TokenParts DEF DatumTrytes
      <3> QED
        BY <2>2, <3>1 DEF DatumTrytes, WordTrytes
    <2> QED
      BY <2>1, <2>2
  <1>3. PICK word \in Encoded(value, 4) : trytes = Reverse4(word)
    BY <1>2
  <1>4. Value(word) = value /\ word \in [1..4 -> Int]
    BY EncodedValue
  <1>5. Reverse4(trytes) = word
    BY <1>3, <1>4 DEF Reverse4, WordTrytes
  <1> QED
    BY <1>2, <1>4, <1>5 DEF WordMeans, Names

-----------------------------------------------------------------------------
(* The images hold what their statements mean, and labels are final before *)
(* the first statement is encoded.                                         *)

(* The labels of the data section are moved behind the instructions, once. *)
LabelsPlaced ==
  pc \in {"instructions", "data", "done"} =>
    /\ DOMAIN finalLabels = DOMAIN labels
    /\ \A m \in DOMAIN labels :
         /\ finalLabels[m].isData <=> labels[m].isData
         /\ finalLabels[m].index =
              IF labels[m].isData THEN labels[m].index + dataBase ELSE labels[m].index

InstructionMeans(table, operands, fields, current) ==
  \A o \in DOMAIN operands : FieldMeans(table, operands[o], Value(fields[o]), current)
DatumMeans(table, datum, trytes) ==
  datum.directive = ".word" => WordMeans(table, datum.operand, Value(Reverse4(trytes)))

ImagesMean ==
  /\ pc = "parse" => code = <<>>
  /\ \A i \in 1..Len(code) : InstructionMeans(finalLabels, instructions[i], code[i].fields, i - 1)
  /\ \A i \in 1..Len(memory) : DatumMeans(finalLabels, data[i], memory[i].trytes)
  /\ pc = "done" => Len(memory) = Len(data)

MeaningInv == IInv /\ SourceInv /\ LabelsPlaced /\ ImagesMean

LEMMA InitMeaning == Init => MeaningInv
  <1> SUFFICES ASSUME Init PROVE MeaningInv
    OBVIOUS
  <1>1. LabelsPlaced /\ ImagesMean
    BY DEF Init, LabelsPlaced, ImagesMean
  <1> QED
    BY <1>1, InitIInv, InitSource DEF MeaningInv

(* While the source is read nothing is placed or encoded.                  *)
LEMMA ParseMeaning == MeaningInv /\ ParseLine => LabelsPlaced' /\ ImagesMean'
  <1> SUFFICES ASSUME MeaningInv, ParseLine PROVE LabelsPlaced' /\ ImagesMean'
    OBVIOUS
  <1>1. pc = "parse" /\ pc' \in {"parse", "failed"} /\ UNCHANGED <<layout, code, memory>>
    BY DEF ParseLine, BindLabel, RejectLabel, Section, Word, Zero, RejectData, Instruction,
           RejectInstruction, RejectLine, Read, Throw, AddDatum
  <1>2. code = <<>> /\ memory = <<>>
    BY <1>1 DEF MeaningInv, IInv, MemoryAsLaidOut, ImagesMean
  <1> QED
    BY <1>1, <1>2 DEF LabelsPlaced, ImagesMean

LEMMA EndOfSourceMeaning == MeaningInv /\ EndOfSource => LabelsPlaced' /\ ImagesMean'
  <1> SUFFICES ASSUME MeaningInv, EndOfSource PROVE LabelsPlaced' /\ ImagesMean'
    OBVIOUS
  <1>1. /\ pc = "parse" /\ pc' = "instructions" /\ UNCHANGED <<code, memory, labels>>
        /\ finalLabels' = [n \in DOMAIN labels |->
                       IF labels[n].isData
                       THEN [labels[n] EXCEPT !.index = @ + dataBase'] ELSE labels[n]]
    BY DEF EndOfSource, parsing
  <1>2. code = <<>> /\ memory = <<>>
    BY <1>1 DEF MeaningInv, IInv, MemoryAsLaidOut, ImagesMean
  <1>3. LabelsPlaced'
    <2>1. ASSUME NEW m \in DOMAIN labels
          PROVE  /\ finalLabels'[m].isData <=> labels[m].isData
                 /\ finalLabels'[m].index =
                      IF labels[m].isData THEN labels[m].index + dataBase' ELSE labels[m].index
      <3>1. labels[m] \in [index : Nat, isData : BOOLEAN]
        BY DEF MeaningInv, IInv, TypeOK
      <3>2. finalLabels'[m] = IF labels[m].isData
                              THEN [labels[m] EXCEPT !.index = @ + dataBase'] ELSE labels[m]
        BY <1>1
      <3> QED
        BY <3>1, <3>2
    <2>2. DOMAIN finalLabels' = DOMAIN labels
      BY <1>1
    <2> QED
      BY <1>1, <2>1, <2>2 DEF LabelsPlaced
  <1> QED
    BY <1>1, <1>2, <1>3 DEF ImagesMean

LEMMA SequenceElement ==
  ASSUME NEW S, NEW s \in Seq(S), NEW k \in DOMAIN s
  PROVE  s[k] \in S
  OBVIOUS

(* The instruction that is encoded is the one the code counter names.      *)
LEMMA EncodeInstructionMeaning == MeaningInv /\ EncodeInstruction => LabelsPlaced' /\ ImagesMean'
  <1> SUFFICES ASSUME MeaningInv, EncodeInstruction PROVE LabelsPlaced' /\ ImagesMean'
    OBVIOUS
  <1>1. TypeOK /\ IsSequence(code)
    BY DEF MeaningInv, IInv, MemoryAsLaidOut
  <1>2. /\ pc = "instructions" /\ Len(code) < Len(instructions)
        /\ UNCHANGED <<pc, source, parsing, layout, memory>>
    BY DEF EncodeInstruction
  <1>3. PICK fields \in NextInstruction :
          code' = Append(code, [address |-> AddressSpace(Len(code)), fields |-> fields])
    BY DEF EncodeInstruction
  <1> DEFINE operands == instructions[Len(code) + 1]
             entry == [address |-> AddressSpace(Len(code)), fields |-> fields]
  <1>4. Len(code) \in Nat /\ operands \in Operands
    BY <1>1, <1>2, AnyAppended DEF TypeOK
  <1>5. InstructionMeans(finalLabels, operands, fields, Len(code))
    <2>1. fields \in Translate(operands, Len(code))
      BY DEF NextInstruction
    <2>2. ASSUME NEW o \in DOMAIN operands
          PROVE  FieldMeans(finalLabels, operands[o], Value(fields[o]), Len(code))
      <3>1. /\ ParseField(operands[o], Len(code)) # {}
            /\ fields[o] = CHOOSE e \in ParseField(operands[o], Len(code)) : TRUE
        <4>1. /\ \A k \in DOMAIN operands : ParseField(operands[k], Len(code)) # {}
              /\ fields = [k \in DOMAIN operands |->
                             CHOOSE e \in ParseField(operands[k], Len(code)) : TRUE]
          <5> HIDE DEF operands
          <5> QED
            BY <2>1 DEF Translate
        <4> HIDE DEF operands
        <4> QED
          BY <4>1
      <3>2. fields[o] \in ParseField(operands[o], Len(code))
        BY <3>1
      <3>3. operands[o] \in [field : Field, token : Token]
        <4> HIDE DEF operands
        <4> QED
          BY <1>4, SequenceElement DEF Operands
      <3> QED
        BY <1>1, <1>4, <3>2, <3>3, ParsedMeans
    <2> QED
      BY <2>2 DEF InstructionMeans
  <1>6. /\ Len(code') = Len(code) + 1 /\ code'[Len(code) + 1] = entry
        /\ \A i \in 1..Len(code) : code'[i] = code[i]
    BY <1>1, <1>3, AnyAppended
  <1>7. entry.fields = fields
    OBVIOUS
  <1>8. UNCHANGED <<instructions, data, labels, memory, finalLabels, dataBase, pc>>
    BY <1>2 DEF parsing, layout
  <1>9. LabelsPlaced'
    BY <1>8 DEF LabelsPlaced, MeaningInv
  <1>10. \A i \in 1..Len(code') : InstructionMeans(finalLabels, instructions[i], code'[i].fields, i - 1)
    <2> HIDE DEF entry
    <2> SUFFICES ASSUME NEW i \in 1..Len(code) + 1
                 PROVE  InstructionMeans(finalLabels, instructions[i], code'[i].fields, i - 1)
      BY <1>6
    <2>1. CASE i = Len(code) + 1
      <3>1. i - 1 = Len(code) /\ code'[i].fields = fields /\ instructions[i] = operands
        BY <1>4, <1>6, <1>7, <2>1
      <3> HIDE DEF operands
      <3> QED
        BY <1>5, <3>1
    <2>2. CASE i # Len(code) + 1
      <3>1. i \in 1..Len(code)
        BY <1>4, <2>2
      <3> QED
        BY <1>6, <3>1 DEF MeaningInv, ImagesMean
    <2> QED
      BY <2>1, <2>2
  <1> QED
    BY <1>2, <1>8, <1>9, <1>10 DEF ImagesMean, MeaningInv

LEMMA EncodeDatumMeaning == MeaningInv /\ EncodeDatum => LabelsPlaced' /\ ImagesMean'
  <1> SUFFICES ASSUME MeaningInv, EncodeDatum PROVE LabelsPlaced' /\ ImagesMean'
    OBVIOUS
  <1>1. TypeOK /\ IsSequence(memory)
    BY DEF MeaningInv, IInv, MemoryAsLaidOut
  <1>2. /\ pc = "data" /\ Len(memory) < Len(data)
        /\ UNCHANGED <<pc, source, parsing, layout, code>>
    BY DEF EncodeDatum
  <1>3. PICK trytes \in DatumTrytes(NextDatum) :
          memory' = Append(memory, [address |-> dataBase + NextDatum.offset, trytes |-> trytes])
    BY DEF EncodeDatum
  <1> DEFINE datum == data[Len(memory) + 1]
             entry == [address |-> dataBase + NextDatum.offset, trytes |-> trytes]
  <1>4. Len(memory) \in Nat /\ datum \in ParsedDatum
    BY <1>1, <1>2, AnyAppended DEF TypeOK
  <1>5. DatumMeans(finalLabels, datum, trytes)
    <2>1. trytes \in DatumTrytes(datum)
      BY DEF NextDatum
    <2> HIDE DEF datum
    <2> QED
      BY <1>1, <1>4, <2>1, StoredMeans DEF DatumMeans
  <1>6. /\ Len(memory') = Len(memory) + 1 /\ memory'[Len(memory) + 1] = entry
        /\ \A i \in 1..Len(memory) : memory'[i] = memory[i]
    BY <1>1, <1>3, AnyAppended
  <1>7. entry.trytes = trytes
    OBVIOUS
  <1>8. UNCHANGED <<instructions, data, labels, code, finalLabels, dataBase, pc>>
    BY <1>2 DEF parsing, layout
  <1>9. LabelsPlaced'
    BY <1>8 DEF LabelsPlaced, MeaningInv
  <1>10. \A i \in 1..Len(memory') : DatumMeans(finalLabels, data[i], memory'[i].trytes)
    <2> HIDE DEF entry
    <2> SUFFICES ASSUME NEW i \in 1..Len(memory) + 1
                 PROVE  DatumMeans(finalLabels, data[i], memory'[i].trytes)
      BY <1>6
    <2>1. CASE i = Len(memory) + 1
      <3>1. memory'[i].trytes = trytes /\ data[i] = datum
        BY <1>4, <1>6, <1>7, <2>1
      <3> HIDE DEF datum
      <3> QED
        BY <1>5, <3>1
    <2>2. CASE i # Len(memory) + 1
      <3>1. i \in 1..Len(memory)
        BY <1>4, <2>2
      <3> QED
        BY <1>6, <3>1 DEF MeaningInv, ImagesMean
    <2> QED
      BY <2>1, <2>2
  <1> QED
    BY <1>2, <1>8, <1>9, <1>10 DEF ImagesMean, MeaningInv

LEMMA NextMeaning == MeaningInv /\ [Next]_vars => MeaningInv'
  <1> SUFFICES ASSUME MeaningInv, [Next]_vars PROVE MeaningInv'
    OBVIOUS
  <1>1. IInv' /\ SourceInv'
    BY NextIInv, NextSource DEF MeaningInv
  <1>2. LabelsPlaced' /\ ImagesMean'
    <2>1. CASE InstructionsEncoded \/ DataEncoded \/ RejectOperand
      <3>1. /\ pc \in {"instructions", "data"} /\ pc' \in {"data", "done", "failed"}
            /\ pc' = "done" => Len(memory) = Len(data)
            /\ UNCHANGED <<instructions, data, labels, code, memory, finalLabels, dataBase>>
        <4>1. CASE InstructionsEncoded
          BY <4>1 DEF InstructionsEncoded, parsing, layout
        <4>2. CASE DataEncoded
          BY <4>2 DEF DataEncoded, parsing, layout
        <4>3. CASE RejectOperand
          BY <4>3 DEF RejectOperand, parsing, layout
        <4> QED
          BY <2>1, <4>1, <4>2, <4>3
      <3> QED
        BY <3>1 DEF MeaningInv, LabelsPlaced, ImagesMean
    <2>2. CASE UNCHANGED vars
      BY <2>2 DEF vars, parsing, layout, MeaningInv, LabelsPlaced, ImagesMean
    <2> QED
      BY <2>1, <2>2, ParseMeaning, EndOfSourceMeaning, EncodeInstructionMeaning, EncodeDatumMeaning DEF Next
  <1> QED
    BY <1>1, <1>2 DEF MeaningInv

LEMMA MeaningHolds == Spec => []MeaningInv
  BY InitMeaning, NextMeaning, PTL DEF Spec

-----------------------------------------------------------------------------
(* From the invariant to what a reader of the source expects.              *)

LEMMA CountsAgree ==
  /\ \A k : InstructionsBefore(k) = InstructionsAbove(source, k)
  /\ \A k : DataBefore(k) = DataAbove(source, k)
  /\ \A k : InDataAt(k) <=> DataOpenAt(source, k)
  BY DEF InstructionsBefore, DataBefore, LinesBefore, InDataAt, InstructionsAbove, DataAbove, Above,
         DataOpenAt

(* An assembled program has every line parsed and every statement encoded. *)
LEMMA Assembled ==
  ASSUME MeaningInv, pc = "done", NEW k \in DOMAIN source
  PROVE  /\ LineParsed(source, instructions, data, labels, k)
         /\ InstructionsAbove(source, k) \in Nat /\ DataAbove(source, k) \in Nat
         /\ Len(code) = Len(instructions) /\ Len(memory) = Len(data)
  <1>1. LineParsed(source, instructions, data, labels, k)
    BY DEF MeaningInv, SourceInv
  <1>2. k \in Nat
    BY DEF MeaningInv, IInv, TypeOK
  <1>3. InstructionsAbove(source, k) \in Nat /\ DataAbove(source, k) \in Nat
    BY <1>2, CountsAreNumbers DEF InstructionsAbove, DataAbove
  <1>4. Len(code) = Len(instructions) /\ Len(memory) = Len(data)
    BY DEF MeaningInv, IInv, BaseAboveCode, ImagesMean
  <1> QED
    BY <1>1, <1>3, <1>4

(* The fields of an assembled instruction line.                            *)
LEMMA InstructionAssembled ==
  ASSUME MeaningInv, pc = "done", NEW k \in DOMAIN source, source[k].kind = "instruction",
         NEW o \in DOMAIN source[k].operands,
         NEW current, current = InstructionsAbove(source, k)
  PROVE  FieldMeans(finalLabels, source[k].operands[o], Value(code[current + 1].fields[o]), current)
  <1>1. /\ InstructionRead(source, instructions, k) /\ current \in Nat
        /\ Len(code) = Len(instructions)
    BY Assembled DEF LineParsed
  <1>2. current < Len(instructions) /\ instructions[current + 1] = source[k].operands
    BY <1>1 DEF InstructionRead
  <1>3. Len(code) \in Nat
    BY <1>1 DEF MeaningInv, IInv, TypeOK
  <1>4. current + 1 \in 1..Len(code) /\ (current + 1) - 1 = current
    BY <1>1, <1>2, <1>3
  <1>5. InstructionMeans(finalLabels, instructions[current + 1], code[current + 1].fields, current)
    BY <1>4 DEF MeaningInv, ImagesMean
  <1> QED
    BY <1>2, <1>5 DEF InstructionMeans

(* The trytes of an assembled .word line.                                  *)
LEMMA WordAssembled ==
  ASSUME MeaningInv, pc = "done", NEW k \in DOMAIN source, source[k].kind = ".word"
  PROVE  WordMeans(finalLabels, source[k].token,
                   Value(Reverse4(memory[DataAbove(source, k) + 1].trytes)))
  <1>1. /\ WordRead(source, data, k) /\ DataAbove(source, k) \in Nat
        /\ Len(memory) = Len(data)
    BY Assembled DEF LineParsed
  <1> DEFINE n == DataAbove(source, k) + 1
  <1>2. /\ DataAbove(source, k) < Len(data) /\ data[n].directive = ".word"
        /\ data[n].operand = source[k].token
    BY <1>1 DEF WordRead
  <1>3. Len(memory) \in Nat
    BY <1>1 DEF MeaningInv, IInv, TypeOK
  <1>4. n \in 1..Len(memory)
    BY <1>1, <1>2, <1>3
  <1> HIDE DEF n
  <1>5. DatumMeans(finalLabels, data[n], memory[n].trytes)
    BY <1>4 DEF MeaningInv, ImagesMean
  <1>6. WordMeans(finalLabels, source[k].token, Value(Reverse4(memory[n].trytes)))
    BY <1>2, <1>5 DEF DatumMeans
  <1> QED
    BY <1>6 DEF n

LEMMA NumbersFromMeaning == MeaningInv => NumbersReadBack
  <1> SUFFICES ASSUME MeaningInv, pc = "done"
               PROVE  /\ EachOperand(LAMBDA operand, value, current :
                           operand.token.kind = "number" => value = operand.token.value)
                      /\ EachWord(LAMBDA token, value : token.kind = "number" => value = token.value)
    BY DEF NumbersReadBack
  <1>1. ASSUME NEW k \in DOMAIN source, source[k].kind = "instruction",
               NEW o \in DOMAIN source[k].operands, source[k].operands[o].token.kind = "number"
        PROVE  Value(code[InstructionsBefore(k) + 1].fields[o]) = source[k].operands[o].token.value
    <2>1. FieldMeans(finalLabels, source[k].operands[o],
                     Value(code[InstructionsAbove(source, k) + 1].fields[o]), InstructionsAbove(source, k))
      BY <1>1, InstructionAssembled
    <2> QED
      BY <1>1, <2>1, CountsAgree DEF FieldMeans
  <1>2. ASSUME NEW k \in DOMAIN source, source[k].kind = ".word", source[k].token.kind = "number"
        PROVE  Value(Reverse4(memory[DataBefore(k) + 1].trytes)) = source[k].token.value
    BY <1>2, WordAssembled, CountsAgree DEF WordMeans
  <1> QED
    BY <1>1, <1>2 DEF EachOperand, EachWord

(* A label of the source is the label its line has bound.                  *)
LEMMA LabelAssembled ==
  ASSUME MeaningInv, pc = "done", NEW token, IsLabel(token),
         NEW k, k = Definition(token.name)
  PROVE  /\ k \in DOMAIN source /\ Names(token, finalLabels)
         /\ finalLabels[token.name].isData <=> InDataAt(k)
         /\ finalLabels[token.name].index =
              IF InDataAt(k) THEN DataAddress(k) ELSE InstructionsBefore(k)
  <1>1. k \in DOMAIN source /\ source[k].kind = "label" /\ source[k].name = token.name
    BY DEF IsLabel, Definition
  <1>2. /\ LabelRead(source, data, labels, k) /\ DataAbove(source, k) \in Nat
        /\ Len(memory) = Len(data)
    BY <1>1, Assembled DEF LineParsed
  <1>3. /\ token.name \in DOMAIN labels
        /\ DataAbove(source, k) <= Len(data)
        /\ labels[token.name].isData <=> InDataAt(k)
        /\ labels[token.name].index =
             IF InDataAt(k) THEN OffsetAfter(data, DataAbove(source, k)) ELSE InstructionsBefore(k)
    BY <1>1, <1>2, CountsAgree DEF LabelRead
  <1>4. /\ DOMAIN finalLabels = DOMAIN labels
        /\ finalLabels[token.name].isData <=> labels[token.name].isData
        /\ finalLabels[token.name].index =
             IF labels[token.name].isData THEN labels[token.name].index + dataBase
             ELSE labels[token.name].index
    BY <1>3 DEF MeaningInv, LabelsPlaced
  <1>5. DataAddress(k) = OffsetAfter(data, DataAbove(source, k)) + dataBase
    <2> DEFINE n == DataAbove(source, k)
    <2>1. n \in Nat /\ n <= Len(data) /\ Len(data) \in Nat /\ dataBase \in Int
      BY <1>2, <1>3 DEF MeaningInv, IInv, TypeOK
    <2>2. \A i \in 1..Len(data) :
            /\ memory[i].address = dataBase + data[i].offset
            /\ Len(memory[i].trytes) = data[i].size
            /\ data[i].offset = IF i = 1 THEN 0 ELSE data[i - 1].offset + data[i - 1].size
      BY <1>2 DEF MeaningInv, IInv, MemoryAsLaidOut, DataInSequence
    <2>3. \A i \in 1..Len(data) : data[i].offset \in Nat /\ data[i].size \in Nat
      <3>1. \A i \in 1..Len(data) : data[i] \in ParsedDatum
        BY DEF MeaningInv, IInv, TypeOK
      <3> QED
        BY <3>1 DEF ParsedDatum
    <2>4. DataAddress(k) = IF n < Len(data) THEN memory[n + 1].address
                           ELSE IF n = 0 THEN dataBase
                           ELSE memory[n].address + Len(memory[n].trytes)
      BY <1>2, CountsAgree DEF DataAddress
    <2> HIDE DEF n
    <2>5. CASE n < Len(data)
      <3>1. n + 1 \in 1..Len(data) /\ (n + 1) - 1 = n /\ (n + 1 = 1 <=> n = 0)
        BY <2>1, <2>5
      <3>2. n # 0 => n \in 1..Len(data)
        BY <2>1, <2>5
      <3>3. DataAddress(k) = dataBase + data[n + 1].offset
        BY <2>2, <2>4, <2>5, <3>1
      <3>4. data[n + 1].offset = OffsetAfter(data, n) /\ data[n + 1].offset \in Nat
        BY <2>2, <2>3, <3>1 DEF OffsetAfter
      <3> QED
        BY <2>1, <3>3, <3>4 DEF n
    <2>6. CASE n = Len(data) /\ n # 0
      <3>1. n \in 1..Len(data)
        BY <2>1, <2>6
      <3>2. DataAddress(k) = (dataBase + data[n].offset) + data[n].size
        BY <2>1, <2>2, <2>4, <2>6, <3>1
      <3>3. OffsetAfter(data, n) = data[n].offset + data[n].size
        BY <2>6 DEF OffsetAfter
      <3> QED
        BY <2>1, <2>3, <3>1, <3>2, <3>3 DEF n
    <2>7. CASE n = Len(data) /\ n = 0
      BY <2>1, <2>4, <2>7 DEF OffsetAfter, n
    <2> QED
      BY <2>1, <2>5, <2>6, <2>7
  <1>6. Names(token, finalLabels)
    BY <1>3, <1>4 DEF IsLabel, Names
  <1> QED
    BY <1>1, <1>3, <1>4, <1>5, <1>6

LEMMA ReferencesFromMeaning == MeaningInv => ReferencesResolve
  <1> SUFFICES ASSUME MeaningInv, pc = "done"
               PROVE  /\ EachOperand(LAMBDA operand, value, current :
                           IF IsCsr(operand) THEN value = CsrNumber[operand.token.name]
                           ELSE IsLabel(operand.token) =>
                             RefersTo(operand.field, value, current, Definition(operand.token.name)))
                      /\ EachWord(LAMBDA token, value :
                           IsLabel(token) => RefersTo("abs24", value, 0, Definition(token.name)))
    BY DEF ReferencesResolve
  <1>1. ASSUME NEW field, NEW value, NEW current, NEW token, IsLabel(token),
               LabelValue(field, finalLabels[token.name], value, current)
        PROVE  RefersTo(field, value, current, Definition(token.name))
    <2>1. PICK k : k = Definition(token.name)
      OBVIOUS
    <2>2. /\ finalLabels[token.name].isData <=> InDataAt(k)
          /\ finalLabels[token.name].index =
               IF InDataAt(k) THEN DataAddress(k) ELSE InstructionsBefore(k)
      BY <1>1, <2>1, LabelAssembled
    <2>3. RefersTo(field, value, current, k)
      BY <1>1, <2>2 DEF LabelValue, RefersTo
    <2> QED
      BY <2>1, <2>3
  <1>2. ASSUME NEW k \in DOMAIN source, source[k].kind = "instruction",
               NEW o \in DOMAIN source[k].operands
        PROVE  LET operand == source[k].operands[o]
                   value == Value(code[InstructionsBefore(k) + 1].fields[o])
               IN  IF IsCsr(operand) THEN value = CsrNumber[operand.token.name]
                   ELSE IsLabel(operand.token) =>
                     RefersTo(operand.field, value, InstructionsBefore(k), Definition(operand.token.name))
    <2> DEFINE operand == source[k].operands[o]
               value == Value(code[InstructionsAbove(source, k) + 1].fields[o])
    <2>1. FieldMeans(finalLabels, operand, value, InstructionsAbove(source, k))
      BY <1>2, InstructionAssembled
    <2>2. InstructionsBefore(k) = InstructionsAbove(source, k)
      BY CountsAgree
    <2> HIDE DEF operand, value
    <2>3. IsCsr(operand) => value = CsrNumber[operand.token.name]
      BY <2>1 DEF FieldMeans
    <2>4. ASSUME ~IsCsr(operand), IsLabel(operand.token)
          PROVE  RefersTo(operand.field, value, InstructionsAbove(source, k), Definition(operand.token.name))
      <3>1. Names(operand.token, finalLabels)
        BY <2>4, LabelAssembled
      <3> QED
        BY <1>1, <2>1, <2>4, <3>1 DEF FieldMeans
    <2> QED
      BY <2>2, <2>3, <2>4 DEF operand, value
  <1>3. ASSUME NEW k \in DOMAIN source, source[k].kind = ".word", IsLabel(source[k].token)
        PROVE  RefersTo("abs24", Value(Reverse4(memory[DataBefore(k) + 1].trytes)), 0,
                        Definition(source[k].token.name))
    <2> DEFINE token == source[k].token
               value == Value(Reverse4(memory[DataAbove(source, k) + 1].trytes))
    <2>1. WordMeans(finalLabels, token, value) /\ DataBefore(k) = DataAbove(source, k)
      BY <1>3, WordAssembled, CountsAgree
    <2> HIDE DEF token, value
    <2>2. IsLabel(token)
      BY <1>3 DEF token
    <2>3. Names(token, finalLabels)
      BY <2>2, LabelAssembled
    <2>4. LabelValue("abs24", finalLabels[token.name], value, 0)
      BY <2>1, <2>3 DEF WordMeans, LabelValue
    <2>5. RefersTo("abs24", value, 0, Definition(token.name))
      BY <1>1, <2>2, <2>4
    <2> QED
      BY <2>1, <2>5 DEF token, value
  <1> QED
    BY <1>2, <1>3 DEF EachOperand, EachWord

(* Every number an assembled program gives as an operand or a .word is     *)
(* what its field, or its word of memory, holds: no encoder of             *)
(* InstructionEncoder6 truncates it, whatever the width of a tryte.        *)
THEOREM NumbersAreReadBack == Spec => []NumbersReadBack
  BY MeaningHolds, NumbersFromMeaning, PTL

(* Every label an assembled program refers to, forwards or across sections *)
(* (ParseProgram, Assemble and the three operand encoders), refers to what *)
(* follows it in the source, for every set of lines and size of page.      *)
THEOREM LabelsResolve == Spec => []ReferencesResolve
  BY MeaningHolds, ReferencesFromMeaning, PTL

=============================================================================
