------------------------- MODULE MCProgramAssembler6 -------------------------
(* Instances of ProgramAssembler6 for TLC: pages of three instructions,    *)
(* trytes of -2..2, programs of up to MaxLines lines that mix every field  *)
(* with every kind of operand.                                             *)
EXTENDS ProgramAssembler6

Name(n) == [kind |-> "name", name |-> n]
Number(v) == [kind |-> "number", value |-> v]
Trits(trytes) == [kind |-> "trits", trytes |-> trytes]
Label(n) == [kind |-> "label", name |-> n]
Statement(directive) == [kind |-> directive]
WordOf(token) == [kind |-> ".word", token |-> token]
ZeroOf(count) == [kind |-> ".zero", count |-> count]
Op(field, token) == [field |-> field, token |-> token]
Instr(operands) == [kind |-> "instruction", operands |-> operands]

(* time is the name of a CSR, sp of a register.                            *)
Csr == [n \in {"time"} |-> 7]
Register == [n \in {"sp"} |-> 2]

Sections == {Statement(".text"), Statement(".data")}

(* One instruction for each field and kind of operand, in and out of range.*)
AllLines ==
  Sections \cup {Label("a"), Label("time"), Label("sp"), Statement("malformed"),
    WordOf(Name("a")), WordOf(Name("time")), WordOf(Number(312)), WordOf(Number(-313)),
    ZeroOf(3), ZeroOf(0),
    Instr(<<>>),
    Instr(<<Op("off6", Name("a")), Op("off6", Number(-2))>>),
    Instr(<<Op("slot6", Name("a")), Op("slot6", Name("sp"))>>),
    Instr(<<Op("branch12", Name("a"))>>),
    Instr(<<Op("branch12", Name("time"))>>),
    Instr(<<Op("value12", Name("a"))>>),
    Instr(<<Op("value12", Number(-12)), Op("value12", Trits(<<1, -2>>)),
            Op("abs24", Number(-200))>>),
    Instr(<<Op("value12", Number(13))>>),
    Instr(<<Op("pcrel24", Name("a"))>>),
    Instr(<<Op("abs24", Name("a"))>>)}
=============================================================================
