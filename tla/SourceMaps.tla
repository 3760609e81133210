----------------------------- MODULE SourceMaps -----------------------------
(***************************************************************************)
(* The two line maps of the debug adapter. TasMap (Layer 1) takes          *)
(* instruction slots to lines of the .tas program, SourceLocMap (Layer 2)  *)
(* takes lines of the program to lines of the C source it was compiled     *)
(* from, by the "# .loc file:line" markers among them.                     *)
(*                                                                         *)
(* A program is a sequence of lines, each a Code(n) of n instruction       *)
(* slots, a Blank or a Loc(file, line).                                    *)
(***************************************************************************)
EXTENDS Integers, Sequences, FiniteSetsExt

CONSTANT
  FullPath  \* takes every spelling of a path to the file it names

Code(n) == [kind |-> "code", slots |-> n]
Blank == [kind |-> "blank"]
Loc(file, line) == [kind |-> "loc", file |-> file, line |-> line]
ProgramLine == [kind : {"code"}, slots : Nat \ {0}] \cup [kind : {"blank"}]
               \cup [kind : {"loc"}, file : DOMAIN FullPath, line : Nat]

(* A slot and a line, or neither: lines are counted from 1.                *)
NoPlace == [address |-> -1, line |-> 0]

SlotsBefore(program) ==
  LET before[k \in 1..Len(program) + 1] ==
        IF k = 1 THEN 0
        ELSE before[k - 1] + (IF program[k - 1].kind = "code" THEN program[k - 1].slots ELSE 0)
  IN  before

Slots(program) == 0..SlotsBefore(program)[Len(program) + 1] - 1

(* What the simulator writes beside the program: a row for every slot.     *)
Rows(program) ==
  LET before == SlotsBefore(program)
  IN  UNION {{[address |-> a, line |-> k] : a \in before[k]..before[k + 1] - 1} : k \in DOMAIN program}

-----------------------------------------------------------------------------
(* TasMap: _lineByAddress and _firstAddressByLine. Rows come in the order  *)
(* of their addresses, each address once.                                  *)
TasMapOf(rows) ==
  [lineByAddress |-> [a \in {r.address : r \in rows} |->
                        (CHOOSE r \in rows : r.address = a).line],
   firstAddressByLine |-> [k \in {r.line : r \in rows} |->
                             Min({r.address : r \in {s \in rows : s.line = k}})]]

(* Mutant of LineForAddress: the exact entry is not its own line.          *)
LineBeforeAddress(map, address) ==
  LET below == {a \in DOMAIN map.lineByAddress : a < address}
  IN  IF below = {} THEN 0 ELSE map.lineByAddress[Max(below)]

LineForAddress(map, address) ==
  LET below == {a \in DOMAIN map.lineByAddress : a <= address}
  IN  IF below = {} THEN 0 ELSE map.lineByAddress[Max(below)]

AddressForLine(map, line) ==
  LET mapped == {k \in DOMAIN map.firstAddressByLine : k >= line}
  IN  IF mapped = {} THEN NoPlace
      ELSE [address |-> map.firstAddressByLine[Min(mapped)], line |-> Min(mapped)]

-----------------------------------------------------------------------------
(* SourceLocMap: the markers, by the line of the program they are on.      *)
LocMapOf(program) ==
  [k \in {k \in DOMAIN program : program[k].kind = "loc"} |->
     [file |-> program[k].file, line |-> program[k].line]]

NoLoc == [file |-> "", line |-> 0]

LocForTasLine(markers, tasLine) ==
  LET above == {k \in DOMAIN markers : k <= tasLine}
  IN  IF above = {} THEN NoLoc ELSE markers[Max(above)]

SameFile(a, b) == FullPath[a] = FullPath[b]

CoversFile(markers, file) == \E k \in DOMAIN markers : SameFile(markers[k].file, file)

(* Mutant of TasLineForSourceLine: the first marker in the program.        *)
FirstAfterSourceLine(markers, file, line) ==
  LET after == {k \in DOMAIN markers : SameFile(markers[k].file, file) /\ markers[k].line >= line}
  IN  IF after = {} THEN 0 ELSE Min(after)

(* The marker of the lowest line from the one asked for, the first of them *)
(* in the program; 0 if there is none.                                     *)
TasLineForSourceLine(markers, file, line) ==
  LET after == {k \in DOMAIN markers : SameFile(markers[k].file, file) /\ markers[k].line >= line}
      lowest == Min({markers[k].line : k \in after})
  IN  IF after = {} THEN 0 ELSE Min({k \in after : markers[k].line = lowest})
=============================================================================
