----------------------------- MODULE MCDebugView -----------------------------
(* Sessions for TLC: F5 on every program of three lines and on chosen      *)
(* longer ones, with and without the C sources on disk; and every way to   *)
(* start a session, on one program; and on one program the registers, with *)
(* words of 3 trits on a wire of 8 bits.                                   *)
EXTENDS DebugView, TLC

Paths == "prog.tas" :> "prog.tas" @@ "kern.c" :> "kern.c" @@ "KERN.C" :> "kern.c"
         @@ "util.h" :> "util.h" @@ "stray.c" :> "stray.c"
AllSources == {"prog.tas", "KERN.C", "stray.c"}

LineKinds == {Code(1), Code(2), Blank, Loc("kern.c", 1), Loc("kern.c", 2), Loc("util.h", 2)}
ShortPrograms == {p \in [1..3 -> LineKinds] : \E k \in 1..3 : p[k].kind = "code"}
\* A loop whose condition is emitted twice, an empty marker, a return to an earlier line.
LongPrograms ==
  {<<Loc("kern.c", 2), Code(1), Loc("kern.c", 1), Code(2), Loc("kern.c", 2), Code(1)>>,
   <<Code(2), Blank, Loc("kern.c", 1), Loc("util.h", 2), Code(1), Code(1)>>,
   <<Code(1), Loc("kern.c", 3), Code(1), Loc("kern.c", 1), Blank, Code(2)>>}

Config(type, request, program, simulator, stop) ==
  [type |-> type, request |-> request, name |-> type, program |-> program,
   simulator |-> simulator, stopOnEntry |-> stop]
NoConfig == Config("", "", "", "", FALSE)
Configs == {NoConfig} \cup
  {Config("rebel6", r, p, s, stop) :
     r \in {"launch", "attach"}, p \in {"", "prog.tas"}, s \in {"", "sim"}, stop \in BOOLEAN}

F5(programs, present) ==
  [program : programs, tasmap : {"written"}, present : present, editor : {"prog.tas"},
   config : {NoConfig}, simulatorPath : {"RV32IToREBEL"}, adapterPath : {""}, panel : {FALSE}]

StartScenarios ==
  [program : {<<Loc("kern.c", 1), Code(2)>>}, tasmap : {"absent", "written", "malformed"},
   present : {{"kern.c"}}, editor : {"", "prog.tas", "kern.c"}, config : Configs,
   simulatorPath : {"", "RV32IToREBEL"}, adapterPath : {"", "adapter", "adapter.dll"}, panel : {FALSE}]

PanelScenarios ==
  [program : {<<Code(1)>>}, tasmap : {"written"}, present : {{}}, editor : {"prog.tas"},
   config : {NoConfig}, simulatorPath : {"RV32IToREBEL"}, adapterPath : {""}, panel : {TRUE}]

\* 0x80 is wider than a word; "-", "--", "-00", "+0", "1+1", "-0xf", "0xfff".
AllTyped ==
  {HexPrefix \o <<8, 0>>, <<Minus>>, <<Minus, Minus>>, <<Minus, 0, 0>>, <<Plus, 0>>,
   <<1, Plus, 1>>, <<Minus>> \o HexPrefix \o <<15>>, HexPrefix \o <<41, 41, 41>>}

AllScenarios ==
  F5(ShortPrograms, {{}, {"kern.c", "util.h"}}) \cup F5(LongPrograms, {{}, {"kern.c"}, {"kern.c", "util.h"}})
  \cup StartScenarios \cup PanelScenarios

AllLeft == {0, -9}

AllRequests == {<<>>, <<2>>, <<3, 1>>, <<1, 2, 5>>}
=============================================================================
