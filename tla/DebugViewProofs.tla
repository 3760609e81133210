--------------------------- MODULE DebugViewProofs ---------------------------
(***************************************************************************)
(* Proofs about DebugView for every scenario, every program, every set of  *)
(* sources and requests, any number of triggers and every set of registers.*)
(* The maps of a program are first read off its text, line by line; ViewInv *)
(* then says that every mark, trigger and frame is what those maps give.   *)
(* PanelInv says that every text shown of a register is read as its word:  *)
(* what is rendered is read back in each of the three formats, by what     *)
(* RadixConverterProofs has of digits.                                     *)
(***************************************************************************)
EXTENDS DebugView, RadixConverterProofs, FiniteSetTheorems

(* What the extension makes of the user's configuration.                   *)
Meant == WithSimulator(FromEditor(scenario.config))

Resolved == {"resolved", "described", "configuring", "debugging", "failed"}
Started == {"configuring", "debugging", "failed"}
Launched == [simulator |-> config.simulator, program |-> config.program]

(* The configuration is the one the extension handed back, from the first  *)
(* step to the last; a process is the one of that configuration; and a     *)
(* session that failed had nothing to start or a map that does not parse.  *)
StartInv ==
  /\ scenario \in Scenarios
  /\ phase \in {"editing", "refused"} \cup Resolved
  /\ phase = "editing" => config = scenario.config
  /\ phase \in Resolved => config = Meant /\ config.type # ""
  /\ phase \in Started \cup {"described"} => Len(command) > 0 /\ command[Len(command)] # ""
  /\ process # NoProcess => phase \in Started /\ config.request = "launch" /\ process = Launched
  /\ phase = "failed" => config.program = "" \/ config.simulator = "" \/ scenario.tasmap = "malformed"

(* A step of the composition is one of the session, or leaves it alone.    *)
LEMMA ViewStep == [ViewNext]_viewVars => [Next]_vars
  BY DEF ViewNext, SourceStep, RunStep, PanelStep, Next, viewVars, vars

(* Every session starts in it.                                             *)
LEMMA InitStartInv == Init => StartInv
  BY DEF Init, StartInv, Resolved, Started

(* The adapter is the last argument of its command.                        *)
LEMMA LastArgument ==
  ASSUME NEW a, NEW b, NEW c, c = <<b, a>> \/ c = <<a>>
  PROVE  Len(c) > 0 /\ c[Len(c)] = a
  <1>1. CASE c = <<a>>
    BY <1>1
  <1>2. CASE c = <<b, a>>
    BY <1>2
  <1> QED
    BY <1>1, <1>2

(* Every handler keeps it: only the resolver changes the configuration,    *)
(* and only HandleLaunch starts a process.                                 *)
LEMMA StepStartInv == StartInv /\ [Next]_vars => StartInv'
  <1> SUFFICES ASSUME StartInv, [Next]_vars PROVE StartInv'
    OBVIOUS
  <1>1. CASE ResolveDebugConfiguration
    <2>1. config' = Meant /\ config' = Meant'
      BY <1>1 DEF ResolveDebugConfiguration, StartInv, Meant, WithSimulator, FromEditor
    <2> QED
      BY <1>1, <2>1 DEF ResolveDebugConfiguration, StartInv, Resolved, Started
  <1>2. CASE CreateDebugAdapterDescriptor
    <2> DEFINE adapter == IF scenario.adapterPath # "" THEN scenario.adapterPath
                          ELSE "TernaryWorkbench.DebugAdapter"
    <2>0. adapter # "" /\ (command' = <<"dotnet", adapter>> \/ command' = <<adapter>>)
      BY <1>2 DEF CreateDebugAdapterDescriptor
    <2> HIDE DEF adapter
    <2>1. Len(command') > 0 /\ command'[Len(command')] # ""
      <3>1. Len(command') > 0 /\ command'[Len(command')] = adapter
        BY <2>0, LastArgument
      <3> QED
        BY <2>0, <3>1
    <2>2. Meant' = Meant
      BY <1>2 DEF CreateDebugAdapterDescriptor, Meant, WithSimulator, FromEditor
    <2> QED
      BY <1>2, <2>1, <2>2 DEF CreateDebugAdapterDescriptor, StartInv, Resolved, Started
  <1>3. CASE HandleLaunch \/ HandleAttach
    <2>0. UNCHANGED <<scenario, config, command>>
      BY <1>3 DEF HandleLaunch, HandleAttach
    <2>1. Meant' = Meant /\ Launched' = Launched
      BY <2>0 DEF Meant, WithSimulator, FromEditor, Launched
    <2>2. CASE HandleLaunch
      BY <2>1, <2>2 DEF HandleLaunch, LoadTasMap, StartInv, Resolved, Started, Launched
    <2>3. CASE HandleAttach
      BY <2>1, <2>3 DEF HandleAttach, LoadTasMap, StartInv, Resolved, Started
    <2> QED
      BY <1>3, <2>2, <2>3
  <1>4. ASSUME NEW s \in Sources, NEW lines \in Requests, HandleSetBreakpoints(s, lines)
        PROVE  StartInv'
    <2>1. UNCHANGED <<scenario, phase, config, command, process>>
      BY <1>4 DEF HandleSetBreakpoints, started
    <2> QED
      BY <2>1 DEF StartInv, Meant, Launched, WithSimulator, FromEditor
  <1>5. CASE HandleConfigurationDone \/ HandleStackTrace \/ RunAndHalt
    <2>1. /\ UNCHANGED <<scenario, config, command, process>>
          /\ phase \in {"configuring", "debugging"} /\ phase' = "debugging"
      BY <1>5 DEF HandleConfigurationDone, HandleStackTrace, RunAndHalt, started
    <2>2. Meant' = Meant /\ Launched' = Launched
      BY <2>1 DEF Meant, Launched, WithSimulator, FromEditor
    <2> QED
      BY <2>1, <2>2 DEF StartInv, Resolved, Started
  <1>6. CASE Ended \/ UNCHANGED vars
    <2>1. UNCHANGED <<scenario, phase, config, command, process>>
      BY <1>6 DEF Ended, vars
    <2> QED
      BY <2>1 DEF StartInv, Meant, Launched, WithSimulator, FromEditor
  <1> QED
    BY <1>1, <1>2, <1>3, <1>4, <1>5, <1>6 DEF Next

(* What was started is then what the user meant.                           *)
LEMMA StartInvMeans == StartInv => StartsWhatWasMeant
  <1> SUFFICES ASSUME StartInv PROVE StartsWhatWasMeant
    OBVIOUS
  <1> DEFINE user == scenario.config
             f5 == user.type = "" /\ user.request = "" /\ user.name = ""
             either(a, b) == IF a # "" THEN a ELSE b
             filled == f5 /\ scenario.editor \in TasFiles
  <1>1. user \in [type : STRING, request : {"", "launch", "attach"}, name : STRING,
                  program : DOMAIN FullPath \cup {""}, simulator : STRING, stopOnEntry : BOOLEAN]
    BY ScenariosAssumption DEF StartInv
  <1>2. FromEditor(user).simulator = user.simulator
    BY <1>1 DEF FromEditor
  <1>3. FromEditor(user).program = IF filled THEN scenario.editor ELSE user.program
    BY <1>1 DEF FromEditor
  <1>4. FromEditor(user).request = IF filled THEN "launch" ELSE user.request
    BY <1>1 DEF FromEditor
  <1>5. /\ Meant.program = FromEditor(user).program
        /\ Meant.request = FromEditor(user).request
        /\ Meant.type = IF filled THEN "rebel6" ELSE user.type
    BY <1>1 DEF Meant, WithSimulator, FromEditor
  <1>6. Meant.request = "launch" => Meant.simulator = either(user.simulator, scenario.simulatorPath)
    BY <1>1, <1>2, <1>5 DEF Meant, WithSimulator, FromEditor
  <1>7. process # NoProcess =>
          /\ config.request = "launch" /\ Len(command) > 0 /\ command[Len(command)] # ""
          /\ process.simulator = either(user.simulator, scenario.simulatorPath)
          /\ process.program = IF f5 THEN scenario.editor ELSE user.program
    <2> SUFFICES ASSUME process # NoProcess
                 PROVE  /\ config.request = "launch" /\ Len(command) > 0 /\ command[Len(command)] # ""
                        /\ process.simulator = either(user.simulator, scenario.simulatorPath)
                        /\ process.program = IF f5 THEN scenario.editor ELSE user.program
      OBVIOUS
    <2>1. phase \in Started /\ config.request = "launch" /\ process = Launched
      BY DEF StartInv
    <2>2. config = Meant /\ Len(command) > 0 /\ command[Len(command)] # "" /\ config.type # ""
      BY <2>1 DEF StartInv, Started, Resolved
    <2>3. process.simulator = Meant.simulator /\ process.program = Meant.program
      BY <2>1, <2>2 DEF Launched
    <2>4. f5 => filled
      BY <2>2, <1>5
    <2> QED
      BY <2>1, <2>2, <2>3, <2>4, <1>3, <1>5, <1>6
  <1>8. f5 /\ phase = "failed" => scenario.simulatorPath = "" \/ scenario.tasmap = "malformed"
    <2> SUFFICES ASSUME f5, phase = "failed", scenario.tasmap # "malformed"
                 PROVE  scenario.simulatorPath = ""
      OBVIOUS
    <2>1. config = Meant /\ config.type # "" /\ (config.program = "" \/ config.simulator = "")
      BY DEF StartInv, Resolved
    <2>2. filled
      BY <2>1, <1>5
    <2>3. Meant.program # "" /\ Meant.request = "launch"
      BY <2>2, <1>3, <1>4, <1>5, PathsAssumption
    <2> QED
      BY <2>1, <2>3, <1>6
  <1> QED
    BY <1>7, <1>8 DEF StartsWhatWasMeant

-----------------------------------------------------------------------------
(* The maps of a program, read off its text.                               *)

(* The lines of a program that have slots; the rows of the map are theirs. *)
CodeLines(program) == {k \in DOMAIN program : program[k].kind = "code"}

(* A line of a program by its kind.                                        *)
LEMMA LineFields ==
  ASSUME NEW program \in Seq(ProgramLine), NEW k \in DOMAIN program
  PROVE  /\ k \in 1..Len(program) /\ program[k].kind \in {"code", "blank", "loc"}
         /\ program[k].kind = "code" => program[k].slots \in Nat \ {0}
         /\ program[k].kind = "loc" => program[k].file \in DOMAIN FullPath /\ program[k].line \in Nat
  <1>1. program[k] \in ProgramLine
    OBVIOUS
  <1> QED
    BY <1>1 DEF ProgramLine

(* SlotsBefore counts the slots of the lines before each.                  *)
LEMMA SlotsBeforeIs ==
  ASSUME NEW program \in Seq(ProgramLine)
  PROVE  /\ SlotsBefore(program) \in [1..Len(program) + 1 -> Nat]
         /\ SlotsBefore(program)[1] = 0
         /\ \A k \in DOMAIN program :
              SlotsBefore(program)[k + 1] =
                SlotsBefore(program)[k] + (IF program[k].kind = "code" THEN program[k].slots ELSE 0)
  <1> DEFINE n == Len(program)
             own(k) == IF program[k].kind = "code" THEN program[k].slots ELSE 0
             step == [x \in Nat \X (1 + 1..n + 1) |-> x[1] + own(x[2] - 1)]
             before == SlotsBefore(program)
  <1>0. n \in Nat /\ n + 1 \in Int /\ 1 \in Int /\ 0 \in Nat /\ DOMAIN program = 1..n
    OBVIOUS
  <1>1. \A k \in 1..n : own(k) \in Nat
    BY LineFields
  <1>2. step \in [Nat \X (1 + 1..n + 1) -> Nat]
    <2> SUFFICES ASSUME NEW x \in Nat \X (1 + 1..n + 1) PROVE x[1] + own(x[2] - 1) \in Nat
      OBVIOUS
    <2>1. x[1] \in Nat /\ x[2] - 1 \in 1..n
      BY <1>0
    <2> HIDE DEF own
    <2> QED
      BY <2>1, <1>1
  <1>3. PICK f \in [1..n + 1 -> Nat] : Unfolds(f, 1, n + 1, 0, step)
    <2> HIDE DEF step, n
    <2> QED
      BY <1>0, <1>2, Recursion
  <1>4. f = [k \in 1..n + 1 |-> IF k = 1 THEN 0 ELSE f[k - 1] + own(k - 1)]
    <2>1. ASSUME NEW k \in 1..n + 1, k # 1 PROVE step[<<f[k - 1], k>>] = f[k - 1] + own(k - 1)
      <3> HIDE DEF own, n
      <3>1. k - 1 \in 1..n + 1 /\ k \in 1 + 1..n + 1
        BY <1>0, <2>1
      <3>2. f[k - 1] \in Nat
        BY <3>1
      <3> QED
        BY <3>1, <3>2
    <2>2. \A k \in 1..n + 1 : f[k] = IF k = 1 THEN 0 ELSE f[k - 1] + own(k - 1)
      <3> HIDE DEF own, step
      <3> QED
        BY <1>3, <2>1 DEF Unfolds
    <2> HIDE DEF own, step
    <2> QED
      BY <1>3, <2>2
  <1>5. before = [k \in 1..n + 1 |-> IF k = 1 THEN 0 ELSE before[k - 1] + own(k - 1)]
    BY <1>4 DEF SlotsBefore
  <1>6. before[1] = 0 /\ \A k \in 1..n : before[k + 1] = before[k] + own(k)
    <2> HIDE DEF own, before
    <2>1. \A k \in 1..n : k + 1 \in 1..n + 1 /\ k + 1 # 1 /\ (k + 1) - 1 = k
      BY <1>0
    <2> QED
      BY <1>5, <2>1, <1>0
  <1>7. \A k \in 1..n + 1 : before[k] \in Nat
    <2> DEFINE Good == {k \in 1..n + 1 : before[k] \in Nat}
    <2> HIDE DEF own, before
    <2>1. 1 \in Good /\ 1 \in Int /\ n + 1 \in Int
      BY <1>6, <1>0
    <2>2. \A k \in 1..(n + 1) - 1 : k \in Good => k + 1 \in Good
      BY <1>6, <1>1, <1>0
    <2>3. 1..n + 1 \subseteq Good
      <3> HIDE DEF Good
      <3> QED
        BY <2>1, <2>2, IntervalInduction
    <2> QED
      BY <2>3
  <1>8. before \in [1..n + 1 -> Nat]
    <2> HIDE DEF own, before
    <2> QED
      BY <1>5, <1>7
  <1> QED
    BY <1>6, <1>8, <1>0

(* A later line has no smaller slot.                                       *)
LEMMA SlotsBeforeGrows ==
  ASSUME NEW program \in Seq(ProgramLine), NEW i \in 1..Len(program) + 1, NEW j \in i..Len(program) + 1
  PROVE  SlotsBefore(program)[i] <= SlotsBefore(program)[j]
  <1> DEFINE before == SlotsBefore(program)
             Good == {m \in i..Len(program) + 1 : before[i] <= before[m]}
  <1>1. /\ \A k \in 1..Len(program) + 1 : before[k] \in Nat
        /\ \A k \in 1..Len(program) : before[k] <= before[k + 1]
    <2>1. \A k \in 1..Len(program) :
            before[k + 1] = before[k] + (IF program[k].kind = "code" THEN program[k].slots ELSE 0)
      BY SlotsBeforeIs
    <2>2. \A k \in 1..Len(program) + 1 : before[k] \in Nat
      BY SlotsBeforeIs
    <2>3. \A k \in 1..Len(program) : program[k].kind = "code" => program[k].slots \in Nat
      BY LineFields
    <2>4. ASSUME NEW k \in 1..Len(program) PROVE before[k] <= before[k + 1]
      <3>1. before[k] \in Nat /\ before[k + 1] \in Nat
        BY <2>2
      <3> HIDE DEF before
      <3> QED
        BY <2>1, <2>3, <3>1
    <2> QED
      BY <2>2, <2>4
  <1> HIDE DEF before
  <1>2. i \in Good /\ Len(program) + 1 \in Int /\ i \in Int
    BY <1>1
  <1>3. \A m \in i..(Len(program) + 1) - 1 : m \in Good => m + 1 \in Good
    BY <1>1
  <1>4. i..Len(program) + 1 \subseteq Good
    <2> HIDE DEF Good
    <2> QED
      BY <1>2, <1>3, IntervalInduction
  <1> QED
    BY <1>4 DEF before

(* The rows of a program: those of a code line are its slots, and no other *)
(* line has one.                                                           *)
LEMMA RowsAre ==
  ASSUME NEW program \in Seq(ProgramLine)
  PROVE  /\ \A r \in Rows(program) : \E k \in CodeLines(program) :
              /\ r = [address |-> r.address, line |-> k]
              /\ r.address \in SlotsBefore(program)[k]..SlotsBefore(program)[k + 1] - 1
              /\ r.address \in Slots(program)
         /\ \A k \in CodeLines(program) : \A a \in SlotsBefore(program)[k]..SlotsBefore(program)[k + 1] - 1 :
              [address |-> a, line |-> k] \in Rows(program)
         /\ \A k \in CodeLines(program) :
              SlotsBefore(program)[k] \in SlotsBefore(program)[k]..SlotsBefore(program)[k + 1] - 1
  <1> DEFINE before == SlotsBefore(program)
  <1>1. /\ \A k \in 1..Len(program) + 1 : before[k] \in Nat
        /\ \A k \in DOMAIN program :
             before[k + 1] = before[k] + (IF program[k].kind = "code" THEN program[k].slots ELSE 0)
    BY SlotsBeforeIs
  <1>2. DOMAIN program = 1..Len(program)
    OBVIOUS
  <1>3. \A k \in DOMAIN program : before[k + 1] <= before[Len(program) + 1]
    BY SlotsBeforeGrows, <1>2
  <1> HIDE DEF before
  <1>4. ASSUME NEW r \in Rows(program)
        PROVE  \E k \in CodeLines(program) :
                 /\ r = [address |-> r.address, line |-> k]
                 /\ r.address \in before[k]..before[k + 1] - 1
                 /\ r.address \in Slots(program)
    <2>0. PICK k \in DOMAIN program : \E a \in before[k]..before[k + 1] - 1 : r = [address |-> a, line |-> k]
      BY DEF Rows, before
    <2>1. PICK a \in before[k]..before[k + 1] - 1 : r = [address |-> a, line |-> k]
      BY <2>0
    <2>2. program[k].kind = "code"
      BY <2>1, <1>1, <1>2
    <2>3. a \in Slots(program)
      BY <2>1, <1>1, <1>2, <1>3 DEF Slots, before
    <2>4. r.address = a
      BY <2>1
    <2> QED
      BY <2>1, <2>2, <2>3, <2>4 DEF CodeLines
  <1>5. ASSUME NEW k \in CodeLines(program), NEW a \in before[k]..before[k + 1] - 1
        PROVE  [address |-> a, line |-> k] \in Rows(program)
    BY DEF Rows, CodeLines, before
  <1>6. ASSUME NEW k \in CodeLines(program) PROVE before[k] \in before[k]..before[k + 1] - 1
    BY <1>1, <1>2, LineFields DEF CodeLines
  <1> QED
    BY <1>4, <1>5, <1>6 DEF before

(* Every slot has one row.                                                 *)
LEMMA RowsDiffer ==
  ASSUME NEW program \in Seq(ProgramLine), NEW r \in Rows(program), NEW s \in Rows(program),
         r.address = s.address
  PROVE  r = s
  <1> DEFINE before == SlotsBefore(program)
  <1>1. PICK j \in CodeLines(program) :
          r = [address |-> r.address, line |-> j] /\ r.address \in before[j]..before[j + 1] - 1
    BY RowsAre
  <1>2. PICK k \in CodeLines(program) :
          s = [address |-> s.address, line |-> k] /\ s.address \in before[k]..before[k + 1] - 1
    BY RowsAre
  <1>3. j \in 1..Len(program) /\ k \in 1..Len(program)
    BY DEF CodeLines
  <1>4. \A m \in 1..Len(program) + 1 : before[m] \in Nat
    BY SlotsBeforeIs
  <1>5. /\ j < k => before[j + 1] <= before[k]
        /\ k < j => before[k + 1] <= before[j]
    BY SlotsBeforeGrows, <1>3
  <1> DEFINE a == r.address
  <1>6. a \in before[j]..before[j + 1] - 1 /\ a \in before[k]..before[k + 1] - 1
    BY <1>1, <1>2
  <1> HIDE DEF before, a
  <1>7. j = k
    <2>1. Len(program) \in Nat
      OBVIOUS
    <2>2. /\ before[j] \in Nat /\ before[j + 1] \in Nat
          /\ before[k] \in Nat /\ before[k + 1] \in Nat
      BY <1>3, <1>4, <2>1
    <2>3. PICK lowJ \in Nat, highJ \in Nat, lowK \in Nat, highK \in Nat :
            lowJ = before[j] /\ highJ = before[j + 1] /\ lowK = before[k] /\ highK = before[k + 1]
      BY <2>2
    <2>4. a \in lowJ..highJ - 1 /\ a \in lowK..highK - 1
      BY <1>6, <2>3
    <2>5. ~(j < k)
      <3>1. j < k => highJ <= lowK
        BY <1>5, <2>3
      <3> QED
        BY <2>4, <3>1
    <2>6. ~(k < j)
      <3>1. k < j => highK <= lowJ
        BY <1>5, <2>3
      <3> QED
        BY <2>4, <3>1
    <2> QED
      BY <1>3, <2>1, <2>5, <2>6
  <1> QED
    BY <1>1, <1>2, <1>7

(* The map that LoadTasMap reads of a program that was assembled.          *)
Map(program) == TasMapOf(Rows(program))

(* The first slot of a code line.                                          *)
LEMMA FirstSlot ==
  ASSUME NEW program \in Seq(ProgramLine), NEW k \in CodeLines(program)
  PROVE  SlotsBefore(program)[k] \in Nat
  <1>1. k \in 1..Len(program) + 1 /\ Len(program) \in Nat
    BY DEF CodeLines
  <1> QED
    BY <1>1, SlotsBeforeIs

(* The map takes a code line to its first slot, and that slot back to it.  *)
LEMMA MapOfRows ==
  ASSUME NEW program \in Seq(ProgramLine)
  PROVE  /\ DOMAIN Map(program).firstAddressByLine = CodeLines(program)
         /\ \A k \in CodeLines(program) :
              /\ Map(program).firstAddressByLine[k] = SlotsBefore(program)[k]
              /\ SlotsBefore(program)[k] \in DOMAIN Map(program).lineByAddress
              /\ Map(program).lineByAddress[SlotsBefore(program)[k]] = k
         /\ DOMAIN Map(program).lineByAddress \subseteq Slots(program)
  <1> DEFINE before == SlotsBefore(program)
             rows == Rows(program)
             first(k) == {r.address : r \in {s \in rows : s.line = k}}
  <1>1. \A r \in rows : r.line \in CodeLines(program) /\ r.address \in Slots(program)
    <2> TAKE r \in rows
    <2>1. PICK k \in CodeLines(program) : r = [address |-> r.address, line |-> k] /\ r.address \in Slots(program)
      BY RowsAre
    <2>2. r.line = k
      BY <2>1
    <2> QED
      BY <2>1, <2>2
  <1>2. \A k \in CodeLines(program) : [address |-> before[k], line |-> k] \in rows
    BY RowsAre
  <1>3. {r.line : r \in rows} = CodeLines(program)
    <2>1. \A k \in CodeLines(program) : \E r \in rows : r.line = k
      <3> TAKE k \in CodeLines(program)
      <3> DEFINE r == [address |-> before[k], line |-> k]
      <3>1. r \in rows /\ r.line = k
        BY <1>2
      <3> QED
        BY <3>1
    <2> QED
      BY <1>1, <2>1
  <1>4. ASSUME NEW k \in CodeLines(program)
        PROVE  Min(first(k)) = before[k]
    <2>1. before[k] \in first(k)
      <3> DEFINE r == [address |-> before[k], line |-> k]
      <3>1. r \in rows /\ r.line = k /\ r.address = before[k]
        BY <1>2
      <3> HIDE DEF r, before
      <3> QED
        BY <3>1
    <2>2. ASSUME NEW r \in rows, r.line = k PROVE r.address >= before[k] /\ r.address \in Nat
      <3>1. PICK j \in CodeLines(program) :
              r = [address |-> r.address, line |-> j] /\ r.address \in before[j]..before[j + 1] - 1
        BY RowsAre
      <3>2. j = k
        BY <3>1, <2>2
      <3>3. before[k] \in Nat
        BY FirstSlot
      <3> HIDE DEF before
      <3> QED
        BY <3>1, <3>2, <3>3
    <2>3. before[k] \in Nat
      BY FirstSlot
    <2>4. first(k) \in SUBSET Nat /\ first(k) # {} /\ \A a \in first(k) : a >= before[k]
      BY <2>1, <2>2
    <2>5. Min(first(k)) \in first(k) /\ \A m \in first(k) : Min(first(k)) <= m
      <3> HIDE DEF first
      <3> QED
        BY <2>4, MinIs
    <2> HIDE DEF first, before
    <2> QED
      BY <2>1, <2>3, <2>4, <2>5
  <1>5. ASSUME NEW k \in CodeLines(program)
        PROVE  (CHOOSE r \in rows : r.address = before[k]).line = k
    <2> DEFINE r == [address |-> before[k], line |-> k]
               s == CHOOSE s \in rows : s.address = before[k]
    <2>1. r \in rows /\ r.line = k /\ r.address = before[k]
      BY <1>2
    <2>2. s \in rows /\ s.address = before[k]
      <3> HIDE DEF r, before, rows
      <3> QED
        BY <2>1
    <2>3. r = s
      <3> HIDE DEF r, s
      <3> QED
        BY <2>1, <2>2, RowsDiffer
    <2> QED
      BY <2>1, <2>3
  <1>6. \A k \in CodeLines(program) : before[k] \in {r.address : r \in rows}
    <2> TAKE k \in CodeLines(program)
    <2> DEFINE r == [address |-> before[k], line |-> k]
    <2>1. r \in rows /\ r.address = before[k]
      BY <1>2
    <2> HIDE DEF r, before
    <2> QED
      BY <2>1
  <1>7. /\ DOMAIN Map(program).lineByAddress = {r.address : r \in rows}
        /\ DOMAIN Map(program).firstAddressByLine = {r.line : r \in rows}
        /\ \A k \in {r.line : r \in rows} : Map(program).firstAddressByLine[k] = Min(first(k))
        /\ \A a \in {r.address : r \in rows} :
             Map(program).lineByAddress[a] = (CHOOSE r \in rows : r.address = a).line
    BY DEF Map, TasMapOf
  <1>8. \A k \in CodeLines(program) :
          /\ Map(program).firstAddressByLine[k] = before[k]
          /\ before[k] \in DOMAIN Map(program).lineByAddress
          /\ Map(program).lineByAddress[before[k]] = k
    <2> HIDE DEF first, before, rows
    <2> QED
      BY <1>3, <1>4, <1>5, <1>6, <1>7
  <1>9. DOMAIN Map(program).lineByAddress \subseteq Slots(program)
    <2> HIDE DEF rows
    <2> QED
      BY <1>1, <1>7
  <1> QED
    BY <1>3, <1>7, <1>8, <1>9

(* A line's address is that of the first code line from it on...           *)
LEMMA AddressForLineIs ==
  ASSUME NEW program \in Seq(ProgramLine), NEW line \in Nat
  PROVE  LET place == AddressForLine(Map(program), line)
         IN  \/ /\ place = NoPlace
                /\ \A k \in CodeLines(program) : k < line
             \/ /\ place = [address |-> SlotsBefore(program)[place.line], line |-> place.line]
                /\ place.line \in CodeLines(program) /\ place.line >= line
                /\ \A k \in CodeLines(program) : k >= line => k >= place.line
                /\ place.address \in Slots(program) /\ place # NoPlace
  <1> DEFINE place == AddressForLine(Map(program), line)
             mapped == {k \in CodeLines(program) : k >= line}
  <1>1. CodeLines(program) \in SUBSET Nat
    BY DEF CodeLines
  <1>2. place = IF mapped = {} THEN NoPlace
                ELSE [address |-> SlotsBefore(program)[Min(mapped)], line |-> Min(mapped)]
    <2>1. DOMAIN Map(program).firstAddressByLine = CodeLines(program)
      BY MapOfRows
    <2>2. place = IF mapped = {} THEN NoPlace
                  ELSE [address |-> Map(program).firstAddressByLine[Min(mapped)], line |-> Min(mapped)]
      BY <2>1 DEF AddressForLine
    <2>3. mapped # {} => Min(mapped) \in mapped
      <3> HIDE DEF mapped
      <3> QED
        BY <1>1, MinIs DEF mapped
    <2>4. mapped # {} => Map(program).firstAddressByLine[Min(mapped)] = SlotsBefore(program)[Min(mapped)]
      <3> HIDE DEF mapped
      <3> QED
        BY <2>3, MapOfRows DEF mapped
    <2> HIDE DEF mapped, place
    <2> QED
      BY <2>2, <2>4
  <1>3. CASE mapped = {}
    <2>1. \A k \in CodeLines(program) : k < line
      BY <1>1, <1>3
    <2> QED
      BY <1>2, <1>3, <2>1
  <1>4. CASE mapped # {}
    <2>1. Min(mapped) \in mapped /\ \A k \in mapped : Min(mapped) <= k
      <3>1. mapped \in SUBSET Nat
        BY <1>1
      <3> HIDE DEF mapped
      <3> QED
        BY <3>1, <1>4, MinIs
    <2> DEFINE n == Min(mapped)
    <2>2. place = [address |-> SlotsBefore(program)[n], line |-> n]
      BY <1>2, <1>4
    <2>3. n \in CodeLines(program) /\ n >= line /\ \A k \in CodeLines(program) : k >= line => k >= n
      BY <2>1, <1>1
    <2>4. SlotsBefore(program)[n] \in Slots(program) /\ SlotsBefore(program)[n] # -1
      <3>1. SlotsBefore(program)[n] \in Slots(program)
        BY <2>3, MapOfRows
      <3> QED
        BY <3>1 DEF Slots
    <2> HIDE DEF n, place, mapped
    <2>5. place.line = n /\ place.address = SlotsBefore(program)[n]
      BY <2>2
    <2>6. place # NoPlace
      BY <2>4, <2>5 DEF NoPlace
    <2> QED
      BY <2>2, <2>3, <2>4, <2>5, <2>6 DEF place
  <1> QED
    BY <1>3, <1>4

(* ... which is the line of that address.                                  *)
LEMMA LineForAddressIs ==
  ASSUME NEW program \in Seq(ProgramLine), NEW k \in CodeLines(program)
  PROVE  LineForAddress(Map(program), SlotsBefore(program)[k]) = k
  <1> DEFINE a == SlotsBefore(program)[k]
             below == {b \in DOMAIN Map(program).lineByAddress : b <= a}
  <1>1. a \in DOMAIN Map(program).lineByAddress /\ a \in Nat /\ Map(program).lineByAddress[a] = k
    <2>1. a \in DOMAIN Map(program).lineByAddress /\ Map(program).lineByAddress[a] = k
      BY MapOfRows
    <2>2. a \in Nat
      BY FirstSlot
    <2> QED
      BY <2>1, <2>2
  <1>2. DOMAIN Map(program).lineByAddress \subseteq Int
    <2>1. DOMAIN Map(program).lineByAddress \subseteq Slots(program)
      BY MapOfRows
    <2> QED
      BY <2>1 DEF Slots
  <1> HIDE DEF a
  <1>3. below \in SUBSET Int /\ below # {} /\ a \in below /\ \A b \in below : b <= a
    BY <1>1, <1>2
  <1>4. Max(below) = a
    <2>1. a \in Int
      BY <1>1
    <2> HIDE DEF below
    <2>2. Max(below) \in below /\ \A b \in below : b <= Max(below)
      BY <1>3, <2>1, MaxIs
    <2>3. Max(below) \in Int /\ a <= Max(below) /\ Max(below) <= a
      BY <2>2, <1>3
    <2> QED
      BY <2>1, <2>3
  <1> QED
    BY <1>1, <1>3, <1>4 DEF LineForAddress, a

(* A map that was not written has no place.                                *)
LEMMA EmptyMap ==
  ASSUME NEW line
  PROVE  AddressForLine(TasMapOf({}), line) = NoPlace
  BY DEF AddressForLine, TasMapOf

(* The lines of a program that are markers.                                *)
LocLines(program) == {k \in DOMAIN program : program[k].kind = "loc"}

(* The markers of a program are in its map, as they are in its text.       *)
LEMMA LocMapIs ==
  ASSUME NEW program \in Seq(ProgramLine)
  PROVE  /\ DOMAIN LocMapOf(program) = LocLines(program)
         /\ LocLines(program) \subseteq 1..Len(program) /\ LocLines(program) \in SUBSET Nat
         /\ \A k \in LocLines(program) :
              /\ LocMapOf(program)[k].file = program[k].file /\ program[k].file \in DOMAIN FullPath
              /\ LocMapOf(program)[k].line = program[k].line /\ program[k].line \in Nat
  <1>1. DOMAIN LocMapOf(program) = LocLines(program)
    BY DEF LocMapOf, LocLines
  <1>2. \A k \in LocLines(program) : LocMapOf(program)[k] = [file |-> program[k].file, line |-> program[k].line]
    BY DEF LocMapOf, LocLines
  <1>3. \A k \in LocLines(program) : program[k].file \in DOMAIN FullPath /\ program[k].line \in Nat /\ k \in 1..Len(program)
    BY LineFields DEF LocLines
  <1> QED
    BY <1>1, <1>2, <1>3

(* A source line's place is the marker of the lowest line from it on.      *)
LEMMA TasLineForSourceLineIs ==
  ASSUME NEW program \in Seq(ProgramLine), NEW file, NEW line \in Nat
  PROVE  LET tasLine == TasLineForSourceLine(LocMapOf(program), file, line)
             after == {k \in LocLines(program) : SameFile(program[k].file, file) /\ program[k].line >= line}
         IN  \/ tasLine = 0 /\ after = {}
             \/ tasLine \in after /\ tasLine # 0 /\ \A k \in after : program[tasLine].line <= program[k].line
  <1> DEFINE markers == LocMapOf(program)
             tasLine == TasLineForSourceLine(markers, file, line)
             after == {k \in LocLines(program) : SameFile(program[k].file, file) /\ program[k].line >= line}
             lines == {program[k].line : k \in after}
             first == {k \in after : program[k].line = Min(lines)}
  <1>1. {k \in DOMAIN markers : SameFile(markers[k].file, file) /\ markers[k].line >= line} = after
    BY LocMapIs DEF SameFile
  <1>2. after \in SUBSET Nat /\ lines \in SUBSET Nat /\ \A k \in after : k # 0 /\ program[k].line \in Nat
    BY LocMapIs
  <1>3. tasLine = IF after = {} THEN 0 ELSE Min(first)
    <2>1. {markers[k].line : k \in after} = lines
      BY LocMapIs
    <2>2. {k \in after : markers[k].line = Min(lines)} = first
      BY LocMapIs
    <2> HIDE DEF markers, after, lines, first
    <2> QED
      BY <1>1, <2>1, <2>2 DEF TasLineForSourceLine, tasLine
  <1>4. ASSUME after # {}
        PROVE  tasLine \in after /\ tasLine # 0 /\ \A k \in after : program[tasLine].line <= program[k].line
    <2>1. Min(lines) \in lines /\ \A m \in lines : Min(lines) <= m
      <3>1. lines # {}
        BY <1>4
      <3> HIDE DEF lines
      <3> QED
        BY <3>1, <1>2, MinIs
    <2>2. first \in SUBSET Nat /\ first # {}
      BY <2>1, <1>2
    <2>3. Min(first) \in first
      <3> HIDE DEF first
      <3> QED
        BY <2>2, MinIs
    <2>4. tasLine = Min(first)
      BY <1>3, <1>4
    <2> HIDE DEF tasLine
    <2>5. tasLine \in after /\ program[tasLine].line = Min(lines)
      BY <2>3, <2>4
    <2>6. \A k \in after : Min(lines) <= program[k].line
      BY <2>1
    <2> QED
      BY <2>5, <2>6, <1>2
  <1> HIDE DEF tasLine, after
  <1>5. \/ tasLine = 0 /\ after = {}
        \/ tasLine \in after /\ tasLine # 0 /\ \A k \in after : program[tasLine].line <= program[k].line
    BY <1>3, <1>4
  <1> QED
    BY <1>5 DEF tasLine, after

-----------------------------------------------------------------------------
(* One pass over the requested lines.                                      *)

(* Where the breakpoint of the k-th line goes.                             *)
Place(source, lines, k) == Target(source, lines[k])

(* One pass over the requested lines arms an empty stub line by line: a    *)
(* place that is not armed yet takes a trigger, if one is left.            *)
LEMMA ArmedAfterIs ==
  ASSUME NEW source, NEW lines \in Seq(Nat \ {0})
  PROVE  /\ ArmedAfter(source, lines)[0] = {}
         /\ \A k \in DOMAIN lines :
              ArmedAfter(source, lines)[k] =
                IF \/ Place(source, lines, k) = NoPlace
                   \/ /\ Place(source, lines, k).address \notin ArmedAfter(source, lines)[k - 1]
                      /\ Cardinality(ArmedAfter(source, lines)[k - 1]) = Triggers
                THEN ArmedAfter(source, lines)[k - 1]
                ELSE ArmedAfter(source, lines)[k - 1] \cup {Place(source, lines, k).address}
  <1> DEFINE n == Len(lines)
             A == SUBSET {Target(source, lines[k]).address : k \in DOMAIN lines}
             next(S, k) == LET place == Target(source, lines[k])
                           IN  IF place = NoPlace \/ (place.address \notin S /\ Cardinality(S) = Triggers)
                               THEN S ELSE S \cup {place.address}
             step == [x \in A \X (0 + 1..n) |-> next(x[1], x[2])]
             set == ArmedAfter(source, lines)
  <1>0. n \in Nat /\ n \in Int /\ 0 \in Int /\ DOMAIN lines = 1..n
    OBVIOUS
  <1>1. \A S \in A, k \in 1..n : next(S, k) \in A
    <2> TAKE S \in A, k \in 1..n
    <2>1. Target(source, lines[k]).address \in {Target(source, lines[j]).address : j \in DOMAIN lines}
      BY <1>0
    <2> QED
      BY <2>1
  <1>2. step \in [A \X (0 + 1..n) -> A] /\ {} \in A
    <2>1. 0 + 1 = 1 /\ {} \in A
      OBVIOUS
    <2> HIDE DEF next, A
    <2> QED
      BY <1>1, <2>1
  <1>3. PICK f \in [0..n -> A] : Unfolds(f, 0, n, {}, step)
    <2> HIDE DEF step, n, A
    <2> QED
      BY <1>0, <1>2, Recursion
  <1>4. f = [k \in 0..n |-> IF k = 0 THEN {} ELSE next(f[k - 1], k)]
    <2>1. ASSUME NEW k \in 0..n, k # 0 PROVE step[<<f[k - 1], k>>] = next(f[k - 1], k)
      <3> HIDE DEF next, n, A
      <3>1. k - 1 \in 0..n /\ k \in 0 + 1..n
        BY <1>0, <2>1
      <3>2. f[k - 1] \in A
        BY <3>1
      <3> QED
        BY <3>1, <3>2
    <2>2. \A k \in 0..n : f[k] = IF k = 0 THEN {} ELSE next(f[k - 1], k)
      <3> HIDE DEF next, step, A
      <3> QED
        BY <1>3, <2>1 DEF Unfolds
    <2> HIDE DEF next, step, A
    <2> QED
      BY <1>3, <2>2
  <1>5. set = [k \in 0..n |-> IF k = 0 THEN {} ELSE next(set[k - 1], k)]
    BY <1>4 DEF ArmedAfter
  <1>6. set[0] = {} /\ \A k \in 1..n : set[k] = next(set[k - 1], k)
    <2> HIDE DEF next, set
    <2>1. 0 \in 0..n /\ \A k \in 1..n : k \in 0..n /\ k # 0
      BY <1>0
    <2> QED
      BY <1>5, <2>1
  <1> QED
    BY <1>0, <1>6 DEF Place

(* What a line has armed stays armed to the end of the pass.               *)
LEMMA ArmedAfterGrows ==
  ASSUME NEW source, NEW lines \in Seq(Nat \ {0}), NEW i \in 0..Len(lines), NEW j \in i..Len(lines)
  PROVE  ArmedAfter(source, lines)[i] \subseteq ArmedAfter(source, lines)[j]
  <1> DEFINE set == ArmedAfter(source, lines)
             Good == {m \in i..Len(lines) : set[i] \subseteq set[m]}
  <1>1. \A k \in 1..Len(lines) : set[k - 1] \subseteq set[k]
    <2>1. DOMAIN lines = 1..Len(lines)
      OBVIOUS
    <2>2. \A k \in DOMAIN lines :
            set[k] = IF \/ Place(source, lines, k) = NoPlace
                        \/ /\ Place(source, lines, k).address \notin set[k - 1]
                           /\ Cardinality(set[k - 1]) = Triggers
                     THEN set[k - 1] ELSE set[k - 1] \cup {Place(source, lines, k).address}
      BY ArmedAfterIs
    <2> HIDE DEF set
    <2> QED
      BY <2>1, <2>2
  <1> HIDE DEF set
  <1>2. i \in Good /\ i \in Int /\ Len(lines) \in Int
    OBVIOUS
  <1>3. ASSUME NEW m \in i..Len(lines) - 1, m \in Good PROVE m + 1 \in Good
    <2>1. m + 1 \in 1..Len(lines) /\ (m + 1) - 1 = m /\ m + 1 \in i..Len(lines)
      OBVIOUS
    <2> QED
      BY <1>1, <1>3, <2>1
  <1>4. i..Len(lines) \subseteq Good
    <2> HIDE DEF Good
    <2> QED
      BY <1>2, <1>3, IntervalInduction
  <1> QED
    BY <1>4 DEF set

(* What is armed was asked for, and is no more than the stub has triggers  *)
(* for and the request has lines.                                          *)
LEMMA ArmedAfterBounds ==
  ASSUME NEW source, NEW lines \in Seq(Nat \ {0}), NEW n \in 0..Len(lines)
  PROVE  LET set == ArmedAfter(source, lines)
         IN  /\ IsFiniteSet(set[n]) /\ Cardinality(set[n]) <= Triggers /\ Cardinality(set[n]) <= n
             /\ Cardinality(set[n]) \in Nat
             /\ \A x \in set[n] : \E j \in 1..n :
                  /\ Place(source, lines, j) # NoPlace
                  /\ Place(source, lines, j).address = x /\ x \in set[j]
  <1> DEFINE set == ArmedAfter(source, lines)
             place(k) == Place(source, lines, k)
             explained(m) == \A x \in set[m] : \E j \in 1..m : place(j) # NoPlace /\ place(j).address = x /\ x \in set[j]
             bounded(m) == /\ IsFiniteSet(set[m]) /\ Cardinality(set[m]) <= Triggers
                           /\ Cardinality(set[m]) <= m /\ Cardinality(set[m]) \in Nat
             Good == {m \in 0..Len(lines) : bounded(m) /\ explained(m)}
  <1>0. Len(lines) \in Nat /\ Len(lines) \in Int /\ 0 \in Int /\ Triggers \in Nat
    BY BoundsAssumption
  <1>1. 0 \in Good
    <2>1. set[0] = {} /\ IsFiniteSet({}) /\ Cardinality({}) = 0
      BY ArmedAfterIs, FS_EmptySet
    <2> HIDE DEF set, place
    <2>2. bounded(0)
      BY <2>1, <1>0
    <2>3. explained(0)
      BY <2>1
    <2>4. 0 \in 0..Len(lines)
      BY <1>0
    <2> QED
      BY <2>2, <2>3, <2>4
  <1>2. ASSUME NEW m \in 0..Len(lines) - 1, m \in Good PROVE m + 1 \in Good
    <2>0. m + 1 \in DOMAIN lines /\ (m + 1) - 1 = m /\ m \in 0..Len(lines) /\ m + 1 \in 0..Len(lines) /\ m \in Nat
      OBVIOUS
    <2>1. set[m + 1] = IF \/ place(m + 1) = NoPlace
                          \/ place(m + 1).address \notin set[m] /\ Cardinality(set[m]) = Triggers
                       THEN set[m] ELSE set[m] \cup {place(m + 1).address}
      <3>1. \A k \in DOMAIN lines :
              set[k] = IF \/ place(k) = NoPlace
                          \/ place(k).address \notin set[k - 1] /\ Cardinality(set[k - 1]) = Triggers
                       THEN set[k - 1] ELSE set[k - 1] \cup {place(k).address}
        BY ArmedAfterIs
      <3> HIDE DEF set, place
      <3> QED
        BY <2>0, <3>1
    <2> HIDE DEF set, place
    <2>2. bounded(m) /\ explained(m)
      BY <1>2
    <2>3. CASE set[m + 1] = set[m]
      <3>1. bounded(m + 1)
        BY <2>0, <2>2, <2>3
      <3>2. explained(m + 1)
        BY <2>0, <2>2, <2>3
      <3> QED
        BY <2>0, <3>1, <3>2
    <2>4. CASE /\ set[m + 1] = set[m] \cup {place(m + 1).address} /\ place(m + 1) # NoPlace
               /\ place(m + 1).address \notin set[m] /\ Cardinality(set[m]) # Triggers
      <3>1. IsFiniteSet(set[m + 1]) /\ Cardinality(set[m + 1]) = Cardinality(set[m]) + 1
        <4> DEFINE x == place(m + 1).address
        <4>1. set[m + 1] = set[m] \cup {x} /\ x \notin set[m] /\ IsFiniteSet(set[m])
          BY <2>2, <2>4
        <4> HIDE DEF x
        <4> QED
          BY <4>1, FS_AddElement
      <3>2. bounded(m + 1)
        BY <3>1, <2>0, <2>2, <2>4, <1>0
      <3>3. explained(m + 1)
        <4> SUFFICES ASSUME NEW x \in set[m + 1]
                     PROVE  \E j \in 1..m + 1 : place(j) # NoPlace /\ place(j).address = x /\ x \in set[j]
          OBVIOUS
        <4>1. CASE x \in set[m]
          BY <4>1, <2>0, <2>2
        <4>2. CASE x = place(m + 1).address
          <5>1. m + 1 \in 1..m + 1
            BY <2>0
          <5> QED
            BY <5>1, <4>2, <2>4
        <4> QED
          BY <4>1, <4>2, <2>4
      <3> QED
        BY <2>0, <3>2, <3>3
    <2>5. CASE /\ set[m + 1] = set[m] \cup {place(m + 1).address} /\ place(m + 1).address \in set[m]
      <3>1. set[m + 1] = set[m]
        BY <2>5
      <3> QED
        BY <3>1, <2>3
    <2> QED
      BY <2>1, <2>3, <2>4, <2>5
  <1>3. 0..Len(lines) \subseteq Good
    <2> HIDE DEF Good
    <2> QED
      BY <1>0, <1>1, <1>2, IntervalInduction
  <1>4. n \in Good
    BY <1>3
  <1> QED
    BY <1>4

-----------------------------------------------------------------------------
(* The invariant, step by step.                                           *)

(* The maps are those of the program from the launch on.                   *)
MapsInv ==
  /\ tasMap = IF Halted /\ config.program # "" /\ scenario.tasmap = "written"
              THEN Map(scenario.program) ELSE TasMapOf({})
  /\ locMap = IF Halted /\ config.program # "" THEN LocMapOf(scenario.program) ELSE LocMapOf(<<>>)
  /\ Halted => config.program = "" \/ scenario.tasmap # "malformed"

(* Every mark is an answer the adapter would give again, and what is armed *)
(* is what the last request left.                                          *)
BreakpointsInv ==
  /\ DOMAIN marks = Sources /\ stub = armed /\ requests \in 0..MaxRequests
  /\ ~Halted => asked = ""
  /\ asked = "" => armed = {} /\ marks = [s \in Sources |-> <<>>]
  /\ asked \in Sources \cup {""}
  /\ \A s \in Sources : asked = s => \E lines \in Requests : /\ marks[s] = Answers(s, lines)
                                                          /\ armed = ArmedAfter(s, lines)[Len(lines)]
  /\ \A s \in Sources : marks[s] = <<>> \/ \E lines \in Requests : marks[s] = Answers(s, lines)

(* A frame is shown of a halted target only, and is the one of its slot.   *)
FrameInv ==
  /\ phase # "debugging" => frame = NoFrame
  /\ frame # NoFrame => frame = FrameAt(slot)
  /\ slot \in Nat

(* There are no maps before a launch...                                    *)
LEMMA InitMapsInv == Init => MapsInv
  BY DEF Init, MapsInv, Halted

(* ... and none are loaded after it.                                       *)
LEMMA StepMapsInv == MapsInv /\ [Next]_vars => MapsInv'
  <1> SUFFICES ASSUME MapsInv, [Next]_vars PROVE MapsInv'
    OBVIOUS
  <1>1. CASE ResolveDebugConfiguration \/ CreateDebugAdapterDescriptor
    BY <1>1 DEF ResolveDebugConfiguration, CreateDebugAdapterDescriptor, MapsInv, Halted
  <1>2. CASE HandleLaunch \/ HandleAttach
    BY <1>2 DEF HandleLaunch, HandleAttach, LoadTasMap, MapsInv, Halted, Map
  <1>3. ASSUME UNCHANGED <<scenario, config, tasMap, locMap>>, Halted' = Halted PROVE MapsInv'
    BY <1>3 DEF MapsInv
  <1>4. CASE \/ \E s \in Sources, lines \in Requests : HandleSetBreakpoints(s, lines)
             \/ HandleConfigurationDone \/ HandleStackTrace \/ RunAndHalt \/ Ended \/ UNCHANGED vars
    BY <1>3, <1>4 DEF HandleSetBreakpoints, HandleConfigurationDone, HandleStackTrace, RunAndHalt,
                      Ended, vars, started, Halted
  <1> QED
    BY <1>1, <1>2, <1>4 DEF Next

(* While configuration and maps stay, a request would be answered and      *)
(* armed in the same way again.                                            *)
LEMMA AnswersStay ==
  UNCHANGED <<config, tasMap, locMap>> =>
    \A s, lines : ArmedAfter(s, lines)' = ArmedAfter(s, lines) /\ Answers(s, lines)' = Answers(s, lines)
  <1> SUFFICES ASSUME UNCHANGED <<config, tasMap, locMap>>
               PROVE  \A s, lines : ArmedAfter(s, lines)' = ArmedAfter(s, lines) /\ Answers(s, lines)' = Answers(s, lines)
    OBVIOUS
  <1>1. \A s, line : Target(s, line)' = Target(s, line)
    BY DEF Target, IsCompiledSource, AddressForLine, TasLineForSourceLine, CoversFile, SameFile
  <1>2. \A s, lines : ArmedAfter(s, lines)' = ArmedAfter(s, lines)
    BY DEF ArmedAfter, Target, IsCompiledSource, AddressForLine, TasLineForSourceLine, CoversFile, SameFile
  <1>3. \A s, lines : Answers(s, lines)' = Answers(s, lines)
    BY <1>1, <1>2 DEF Answers
  <1> QED
    BY <1>2, <1>3

(* The source that was asked about last is none before the first request.  *)
LEMMA SourcesAreFiles == "" \notin Sources
  BY PathsAssumption, BoundsAssumption

(* Nothing is armed and no mark is set at first.                           *)
LEMMA InitBreakpointsInv == Init => BreakpointsInv
  <1> SUFFICES ASSUME Init PROVE BreakpointsInv
    OBVIOUS
  <1>0. requests = 0 /\ MaxRequests \in Nat
    BY BoundsAssumption DEF Init
  <1>1. /\ marks = [s \in Sources |-> <<>>] /\ asked = "" /\ armed = {} /\ stub = {}
        /\ requests \in 0..MaxRequests
    <2>1. requests \in 0..MaxRequests
      BY <1>0
    <2> QED
      BY <2>1 DEF Init
  <1>2. \A s \in Sources : marks[s] = <<>> /\ asked # s
    BY <1>1, SourcesAreFiles
  <1> QED
    BY <1>1, <1>2 DEF BreakpointsInv

(* HandleSetBreakpoints replaces the marks of one source and all triggers; *)
(* what the other sources were answered, it would answer again.            *)
LEMMA StepBreakpointsInv == BreakpointsInv /\ [Next]_vars => BreakpointsInv'
  <1> SUFFICES ASSUME BreakpointsInv, [Next]_vars PROVE BreakpointsInv'
    OBVIOUS
  <1>1. ASSUME UNCHANGED <<armed, stub, marks, asked, requests>>, ~Halted
        PROVE  BreakpointsInv'
    BY <1>1, SourcesAreFiles DEF BreakpointsInv
  <1>2. ASSUME UNCHANGED <<config, tasMap, locMap, armed, stub, marks, asked, requests>>, Halted' = Halted
        PROVE  BreakpointsInv'
    <2>1. \A s, lines : ArmedAfter(s, lines)' = ArmedAfter(s, lines) /\ Answers(s, lines)' = Answers(s, lines)
      BY <1>2, AnswersStay
    <2>2. \A s \in Sources : asked' = s =>
            \E lines \in Requests : marks'[s] = Answers(s, lines)' /\ armed' = ArmedAfter(s, lines)'[Len(lines)]
      BY <1>2, <2>1 DEF BreakpointsInv
    <2>3. \A s \in Sources : marks'[s] = <<>> \/ \E lines \in Requests : marks'[s] = Answers(s, lines)'
      BY <1>2, <2>1 DEF BreakpointsInv
    <2> QED
      BY <1>2, <2>2, <2>3 DEF BreakpointsInv
  <1>3. CASE ResolveDebugConfiguration \/ CreateDebugAdapterDescriptor \/ HandleLaunch \/ HandleAttach
    BY <1>1, <1>3 DEF ResolveDebugConfiguration, CreateDebugAdapterDescriptor, HandleLaunch, HandleAttach, Halted
  <1>4. ASSUME NEW s \in Sources, NEW lines \in Requests, HandleSetBreakpoints(s, lines)
        PROVE  BreakpointsInv'
    <2>1. /\ armed' = ArmedAfter(s, lines)[Len(lines)] /\ stub' = armed'
          /\ marks' = [marks EXCEPT ![s] = Answers(s, lines)] /\ asked' = s
          /\ UNCHANGED <<config, tasMap, locMap>> /\ Halted' /\ s # ""
          /\ requests' \in 0..MaxRequests
      <3>1. /\ armed' = ArmedAfter(s, lines)[Len(lines)]
            /\ marks' = [marks EXCEPT ![s] = Answers(s, lines)] /\ asked' = s
            /\ UNCHANGED <<config, tasMap, locMap, phase>> /\ Halted /\ s # ""
        BY <1>4, SourcesAreFiles DEF HandleSetBreakpoints, started
      <3>2. stub' = armed'
        BY <1>4 DEF HandleSetBreakpoints, Cleared, BreakpointsInv
      <3>3. requests' = requests + 1 /\ requests < MaxRequests /\ requests \in 0..MaxRequests
        BY <1>4 DEF HandleSetBreakpoints, BreakpointsInv
      <3>4. requests' \in 0..MaxRequests
        BY <3>3, BoundsAssumption
      <3> QED
        BY <3>1, <3>2, <3>4 DEF Halted
    <2>2. \A r, l : ArmedAfter(r, l)' = ArmedAfter(r, l) /\ Answers(r, l)' = Answers(r, l)
      BY <2>1, AnswersStay
    <2>3. marks' \in [Sources -> {marks[r] : r \in Sources} \cup {Answers(s, lines)}]
          /\ marks'[s] = Answers(s, lines) /\ \A r \in Sources \ {s} : marks'[r] = marks[r]
      BY <2>1 DEF BreakpointsInv
    <2> QED
      BY <2>1, <2>2, <2>3 DEF BreakpointsInv
  <1>5. CASE HandleConfigurationDone \/ HandleStackTrace \/ RunAndHalt \/ Ended \/ UNCHANGED vars
    BY <1>2, <1>5 DEF HandleConfigurationDone, HandleStackTrace, RunAndHalt, Ended, vars, started, Halted
  <1> QED
    BY <1>3, <1>4, <1>5 DEF Next

(* No frame is shown at first.                                             *)
LEMMA InitFrameInv == Init => FrameInv
  <1> SUFFICES ASSUME Init PROVE FrameInv
    OBVIOUS
  <1>1. slot = 0 /\ frame = NoFrame
    BY DEF Init
  <1> QED
    BY <1>1 DEF FrameInv

(* A frame is computed once the target has halted, and goes when it runs.  *)
LEMMA StepFrameInv == FrameInv /\ [Next]_vars => FrameInv'
  <1> SUFFICES ASSUME FrameInv, [Next]_vars PROVE FrameInv'
    OBVIOUS
  <1>0. slot' \in Nat
    <2>1. slot' = slot \/ slot' \in Slots(scenario.program)
      BY DEF Next, ResolveDebugConfiguration, CreateDebugAdapterDescriptor, HandleLaunch, HandleAttach,
             HandleSetBreakpoints, HandleConfigurationDone, HandleStackTrace, RunAndHalt, Ended, vars
    <2> QED
      BY <2>1 DEF Slots, FrameInv
  <1>1. ASSUME UNCHANGED <<scenario, config, tasMap, locMap, slot>> PROVE FrameAt(slot)' = FrameAt(slot)
    BY <1>1 DEF FrameAt, LineForAddress, LocForTasLine
  <1>2. ASSUME frame = NoFrame, frame' = frame PROVE FrameInv'
    BY <1>0, <1>2 DEF FrameInv
  <1>3. CASE ResolveDebugConfiguration \/ CreateDebugAdapterDescriptor \/ HandleLaunch \/ HandleAttach
             \/ HandleConfigurationDone
    BY <1>2, <1>3 DEF ResolveDebugConfiguration, CreateDebugAdapterDescriptor, HandleLaunch, HandleAttach,
                      HandleConfigurationDone, FrameInv
  <1>4. CASE HandleStackTrace
    <2>1. frame' = FrameAt(slot) /\ phase' = "debugging" /\ FrameAt(slot)' = FrameAt(slot)
      BY <1>1, <1>4 DEF HandleStackTrace, started
    <2> QED
      BY <1>0, <2>1 DEF FrameInv
  <1>5. CASE RunAndHalt
    BY <1>0, <1>5 DEF RunAndHalt, FrameInv
  <1>6. CASE \/ \E s \in Sources, lines \in Requests : HandleSetBreakpoints(s, lines)
             \/ Ended \/ UNCHANGED vars
    <2>1. UNCHANGED <<scenario, config, tasMap, locMap, slot, phase, frame>>
      BY <1>6 DEF HandleSetBreakpoints, Ended, vars, started
    <2> QED
      BY <1>0, <2>1, <1>1 DEF FrameInv
  <1> QED
    BY <1>3, <1>4, <1>5, <1>6 DEF Next

-----------------------------------------------------------------------------
(* What it says of the marks, the triggers and the frames.                 *)

(* A source is compiled when the program has a marker of it and is another *)
(* file.                                                                   *)
LEMMA CompiledIs ==
  ASSUME MapsInv, Halted, scenario.program \in Seq(ProgramLine), NEW source
  PROVE  IsCompiledSource(source) <=> config.program # "" /\ ~IsProgram(source) /\ IsMarked(source)
  <1> DEFINE program == scenario.program
  <1>1. CASE config.program = ""
    BY <1>1 DEF IsCompiledSource
  <1>2. CASE config.program # ""
    <2>1. locMap = LocMapOf(program)
      BY <1>2 DEF MapsInv
    <2>2. CoversFile(locMap, source) <=> \E k \in LocLines(program) : SameFile(program[k].file, source)
      <3>1. DOMAIN locMap = LocLines(program) /\ \A k \in LocLines(program) : locMap[k].file = program[k].file
        BY <2>1, LocMapIs
      <3> HIDE DEF program
      <3> QED
        BY <3>1 DEF CoversFile, SameFile
    <2>3. IsMarked(source) <=> \E k \in LocLines(program) : SameFile(program[k].file, source)
      BY DEF IsMarked, LocLines
    <2> QED
      BY <1>2, <2>2, <2>3 DEF IsCompiledSource, IsProgram
  <1> QED
    BY <1>1, <1>2

(* Where a breakpoint goes, when it goes somewhere: to the first slot of a *)
(* code line, which is the first from the line asked for or from the       *)
(* marker of the lowest source line.                                       *)
LEMMA TargetIs ==
  ASSUME MapsInv, Halted, scenario.program \in Seq(ProgramLine), NEW source, NEW line \in Nat,
         Target(source, line) # NoPlace
  PROVE  LET program == scenario.program
             place == Target(source, line)
             marker == TasLineForSourceLine(locMap, source, line)
             from == IF IsCompiledSource(source) THEN marker ELSE line
         IN  /\ config.program # "" /\ scenario.tasmap = "written" /\ tasMap = Map(program) /\ locMap = LocMapOf(program)
             /\ place.address \in Slots(program) /\ place.line >= line /\ place.line \in Nat
             /\ \E c \in CodeLines(program) :
                  /\ place.address = SlotsBefore(program)[c] /\ c >= from
                  /\ \A k \in CodeLines(program) : k >= from => k >= c
                  /\ ~IsCompiledSource(source) => place.line = c
             /\ IsCompiledSource(source) =>
                  /\ marker \in LocLines(program) /\ place.line = program[marker].line
                  /\ SameFile(program[marker].file, source)
                  /\ \A k \in LocLines(program) :
                       SameFile(program[k].file, source) /\ program[k].line >= line => program[k].line >= place.line
  <1> DEFINE program == scenario.program
             place == Target(source, line)
             marker == TasLineForSourceLine(locMap, source, line)
             from == IF IsCompiledSource(source) THEN marker ELSE line
             spot == AddressForLine(tasMap, from)
  <1>1. IsCompiledSource(source) => config.program # "" /\ locMap = LocMapOf(program)
    BY DEF IsCompiledSource, MapsInv
  <1>2. IsCompiledSource(source) =>
          \/ marker = 0
          \/ /\ marker \in LocLines(program) /\ marker \in Nat /\ marker # 0
             /\ SameFile(program[marker].file, source) /\ program[marker].line >= line
             /\ program[marker].line \in Nat /\ locMap[marker].line = program[marker].line
             /\ \A k \in LocLines(program) :
                  SameFile(program[k].file, source) /\ program[k].line >= line => program[k].line >= program[marker].line
    <2> SUFFICES ASSUME IsCompiledSource(source), marker # 0
                 PROVE  /\ marker \in LocLines(program) /\ marker \in Nat /\ marker # 0
                        /\ SameFile(program[marker].file, source) /\ program[marker].line >= line
                        /\ program[marker].line \in Nat /\ locMap[marker].line = program[marker].line
                        /\ \A k \in LocLines(program) :
                             SameFile(program[k].file, source) /\ program[k].line >= line =>
                               program[k].line >= program[marker].line
      OBVIOUS
    <2>1. locMap = LocMapOf(program)
      BY <1>1
    <2> DEFINE after == {k \in LocLines(program) : SameFile(program[k].file, source) /\ program[k].line >= line}
    <2>2. marker \in after /\ \A k \in after : program[marker].line <= program[k].line
      BY <2>1, TasLineForSourceLineIs
    <2>3. \A k \in LocLines(program) :
            k \in Nat /\ program[k].line \in Nat /\ locMap[k].line = program[k].line
      BY <2>1, LocMapIs
    <2> HIDE DEF marker, program
    <2> QED
      BY <2>2, <2>3
  <1>3. /\ IsCompiledSource(source) => marker # 0 /\ spot # NoPlace /\ place.address = spot.address
                                       /\ place.line = locMap[marker].line
        /\ ~IsCompiledSource(source) => place = spot
        /\ spot # NoPlace
    BY DEF Target, NoPlace
  <1>4. from \in Nat
    BY <1>2, <1>3
  <1>5. config.program # "" /\ scenario.tasmap = "written" /\ tasMap = Map(program) /\ locMap = LocMapOf(program)
    <2>1. tasMap # TasMapOf({})
      BY <1>3, EmptyMap
    <2> QED
      BY <2>1 DEF MapsInv
  <1>6. /\ spot.address = SlotsBefore(program)[spot.line] /\ spot.line \in CodeLines(program)
        /\ spot.line >= from /\ \A k \in CodeLines(program) : k >= from => k >= spot.line
        /\ spot.address \in Slots(program)
    <2>1. spot = AddressForLine(Map(program), from)
      BY <1>5
    <2> HIDE DEF from, spot, program
    <2>2. \/ /\ spot = NoPlace
             /\ \A k \in CodeLines(program) : k < from
          \/ /\ spot = [address |-> SlotsBefore(program)[spot.line], line |-> spot.line]
             /\ spot.line \in CodeLines(program) /\ spot.line >= from
             /\ \A k \in CodeLines(program) : k >= from => k >= spot.line
             /\ spot.address \in Slots(program) /\ spot # NoPlace
      <3>1. program \in Seq(ProgramLine)
        BY DEF program
      <3> QED
        BY <2>1, <1>4, <3>1, AddressForLineIs
    <2>3. spot # NoPlace
      BY <1>3
    <2>4. \A a, l : [address |-> a, line |-> l].address = a
      OBVIOUS
    <2> QED
      BY <2>2, <2>3, <2>4
  <1> HIDE DEF spot
  <1>7. place.address = spot.address /\ (~IsCompiledSource(source) => place.line = spot.line)
    BY <1>3
  <1>8. place.line >= line /\ place.line \in Nat
    <2>1. CASE IsCompiledSource(source)
      BY <2>1, <1>2, <1>3
    <2>2. CASE ~IsCompiledSource(source)
      <3>1. spot.line \in Nat
        BY <1>6 DEF CodeLines
      <3> QED
        BY <2>2, <3>1, <1>6, <1>7
    <2> QED
      BY <2>1, <2>2
  <1>9. IsCompiledSource(source) =>
          /\ marker \in LocLines(program) /\ place.line = program[marker].line
          /\ SameFile(program[marker].file, source)
          /\ \A k \in LocLines(program) :
               SameFile(program[k].file, source) /\ program[k].line >= line => program[k].line >= place.line
    <2> HIDE DEF place, marker, program
    <2> QED
      BY <1>2, <1>3
  <1>10. \E c \in CodeLines(program) :
           /\ place.address = SlotsBefore(program)[c] /\ c >= from
           /\ \A k \in CodeLines(program) : k >= from => k >= c
           /\ ~IsCompiledSource(source) => place.line = c
    <2> HIDE DEF place, from, program
    <2> QED
      BY <1>6, <1>7
  <1> HIDE DEF place, marker, from, program
  <1>11. /\ config.program # "" /\ scenario.tasmap = "written" /\ tasMap = Map(program) /\ locMap = LocMapOf(program)
         /\ place.address \in Slots(program) /\ place.line >= line /\ place.line \in Nat
    BY <1>5, <1>6, <1>7, <1>8
  <1> QED
    BY <1>9, <1>10, <1>11 DEF place, marker, from, program

(* The inductive invariant: the parts above, together.                     *)
ViewInv == StartInv /\ MapsInv /\ BreakpointsInv /\ FrameInv

(* A request is a sequence of lines, counted from 1.                       *)
LEMMA RequestLines ==
  ASSUME NEW lines \in Requests
  PROVE  /\ lines \in Seq(Nat \ {0}) /\ DOMAIN lines = 1..Len(lines) /\ Len(lines) \in Nat
         /\ Len(lines) \in 0..Len(lines)
         /\ \A k \in DOMAIN lines : /\ lines[k] \in Nat /\ k \in 0..Len(lines) /\ Len(lines) \in k..Len(lines)
  <1> DEFINE n == Len(lines)
  <1>1. lines \in Seq(Nat \ {0})
    BY BoundsAssumption
  <1>2. DOMAIN lines = 1..n /\ n \in Nat /\ \A k \in DOMAIN lines : lines[k] \in Nat
    BY <1>1
  <1> HIDE DEF n
  <1>3. n \in 0..n /\ \A k \in 1..n : k \in 0..n /\ n \in k..n
    BY <1>2
  <1> QED
    BY <1>1, <1>2, <1>3 DEF n

(* The program of a session is a sequence of lines.                        *)
LEMMA ProgramIsLines == StartInv => scenario.program \in Seq(ProgramLine)
  BY ScenariosAssumption DEF StartInv

(* What the editor is answered for each line; a verified one has a place.  *)
LEMMA MarkIs ==
  ASSUME MapsInv, Halted, StartInv, NEW source, NEW lines \in Requests, NEW k \in DOMAIN lines
  PROVE  LET mark == Answers(source, lines)[k]
             place == Place(source, lines, k)
             set == ArmedAfter(source, lines)
         IN  /\ mark.asked = lines[k] /\ (mark.verified <=> place.address \in set[k])
             /\ mark.verified => mark.line = place.line /\ place # NoPlace
             /\ DOMAIN Answers(source, lines) = DOMAIN lines /\ Len(Answers(source, lines)) = Len(lines)
  <1> DEFINE mark == Answers(source, lines)[k]
             place == Place(source, lines, k)
             set == ArmedAfter(source, lines)
  <1>1. /\ DOMAIN Answers(source, lines) = DOMAIN lines
        /\ mark = IF place.address \in set[k] THEN Answer(lines[k], TRUE, place.line)
                  ELSE Answer(lines[k], FALSE, lines[k])
    BY DEF Answers, Place
  <1>2. \A x \in set[k] : x \in Nat
    <2> TAKE x \in set[k]
    <2>1. lines \in Seq(Nat \ {0}) /\ k \in 0..Len(lines)
      BY RequestLines
    <2>2. PICK j \in 1..k : Place(source, lines, j) # NoPlace /\ Place(source, lines, j).address = x
      BY <2>1, ArmedAfterBounds
    <2>3. j \in DOMAIN lines /\ lines[j] \in Nat
      BY RequestLines
    <2>4. Target(source, lines[j]).address \in Slots(scenario.program)
      BY <2>2, <2>3, ProgramIsLines, TargetIs DEF Place
    <2>5. Target(source, lines[j]).address = x
      BY <2>2 DEF Place
    <2> QED
      BY <2>4, <2>5 DEF Slots
  <1>3. place.address \in set[k] => place # NoPlace
    BY <1>2 DEF NoPlace
  <1>4. Len(Answers(source, lines)) = Len(lines)
    <2>1. DOMAIN Answers(source, lines) = 1..Len(lines) /\ Len(lines) \in Nat
      BY <1>1, RequestLines
    <2>2. Answers(source, lines) = [i \in 1..Len(lines) |-> Answers(source, lines)[i]]
      <3>1. DOMAIN lines = 1..Len(lines)
        BY RequestLines
      <3> QED
        BY <3>1 DEF Answers
    <2>3. Answers(source, lines) \in Seq({Answers(source, lines)[i] : i \in 1..Len(lines)})
      BY <2>1, <2>2
    <2> QED
      BY <2>1, <2>3
  <1> HIDE DEF place, set
  <1>5. mark.asked = lines[k] /\ (mark.verified <=> place.address \in set[k]) /\ (mark.verified => mark.line = place.line)
    <2> HIDE DEF mark
    <2>1. CASE place.address \in set[k]
      <3>1. mark = [asked |-> lines[k], verified |-> TRUE, line |-> place.line]
        BY <2>1, <1>1 DEF Answer, place, set
      <3> QED
        BY <3>1, <2>1
    <2>2. CASE place.address \notin set[k]
      <3>1. mark = [asked |-> lines[k], verified |-> FALSE, line |-> lines[k]]
        BY <2>2, <1>1 DEF Answer, place, set
      <3> QED
        BY <3>1, <2>2
    <2> QED
      BY <2>1, <2>2
  <1> QED
    BY <1>1, <1>3, <1>4, <1>5 DEF place, set

(* A source has been asked about only of a target that was launched.       *)
LEMMA AskedIsHalted == BreakpointsInv /\ asked # "" => Halted /\ asked \in Sources
  BY DEF BreakpointsInv

(* The triggers are the verified marks of the source asked about last:     *)
(* each of them was armed by its line or by an earlier one at the same     *)
(* slot, and each trigger by a line whose mark is verified.                *)
LEMMA ViewInvTriggers == ViewInv => TriggersAreTheMarks
  <1> SUFFICES ASSUME ViewInv, asked # "" PROVE
        LET at == {Target(asked, mark.asked).address : mark \in Verified(asked)}
        IN  stub = at /\ armed = at /\ Cardinality(at) <= Triggers
    BY DEF TriggersAreTheMarks
  <1> DEFINE at == {Target(asked, mark.asked).address : mark \in Verified(asked)}
  <1>1. Halted /\ asked \in Sources /\ StartInv /\ MapsInv /\ stub = armed
    BY AskedIsHalted DEF ViewInv, BreakpointsInv
  <1>2. PICK lines \in Requests : marks[asked] = Answers(asked, lines)
                                  /\ armed = ArmedAfter(asked, lines)[Len(lines)]
    BY <1>1 DEF ViewInv, BreakpointsInv
  <1> DEFINE set == ArmedAfter(asked, lines)
             place(k) == Place(asked, lines, k)
  <1>3. lines \in Seq(Nat \ {0}) /\ DOMAIN lines = 1..Len(lines) /\ Len(lines) \in Nat
    BY RequestLines
  <1>4. \A k \in DOMAIN lines : /\ marks[asked][k].asked = lines[k]
                                /\ (marks[asked][k].verified <=> place(k).address \in set[k])
                                /\ DOMAIN marks[asked] = DOMAIN lines
    <2> TAKE k \in DOMAIN lines
    <2> DEFINE mark == Answers(asked, lines)[k]
    <2>1. /\ mark.asked = lines[k]
          /\ (mark.verified <=> Place(asked, lines, k).address \in ArmedAfter(asked, lines)[k])
          /\ DOMAIN Answers(asked, lines) = DOMAIN lines
      BY <1>1, MarkIs
    <2> HIDE DEF mark
    <2> QED
      BY <1>2, <2>1 DEF mark
  <1>5. DOMAIN marks[asked] = DOMAIN lines
    BY <1>2 DEF Answers
  <1>6. ASSUME NEW mark \in Verified(asked) PROVE Target(asked, mark.asked).address \in armed
    <2>1. PICK k \in DOMAIN lines : mark = marks[asked][k] /\ marks[asked][k].verified
      BY <1>5 DEF Verified
    <2>2. Target(asked, mark.asked).address = place(k).address /\ place(k).address \in set[k]
      BY <2>1, <1>4 DEF Place
    <2>3. set[k] \subseteq set[Len(lines)]
      <3>1. k \in 0..Len(lines) /\ Len(lines) \in k..Len(lines)
        BY RequestLines
      <3> QED
        BY <3>1, <1>3, ArmedAfterGrows
    <2> QED
      BY <2>2, <2>3, <1>2
  <1>7. ASSUME NEW x \in armed PROVE x \in at
    <2>1. PICK j \in 1..Len(lines) : place(j).address = x /\ x \in set[j]
      <3>1. Len(lines) \in 0..Len(lines)
        BY RequestLines
      <3>2. \A y \in ArmedAfter(asked, lines)[Len(lines)] : \E j \in 1..Len(lines) :
              Place(asked, lines, j).address = y /\ y \in ArmedAfter(asked, lines)[j]
        BY <3>1, <1>3, ArmedAfterBounds
      <3> QED
        BY <3>2, <1>2
    <2>2. marks[asked][j].verified /\ marks[asked][j].asked = lines[j]
      BY <2>1, <1>3, <1>4
    <2>3. marks[asked][j] \in Verified(asked)
      BY <2>2, <1>3, <1>5 DEF Verified
    <2>4. Target(asked, marks[asked][j].asked).address = x
      BY <2>1, <2>2 DEF Place
    <2> QED
      BY <2>3, <2>4
  <1>8. armed = at
    BY <1>6, <1>7
  <1>9. Cardinality(armed) <= Triggers
    <2>1. Len(lines) \in 0..Len(lines)
      BY RequestLines
    <2>2. Cardinality(ArmedAfter(asked, lines)[Len(lines)]) <= Triggers
      BY <2>1, <1>3, ArmedAfterBounds
    <2> QED
      BY <2>2, <1>2
  <1> QED
    BY <1>1, <1>8, <1>9

(* A verified mark is at the first place from its line on, and one that is *)
(* refused has no place, no map or no trigger.                             *)
LEMMA ViewInvSlides == ViewInv => SlidesToNextCode
  <1> SUFFICES ASSUME ViewInv, NEW s \in Sources, NEW k \in DOMAIN marks[s]
               PROVE LET mark == marks[s][k]
        length == Len(scenario.program)
        markersAt(low, high) == {j \in DOMAIN scenario.program :
          /\ scenario.program[j].kind = "loc" /\ SameFile(scenario.program[j].file, s)
          /\ scenario.program[j].line >= low /\ scenario.program[j].line < high}
    IN  /\ mark.verified => mark.line >= mark.asked
        /\ (IsProgram(s) /\ mark.verified) =>
             scenario.program[mark.line].kind = "code" /\ ~CodeBetween(mark.asked, mark.line - 1)
        /\ (~IsProgram(s) /\ IsMarked(s) /\ config.program # "" /\ mark.verified) =>
             markersAt(mark.asked, mark.line) = {} /\ markersAt(mark.line, mark.line + 1) # {}
        /\ (IsProgram(s) /\ ~mark.verified /\ CodeBetween(mark.asked, length)) =>
             scenario.tasmap = "absent" \/ Len(marks[s]) > Triggers
    BY DEF SlidesToNextCode
  <1> DEFINE mark == marks[s][k]
             program == scenario.program
             length == Len(program)
             markersAt(low, high) == {j \in DOMAIN program :
               /\ program[j].kind = "loc" /\ SameFile(program[j].file, s)
               /\ program[j].line >= low /\ program[j].line < high}
  <1>0. DOMAIN <<>> = {}
    OBVIOUS
  <1>1. PICK lines \in Requests : marks[s] = Answers(s, lines)
    BY <1>0 DEF ViewInv, BreakpointsInv
  <1>2. DOMAIN marks[s] = DOMAIN lines /\ k \in DOMAIN lines
    BY <1>1 DEF Answers
  <1>3. StartInv /\ MapsInv /\ Halted /\ program \in Seq(ProgramLine)
    <2>1. marks # [r \in Sources |-> <<>>]
      BY <1>0
    <2> QED
      BY <2>1, ProgramIsLines DEF ViewInv, BreakpointsInv
  <1> DEFINE place == Place(s, lines, k)
             line == lines[k]
             set == ArmedAfter(s, lines)
  <1>4. /\ mark.asked = line /\ (mark.verified <=> place.address \in set[k])
        /\ mark.verified => mark.line = place.line /\ place # NoPlace
        /\ Len(marks[s]) = Len(lines)
    BY <1>1, <1>2, <1>3, MarkIs
  <1>5. line \in Nat /\ lines \in Seq(Nat \ {0}) /\ k \in 1..Len(lines) /\ Len(lines) \in Nat /\ line # 0
    BY <1>2, RequestLines
  <1>6. place = Target(s, line)
    BY DEF Place
  <1> DEFINE marker == TasLineForSourceLine(locMap, s, line)
  <1>7. mark.verified =>
          /\ config.program # "" /\ mark.line = place.line /\ place.line >= line /\ place.line \in Nat
          /\ ~IsCompiledSource(s) =>
               place.line \in CodeLines(program) /\ \A c \in CodeLines(program) : c >= line => c >= place.line
          /\ IsCompiledSource(s) =>
               /\ marker \in LocLines(program) /\ place.line = program[marker].line
               /\ SameFile(program[marker].file, s)
               /\ \A j \in LocLines(program) :
                    SameFile(program[j].file, s) /\ program[j].line >= line => program[j].line >= place.line
    <2> HIDE DEF place, program, line, mark, set
    <2> SUFFICES ASSUME mark.verified
                 PROVE  /\ config.program # "" /\ mark.line = place.line /\ place.line >= line /\ place.line \in Nat
                        /\ ~IsCompiledSource(s) =>
                             place.line \in CodeLines(program) /\ \A c \in CodeLines(program) : c >= line => c >= place.line
                        /\ IsCompiledSource(s) =>
                             /\ marker \in LocLines(program) /\ place.line = program[marker].line
                             /\ SameFile(program[marker].file, s)
                             /\ \A j \in LocLines(program) :
                                  SameFile(program[j].file, s) /\ program[j].line >= line => program[j].line >= place.line
      OBVIOUS
    <2>1. Target(s, line) # NoPlace /\ mark.line = place.line
      BY <1>4, <1>6
    <2>2. scenario.program \in Seq(ProgramLine) /\ MapsInv /\ Halted
      BY <1>3 DEF program
    <2> QED
      BY <2>1, <2>2, <1>5, <1>6, TargetIs DEF program
  <1>8. mark.verified => mark.line >= mark.asked
    BY <1>4, <1>7
  <1>9. IsProgram(s) => ~IsCompiledSource(s)
    BY DEF IsProgram, IsCompiledSource
  <1>10. IsProgram(s) /\ mark.verified =>
           program[mark.line].kind = "code" /\ ~CodeBetween(mark.asked, mark.line - 1)
    <2> SUFFICES ASSUME IsProgram(s), mark.verified
                 PROVE  program[mark.line].kind = "code" /\ ~CodeBetween(mark.asked, mark.line - 1)
      OBVIOUS
    <2> DEFINE here == mark.line
    <2>1. /\ here \in CodeLines(program) /\ \A c \in CodeLines(program) : c >= line => c >= here
          /\ mark.asked = line /\ here \in Nat
      BY <1>4, <1>7, <1>9
    <2>2. program[here].kind = "code" /\ here <= Len(program) /\ Len(program) \in Nat
      BY <2>1, <1>3 DEF CodeLines
    <2> HIDE DEF here
    <2>3. ASSUME NEW c \in line..here - 1, program[c].kind = "code" PROVE FALSE
      <3>1. c \in DOMAIN program
        BY <2>1, <2>2, <1>3, <1>5
      <3>2. c \in CodeLines(program)
        BY <3>1, <2>3 DEF CodeLines
      <3> QED
        BY <3>2, <2>1, <1>5
    <2>4. ~CodeBetween(line, here - 1)
      BY <2>3 DEF CodeBetween
    <2> QED
      BY <2>1, <2>2, <2>4 DEF here
  <1>11. ~IsProgram(s) /\ IsMarked(s) /\ config.program # "" /\ mark.verified =>
           markersAt(mark.asked, mark.line) = {} /\ markersAt(mark.line, mark.line + 1) # {}
    <2>a. SUFFICES ASSUME ~IsProgram(s), IsMarked(s), config.program # "", mark.verified
                   PROVE  markersAt(mark.asked, mark.line) = {} /\ markersAt(mark.line, mark.line + 1) # {}
      OBVIOUS
    <2>0. IsCompiledSource(s) /\ mark.verified
      BY <2>a, <1>3, CompiledIs
    <2> DEFINE here == mark.line
    <2>1. /\ marker \in LocLines(program) /\ here = program[marker].line /\ here \in Nat
          /\ SameFile(program[marker].file, s) /\ mark.asked = line
          /\ \A j \in LocLines(program) :
               SameFile(program[j].file, s) /\ program[j].line >= line => program[j].line >= here
      BY <2>0, <1>4, <1>7
    <2> HIDE DEF here, marker
    <2>2. markersAt(line, here) = {}
      <3> SUFFICES ASSUME NEW j \in markersAt(line, here) PROVE FALSE
        OBVIOUS
      <3>1. j \in LocLines(program)
        BY DEF LocLines
      <3>2. program[j].line \in Nat
        BY <3>1, <1>3, LocMapIs
      <3>3. SameFile(program[j].file, s) /\ program[j].line >= line /\ program[j].line < here
        OBVIOUS
      <3>4. program[j].line >= here
        BY <3>1, <3>3, <2>1
      <3>5. here \in Nat
        BY <2>1
      <3> HIDE DEF program
      <3> QED
        BY <3>2, <3>3, <3>4, <3>5
    <2>3. marker \in markersAt(here, here + 1)
      <3>0. here \in Nat
        BY <2>1
      <3>1. here >= here /\ here < here + 1
        BY <3>0
      <3>2. marker \in DOMAIN program /\ program[marker].kind = "loc" /\ program[marker].line = here
            /\ SameFile(program[marker].file, s)
        BY <2>1 DEF LocLines
      <3> HIDE DEF program
      <3> QED
        BY <3>1, <3>2
    <2> QED
      BY <2>1, <2>2, <2>3 DEF here
  <1>12. IsProgram(s) /\ ~mark.verified /\ CodeBetween(mark.asked, length) =>
           scenario.tasmap = "absent" \/ Len(marks[s]) > Triggers
    <2> SUFFICES ASSUME IsProgram(s), ~mark.verified, CodeBetween(mark.asked, length), scenario.tasmap # "absent"
                 PROVE  Len(marks[s]) > Triggers
      OBVIOUS
    <2>1. tasMap = Map(program)
      <3>1. config.program # "" /\ scenario.tasmap # "malformed"
        BY <1>3 DEF MapsInv, IsProgram
      <3>2. scenario.tasmap = "written"
        BY <3>1, <1>3, ScenariosAssumption DEF StartInv
      <3> QED
        BY <3>1, <3>2, <1>3 DEF MapsInv
    <2>2. PICK c \in line..length : program[c].kind = "code"
      BY <1>4 DEF CodeBetween
    <2>3. c \in CodeLines(program) /\ c >= line
      <3>1. c \in 1..length /\ length \in Nat /\ DOMAIN program = 1..length
        BY <1>3, <1>5
      <3> QED
        BY <3>1, <2>2 DEF CodeLines
    <2>4. place # NoPlace
      <3>1. place = AddressForLine(Map(program), line)
        BY <2>1, <1>6, <1>9 DEF Target
      <3> HIDE DEF place, line, program
      <3>2. AddressForLine(Map(program), line) # NoPlace
        <4>1. CASE \A j \in CodeLines(program) : j < line
          <5>1. c < line
            BY <4>1, <2>3
          <5> QED
            BY <5>1, <2>3, <1>5
        <4>2. CASE ~ \A j \in CodeLines(program) : j < line
          BY <4>2, <1>3, <1>5, AddressForLineIs
        <4> QED
          BY <4>1, <4>2
      <3> QED
        BY <3>1, <3>2
    <2>5. place.address \notin set[k]
      BY <1>4
    <2>6. Cardinality(set[k - 1]) = Triggers
      <3>1. \A j \in DOMAIN lines :
              set[j] = IF \/ Place(s, lines, j) = NoPlace
                          \/ Place(s, lines, j).address \notin set[j - 1] /\ Cardinality(set[j - 1]) = Triggers
                       THEN set[j - 1] ELSE set[j - 1] \cup {Place(s, lines, j).address}
        BY <1>5, ArmedAfterIs
      <3> HIDE DEF set
      <3>2. set[k] = IF place = NoPlace \/ (place.address \notin set[k - 1] /\ Cardinality(set[k - 1]) = Triggers)
                     THEN set[k - 1] ELSE set[k - 1] \cup {place.address}
        BY <3>1, <1>2
      <3> HIDE DEF place
      <3> QED
        BY <3>2, <2>4, <2>5
    <2>7. Cardinality(set[k - 1]) <= k - 1
      <3>1. k - 1 \in 0..Len(lines) /\ lines \in Seq(Nat \ {0})
        BY <1>5
      <3> DEFINE n == k - 1
      <3>2. n \in 0..Len(lines)
        BY <3>1
      <3> HIDE DEF n
      <3>3. Cardinality(ArmedAfter(s, lines)[n]) <= n
        BY <3>1, <3>2, ArmedAfterBounds
      <3> QED
        BY <3>3 DEF n
    <2>8. Triggers <= k - 1 /\ k <= Len(lines) /\ Triggers \in Nat
      BY <2>6, <2>7, <1>5, BoundsAssumption
    <2> QED
      BY <2>8, <1>4, <1>5
  <1> QED
    BY <1>8, <1>10, <1>11, <1>12

(* The marker that governs a line of the program is the last one up to it. *)
LEMMA LocForTasLineIs ==
  ASSUME NEW program \in Seq(ProgramLine), NEW line \in Nat
  PROVE  LET loc == LocForTasLine(LocMapOf(program), line)
         IN  \/ loc = NoLoc
             \/ \E m \in LocLines(program) :
                  /\ m <= line /\ \A k \in LocLines(program) : k <= line => k <= m
                  /\ loc = LocMapOf(program)[m] /\ loc # NoLoc
  <1> DEFINE loc == LocForTasLine(LocMapOf(program), line)
             above == {k \in LocLines(program) : k <= line}
  <1>1. loc = IF above = {} THEN NoLoc ELSE LocMapOf(program)[Max(above)]
    <2>1. DOMAIN LocMapOf(program) = LocLines(program)
      BY LocMapIs
    <2> QED
      BY <2>1 DEF LocForTasLine
  <1>2. CASE above # {}
    <2>1. above \in SUBSET Int /\ \A k \in above : k <= line
      BY LocMapIs
    <2>2. Max(above) \in above /\ \A k \in above : k <= Max(above)
      <3>1. line \in Int
        OBVIOUS
      <3> HIDE DEF above
      <3> QED
        BY <1>2, <2>1, <3>1, MaxIs
    <2> DEFINE m == Max(above)
    <2>3. m \in LocLines(program) /\ m <= line /\ \A k \in LocLines(program) : k <= line => k <= m
      BY <2>2
    <2>4. loc = LocMapOf(program)[m]
      BY <1>1, <1>2
    <2> HIDE DEF m, loc
    <2>5. loc.file # "" /\ NoLoc.file = ""
      BY <2>3, <2>4, LocMapIs, PathsAssumption DEF NoLoc
    <2> QED
      BY <2>3, <2>4, <2>5 DEF loc
  <1> QED
    BY <1>1, <1>2

(* A stop at a trigger is shown at the mark that set it: the slot goes     *)
(* back to the code line it is the first slot of, and that line to the     *)
(* marker the breakpoint went to, if no other marker comes between them.   *)
LEMMA ViewInvStops == ViewInv => StopsAtItsMark
  <1> DEFINE program == scenario.program
             shownIn(source) == frame.source # "" /\ SameFile(frame.source, source)
             ownProgram == IsProgram(asked) /\ ~IsMarked(asked)
             compiled == /\ ~IsProgram(asked) /\ IsMarked(asked)
                         /\ \A k \in DOMAIN locMap : HasOwnCode(k) /\ locMap[k].file \in scenario.present
             atMark == \E mark \in Verified(asked) : mark.line = frame.line
  <1>a. SUFFICES ASSUME ViewInv, frame # NoFrame, slot \in stub
                 PROVE  /\ ownProgram => (shownIn(asked) => atMark)
                        /\ compiled => shownIn(asked) /\ atMark
    <2> HIDE DEF atMark
    <2>1. ~(ownProgram /\ compiled)
      OBVIOUS
    <2> QED
      BY <2>1 DEF StopsAtItsMark, atMark
  <1>1. /\ Halted /\ asked \in Sources /\ StartInv /\ MapsInv /\ slot \in armed
        /\ frame = FrameAt(slot) /\ program \in Seq(ProgramLine)
    <2>1. stub = armed /\ slot \in armed /\ asked # "" /\ StartInv /\ MapsInv /\ BreakpointsInv /\ frame = FrameAt(slot)
      BY <1>a DEF ViewInv, BreakpointsInv, FrameInv
    <2> QED
      BY <2>1, AskedIsHalted, ProgramIsLines
  <1>2. PICK lines \in Requests : marks[asked] = Answers(asked, lines)
                                  /\ armed = ArmedAfter(asked, lines)[Len(lines)]
    <2>1. BreakpointsInv
      BY <1>a DEF ViewInv
    <2> QED
      BY <1>1, <2>1 DEF BreakpointsInv
  <1> DEFINE set == ArmedAfter(asked, lines)
             place(k) == Place(asked, lines, k)
  \* The verified mark of the trigger.
  <1>3. PICK j \in DOMAIN lines : place(j) # NoPlace /\ place(j).address = slot /\ slot \in set[j]
    <2>1. Len(lines) \in 0..Len(lines) /\ DOMAIN lines = 1..Len(lines) /\ lines \in Seq(Nat \ {0})
      BY RequestLines
    <2>2. \A x \in ArmedAfter(asked, lines)[Len(lines)] : \E k \in 1..Len(lines) :
            /\ Place(asked, lines, k) # NoPlace
            /\ Place(asked, lines, k).address = x /\ x \in ArmedAfter(asked, lines)[k]
      BY <2>1, ArmedAfterBounds
    <2>3. slot \in ArmedAfter(asked, lines)[Len(lines)]
      BY <1>1, <1>2
    <2> QED
      BY <2>1, <2>2, <2>3
  <1> DEFINE mark == marks[asked][j]
  <1>4. mark \in Verified(asked) /\ mark.line = place(j).line
    <2>1. /\ Answers(asked, lines)[j].verified
          /\ Answers(asked, lines)[j].line = Place(asked, lines, j).line
          /\ DOMAIN Answers(asked, lines) = DOMAIN lines
      BY <1>1, <1>3, MarkIs
    <2> QED
      BY <1>2, <2>1 DEF Verified
  <1> DEFINE line == lines[j]
             marker == TasLineForSourceLine(locMap, asked, line)
             from == IF IsCompiledSource(asked) THEN marker ELSE line
  <1> DEFINE isSet == config.program # ""
  <1>5. /\ isSet /\ tasMap = Map(program) /\ locMap = LocMapOf(program)
        /\ \E c \in CodeLines(program) :
             /\ place(j).address = SlotsBefore(program)[c] /\ c >= from
             /\ \A k \in CodeLines(program) : k >= from => k >= c
             /\ ~IsCompiledSource(asked) => place(j).line = c
        /\ IsCompiledSource(asked) =>
             /\ marker \in LocLines(program) /\ place(j).line = program[marker].line
             /\ SameFile(program[marker].file, asked)
    <2>1. line \in Nat /\ place(j) = Target(asked, line)
      BY RequestLines DEF Place
    <2>2. scenario.program \in Seq(ProgramLine)
      BY <1>1
    <2> HIDE DEF line, place
    <2> QED
      BY <1>1, <1>3, <2>1, <2>2, TargetIs
  <1> HIDE DEF isSet
  <1>6. PICK c \in CodeLines(program) :
             /\ place(j).address = SlotsBefore(program)[c] /\ c >= from
             /\ \A k \in CodeLines(program) : k >= from => k >= c
             /\ ~IsCompiledSource(asked) => place(j).line = c
    BY <1>5
  <1>7. LineForAddress(tasMap, slot) = c /\ c \in Nat /\ c # 0 /\ c <= Len(program)
    <2>1. LineForAddress(Map(program), SlotsBefore(program)[c]) = c
      BY <1>1, LineForAddressIs
    <2>2. c \in Nat /\ c # 0 /\ c <= Len(program)
      BY <1>1 DEF CodeLines
    <2> QED
      BY <1>3, <1>5, <1>6, <2>1, <2>2
  <1> DEFINE loc == LocForTasLine(locMap, c)
  <1>8. frame = IF loc # NoLoc /\ loc.file \in scenario.present
                THEN [source |-> loc.file, line |-> loc.line]
                ELSE [source |-> config.program, line |-> c]
    BY <1>1, <1>5, <1>7 DEF FrameAt, isSet
  <1>9. \/ loc = NoLoc
        \/ \E m \in LocLines(program) :
             /\ m <= c /\ \A k \in LocLines(program) : k <= c => k <= m
             /\ loc = LocMapOf(program)[m] /\ loc # NoLoc
    <2>1. program \in Seq(ProgramLine) /\ c \in Nat /\ loc = LocForTasLine(LocMapOf(program), c)
      BY <1>1, <1>5, <1>7
    <2> HIDE DEF loc, program
    <2> QED
      BY <2>1, LocForTasLineIs
  <1>10. ASSUME ownProgram, shownIn(asked) PROVE atMark
    <2>1. ~IsCompiledSource(asked)
      BY <1>10 DEF IsProgram, IsCompiledSource
    <2>2. place(j).line = c
      BY <2>1, <1>6
    <2>3. frame = [source |-> config.program, line |-> c]
      <3>1. CASE loc # NoLoc /\ loc.file \in scenario.present
        <4>1. PICK m \in LocLines(program) : loc = LocMapOf(program)[m]
          BY <1>9, <3>1
        <4>2. loc.file = program[m].file /\ m \in DOMAIN program /\ program[m].kind = "loc"
          BY <4>1, <1>1, LocMapIs DEF LocLines
        <4>3. frame.source = loc.file
          BY <1>8, <3>1
        <4>4. SameFile(program[m].file, asked)
          BY <4>2, <4>3, <1>10
        <4>5. IsMarked(asked)
          BY <4>2, <4>4 DEF IsMarked
        <4> QED
          BY <4>5, <1>10
      <3> QED
        BY <3>1, <1>8
    <2>4. frame.line = c
      BY <2>3
    <2> QED
      BY <2>2, <2>4, <1>4
  <1>11. ASSUME compiled PROVE shownIn(asked) /\ atMark
    <2>1. IsCompiledSource(asked)
      BY <1>1, <1>5, <1>11, CompiledIs DEF isSet
    <2>2. marker \in LocLines(program) /\ place(j).line = program[marker].line
          /\ SameFile(program[marker].file, asked) /\ from = marker
      BY <1>5, <2>1
    <2> HIDE DEF marker, from
    <2>3. marker \in Nat /\ DOMAIN locMap = LocLines(program)
          /\ locMap[marker].file = program[marker].file /\ locMap[marker].line = program[marker].line
          /\ program[marker].file \in DOMAIN FullPath
      BY <1>1, <1>5, <2>2, LocMapIs
    <2>4. HasOwnCode(marker) /\ locMap[marker].file \in scenario.present
      BY <2>2, <2>3, <1>11
    <2>5. ASSUME NEW k \in LocLines(program), k <= c PROVE k <= marker
      <3>1. PICK i \in marker + 1..Len(program) :
              program[i].kind = "code" /\ \A n \in marker + 1..i : program[n].kind # "loc"
        BY <2>4 DEF HasOwnCode
      <3>2. Len(program) \in Nat /\ DOMAIN program = 1..Len(program)
        BY <1>1
      <3>3. i \in Nat /\ i \in CodeLines(program) /\ i >= marker /\ i \in marker + 1..Len(program)
        <4>1. i \in 1..Len(program) /\ i >= marker
          BY <2>3, <3>2
        <4> QED
          BY <4>1, <3>1, <3>2 DEF CodeLines
      <3>4. i >= c
        BY <3>3, <2>2, <1>6
      <3>5. k \in Nat /\ program[k].kind = "loc"
        BY <3>2 DEF LocLines
      <3>6. ~(k \in marker + 1..i)
        BY <3>1, <3>5
      <3>7. k <= i
        BY <3>3, <3>4, <3>5, <2>5, <1>7
      <3> QED
        BY <3>3, <3>5, <3>6, <3>7, <2>3
    <2>6. marker <= c
      BY <1>6, <2>2, <2>3, <1>7
    <2>7. loc = LocMapOf(program)[marker] /\ loc # NoLoc
      <3>1. loc # NoLoc
        <4>1. {k \in DOMAIN locMap : k <= c} # {}
          BY <2>2, <2>3, <2>6
        <4>2. Max({k \in DOMAIN locMap : k <= c}) \in DOMAIN locMap
          <5> DEFINE above == {k \in DOMAIN locMap : k <= c}
          <5>1. above \in SUBSET Int /\ above # {} /\ \A k \in above : k <= c
            BY <4>1, <1>1, <2>3, LocMapIs
          <5> HIDE DEF above
          <5>2. Max(above) \in above
            BY <5>1, <1>7, MaxIs
          <5> QED
            BY <5>2 DEF above
        <4>3. loc = locMap[Max({k \in DOMAIN locMap : k <= c})]
          BY <4>1 DEF LocForTasLine
        <4>4. loc.file # "" /\ NoLoc.file = ""
          <5>1. loc.file \in DOMAIN FullPath
            BY <4>2, <4>3, <2>3, <1>1, <1>5, LocMapIs
          <5> QED
            BY <5>1, PathsAssumption DEF NoLoc
        <4> QED
          BY <4>4
      <3>2. PICK m \in LocLines(program) :
              /\ m <= c /\ \A k \in LocLines(program) : k <= c => k <= m
              /\ loc = LocMapOf(program)[m]
        BY <3>1, <1>9
      <3>3. m <= marker /\ marker <= m /\ m \in Nat
        BY <3>2, <2>2, <2>5, <2>6, <1>1, LocMapIs
      <3>4. m = marker
        BY <3>3, <2>3
      <3> QED
        BY <3>1, <3>2, <3>4
    <2>8. loc.file = program[marker].file /\ loc.line = program[marker].line
      BY <2>7, <2>3, <1>5
    <2>9. loc.file \in scenario.present
      BY <2>8, <2>3, <2>4
    <2>10. frame = [source |-> loc.file, line |-> loc.line]
      BY <2>7, <2>9, <1>8
    <2>11. frame.source = program[marker].file /\ frame.line = program[marker].line
      BY <2>8, <2>10
    <2>12. shownIn(asked)
      BY <2>2, <2>3, <2>11, PathsAssumption
    <2>13. mark.line = frame.line
      BY <2>2, <2>11, <1>4
    <2> QED
      BY <2>12, <2>13, <1>4
  <1> QED
    BY <1>10, <1>11

(* Every slot is shown in a line.                                          *)
LEMMA LineForAddressIsOne ==
  ASSUME NEW program \in Seq(ProgramLine), NEW address \in Nat
  PROVE  LineForAddress(Map(program), address) \in Nat
  <1> DEFINE lines == Map(program).lineByAddress
             below == {a \in DOMAIN lines : a <= address}
  <1>1. ASSUME NEW a \in DOMAIN lines PROVE a \in Int /\ lines[a] \in Nat
    <2>1. DOMAIN lines = {r.address : r \in Rows(program)} /\ lines[a] = (CHOOSE r \in Rows(program) : r.address = a).line
      BY DEF Map, TasMapOf
    <2>2. \E r \in Rows(program) : r.address = a
      BY <2>1
    <2> DEFINE s == CHOOSE r \in Rows(program) : r.address = a
    <2>3. s \in Rows(program) /\ s.address = a
      BY <2>2
    <2>4. lines[a] = s.line
      BY <2>1
    <2> HIDE DEF s, lines
    <2>5. PICK k \in CodeLines(program) : s = [address |-> s.address, line |-> k] /\ s.address \in Slots(program)
      BY <2>3, RowsAre
    <2>6. s.line = k
      BY <2>5
    <2>7. k \in Nat /\ a \in Int
      BY <2>3, <2>5 DEF CodeLines, Slots
    <2> QED
      BY <2>4, <2>6, <2>7
  <1>2. CASE below # {}
    <2>1. below \in SUBSET Int /\ \A a \in below : a <= address
      BY <1>1
    <2>2. address \in Int
      OBVIOUS
    <2>3. Max(below) \in below
      <3> HIDE DEF below
      <3> QED
        BY <1>2, <2>1, <2>2, MaxIs
    <2>4. lines[Max(below)] \in Nat
      BY <1>1, <2>3
    <2> QED
      BY <1>2, <2>4 DEF LineForAddress
  <1>3. CASE below = {}
    BY <1>3 DEF LineForAddress
  <1> QED
    BY <1>2, <1>3

(* The session is then well formed.                                        *)
LEMMA ViewInvTypeOK == ViewInv => TypeOK
  <1>a. SUFFICES ASSUME ViewInv PROVE TypeOK
    OBVIOUS
  <1>1. StartInv /\ MapsInv /\ BreakpointsInv /\ FrameInv /\ scenario.program \in Seq(ProgramLine)
    BY <1>a, ProgramIsLines DEF ViewInv
  <1>2. /\ scenario \in Scenarios
        /\ phase \in {"editing", "resolved", "described", "configuring", "debugging", "failed", "refused"}
    BY <1>1 DEF StartInv, Resolved
  <1>3. DOMAIN locMap \subseteq DOMAIN scenario.program
    <2>1. CASE locMap = LocMapOf(scenario.program)
      BY <2>1 DEF LocMapOf
    <2>2. CASE locMap = LocMapOf(<<>>)
      BY <2>2 DEF LocMapOf
    <2> QED
      BY <1>1, <2>1, <2>2 DEF MapsInv
  <1>4. armed \subseteq Slots(scenario.program) /\ stub = armed
    <2> SUFFICES ASSUME NEW x \in armed PROVE x \in Slots(scenario.program)
      BY <1>1 DEF BreakpointsInv
    <2>1. Halted /\ asked \in Sources
      BY <1>1 DEF BreakpointsInv
    <2>2. PICK lines \in Requests : armed = ArmedAfter(asked, lines)[Len(lines)]
      BY <1>1, <2>1 DEF BreakpointsInv
    <2>3. Len(lines) \in 0..Len(lines) /\ lines \in Seq(Nat \ {0}) /\ DOMAIN lines = 1..Len(lines)
          /\ \A k \in DOMAIN lines : lines[k] \in Nat
      BY RequestLines
    <2>4. \A y \in ArmedAfter(asked, lines)[Len(lines)] : \E j \in 1..Len(lines) :
            /\ Place(asked, lines, j) # NoPlace
            /\ Place(asked, lines, j).address = y
      <3>1. PICK n \in 0..Len(lines) : n = Len(lines)
        BY <2>3
      <3>2. \A y \in ArmedAfter(asked, lines)[n] : \E j \in 1..n :
              /\ Place(asked, lines, j) # NoPlace
              /\ Place(asked, lines, j).address = y /\ y \in ArmedAfter(asked, lines)[j]
        BY <2>3, ArmedAfterBounds
      <3> QED
        BY <3>1, <3>2
    <2>5. PICK j \in DOMAIN lines : Place(asked, lines, j) # NoPlace /\ Place(asked, lines, j).address = x
      BY <2>2, <2>3, <2>4
    <2> DEFINE line == lines[j]
    <2>6. line \in Nat /\ Target(asked, line) # NoPlace /\ Target(asked, line).address = x
      BY <2>3, <2>5 DEF Place
    <2> HIDE DEF line
    <2>7. Target(asked, line).address \in Slots(scenario.program)
      BY <1>1, <2>1, <2>6, TargetIs
    <2> QED
      BY <2>6, <2>7
  <1>5. DOMAIN marks = Sources /\ asked \in Sources \cup {""} /\ requests \in 0..MaxRequests
    BY <1>1 DEF BreakpointsInv
  <1>6. frame.source \in DOMAIN FullPath \cup {""} /\ frame.line >= -1
    <2>1. CASE frame = NoFrame
      <3>1. frame.source = "" /\ frame.line = -1
        BY <2>1 DEF NoFrame
      <3>2. -1 >= -1
        OBVIOUS
      <3> QED
        BY <3>1, <3>2
    <2>2. CASE frame # NoFrame
      <3>1. phase = "debugging" /\ frame = FrameAt(slot) /\ slot \in Nat
        BY <1>1, <2>2 DEF FrameInv
      <3>2. config.program \in DOMAIN FullPath \cup {""}
        <4>1. config = Meant
          BY <1>1, <3>1 DEF StartInv, Resolved
        <4>2. /\ scenario.editor \in DOMAIN FullPath \cup {""}
              /\ scenario.config \in [type : STRING, request : {"", "launch", "attach"}, name : STRING,
                     program : DOMAIN FullPath \cup {""}, simulator : STRING, stopOnEntry : BOOLEAN]
          BY <1>2, ScenariosAssumption
        <4> QED
          BY <4>1, <4>2 DEF Meant, WithSimulator, FromEditor
      <3> DEFINE line == LineForAddress(tasMap, slot)
                 loc == LocForTasLine(locMap, line)
      <3>3. CASE frame = Nowhere
        <4>1. frame.source = "" /\ frame.line = 0
          BY <3>3 DEF Nowhere
        <4>2. 0 >= -1
          OBVIOUS
        <4> QED
          BY <4>1, <4>2
      <3>4. CASE frame = [source |-> config.program, line |-> line] /\ config.program # ""
        <4>1. line \in Nat
          <5>1. tasMap = Map(scenario.program) \/ tasMap = TasMapOf({})
            BY <1>1 DEF MapsInv
          <5>2. CASE tasMap = TasMapOf({})
            BY <5>2 DEF LineForAddress, TasMapOf
          <5> QED
            BY <5>1, <5>2, <1>1, <3>1, LineForAddressIsOne
        <4> HIDE DEF line
        <4>2. frame.line = line /\ frame.source = config.program
          BY <3>4
        <4>3. frame.line >= -1
          BY <4>1, <4>2
        <4> QED
          BY <3>2, <4>2, <4>3
      <3>5. CASE /\ frame = [source |-> loc.file, line |-> loc.line] /\ loc # NoLoc
                 /\ config.program # "" /\ line # 0
        <4>1. locMap = LocMapOf(scenario.program)
          BY <1>1, <3>1, <3>5 DEF MapsInv, Halted
        <4>2. \E m \in LocLines(scenario.program) : loc = locMap[m]
          <5>1. line \in Nat
            <6>1. tasMap = Map(scenario.program) \/ tasMap = TasMapOf({})
              BY <1>1 DEF MapsInv
            <6>2. CASE tasMap = TasMapOf({})
              BY <6>2 DEF LineForAddress, TasMapOf
            <6> QED
              BY <6>1, <6>2, <1>1, <3>1, LineForAddressIsOne
          <5> HIDE DEF line
          <5> QED
            BY <1>1, <3>5, <4>1, <5>1, LocForTasLineIs
        <4>3. loc.file \in DOMAIN FullPath /\ loc.line \in Nat
          BY <1>1, <4>1, <4>2, LocMapIs
        <4> HIDE DEF loc
        <4>4. frame.line = loc.line /\ frame.source = loc.file
          BY <3>5
        <4>5. frame.line >= -1
          BY <4>3, <4>4
        <4> QED
          BY <4>3, <4>4, <4>5
      <3> QED
        BY <3>1, <3>3, <3>4, <3>5 DEF FrameAt
    <2> QED
      BY <2>1, <2>2
  <1> QED
    BY <1>2, <1>3, <1>4, <1>5, <1>6 DEF TypeOK

-----------------------------------------------------------------------------
(* The wire.                                                               *)

Formats == {"trits", "decimal", "hex"}

(* Half of the values of the wire are below zero.                          *)
LEMMA WireIs ==
  \E h \in Nat \ {0} : /\ h = Power(2, WireBits - 1) /\ Power(2, WireBits) = 2 * h
                       /\ Wire = -h..h - 1 /\ NotAValue = 2 * h /\ NotAValue \notin Wire
  <1>1. PICK m \in Nat : m = WireBits - 1 /\ WireBits = m + 1
    <2>1. WireBits \in Nat \ {0}
      BY PanelAssumption
    <2>2. WireBits - 1 \in Nat /\ WireBits = (WireBits - 1) + 1
      BY <2>1
    <2> QED
      BY <2>2
  <1>2. PICK h \in Nat \ {0} : h = Power(2, m)
    <2>1. Power(2, m) \in Nat /\ Power(2, m) >= 1
      BY TwosPowers
    <2>2. Power(2, m) \in Nat \ {0}
      BY <2>1
    <2> QED
      BY <2>2
  <1>3. Power(2, m + 1) = h * 2
    <2>1. 2 \in Nat
      OBVIOUS
    <2>2. Power(2, m + 1) = Power(2, m) * 2
      BY <2>1, PowerSteps
    <2> QED
      BY <1>2, <2>2
  <1>4. h * 2 = 2 * h /\ 2 * h \notin -h..h - 1
    OBVIOUS
  <1>5. Wire = -h..h - 1
    BY <1>1, <1>2 DEF Wire
  <1> QED
    BY <1>1, <1>2, <1>3, <1>4, <1>5 DEF NotAValue

(* A value that fits a word is on the wire, and not its least one.         *)
LEMMA WordsFit ==
  ASSUME NEW v \in Int, FitsWord(v)
  PROVE  v \in Wire /\ v # -Power(2, WireBits - 1)
  <1>1. PICK h \in Nat \ {0} : /\ h = Power(2, WireBits - 1) /\ Power(2, WireBits) = 2 * h
                               /\ Wire = -h..h - 1
    BY WireIs
  <1>2. PICK w \in Nat : w = WordSizeTrits
    BY PanelAssumption
  <1>3. Power(3, w) \in Nat
    BY TernaryPowers
  <1>4. 2 * Magnitude(v) < Power(3, w) /\ Power(3, w) <= 2 * h
    BY <1>1, <1>2, PanelAssumption DEF FitsWord
  <1>5. Magnitude(v) = IF v < 0 THEN -v ELSE v
    BY DEF Magnitude
  <1>6. v > -h /\ v < h
    BY <1>3, <1>4, <1>5
  <1>7. v \in -h..h - 1 /\ v # -h
    BY <1>6
  <1> QED
    BY <1>1, <1>7

(* What hexadecimal digits are read as is on the wire.                     *)
LEMMA HexOnWire ==
  ASSUME NEW digits \in Seq(Characters)
  PROVE  ParseHex(digits) \in Wire \cup {NotAValue}
  <1>1. PICK h \in Nat \ {0} : /\ h = Power(2, WireBits - 1) /\ Power(2, WireBits) = 2 * h
                               /\ Wire = -h..h - 1 /\ NotAValue = 2 * h
    BY WireIs
  <1>2. CASE ~HasDigits(digits, "Base16Unsigned")
    BY <1>2 DEF ParseHex
  <1>3. CASE HasDigits(digits, "Base16Unsigned")
    <2>1. PICK radix \in Unsigned : radix = "Base16Unsigned" /\ Base(radix) = 16
      BY DEF Unsigned, Base
    <2>2. digits # <<>> /\ \A k \in DOMAIN digits : ValueOfDigit(digits[k], radix) # NoDigit
      BY <1>3, <2>1 DEF HasDigits
    <2>3. PICK bits \in Nat : bits = Parse(digits, radix)
      <3>1. ASSUME NEW c \in Characters, ValueOfDigit(c, radix) # NoDigit
            PROVE  ValueOfDigit(c, radix) \in 0..15
        <4>1. ValueOfHex(c) \in Nat
          BY DEF ValueOfHex, NoDigit, Characters
        <4>2. ValueOfDigit(c, radix) = (IF ValueOfHex(c) < 16 THEN ValueOfHex(c) ELSE NoDigit)
          BY <2>1 DEF ValueOfDigit
        <4> QED
          BY <3>1, <4>1, <4>2
      <3>2. \A k \in 1..Len(digits) : digits[k] \in Characters
        OBVIOUS
      <3>3. PICK d : d = ValuesOf(digits, radix)
        OBVIOUS
      <3>4. d \in [1..Len(digits) -> 0..15]
        BY <2>2, <3>1, <3>2, <3>3 DEF ValuesOf
      <3>5. d \in Seq(0..15)
        <4>1. Len(digits) \in Nat
          OBVIOUS
        <4> QED
          BY <3>4, <4>1, TextOf
      <3>6. Parse(digits, radix) = Weigh(d, 16)
        BY <2>1, <3>3 DEF Parse, ValuesOf, Unsigned
      <3>7. Weigh(d, 16) \in Nat
        <4>1. PICK b \in Nat : b = 16 /\ b >= 2
          OBVIOUS
        <4>2. d \in Seq(0..b - 1)
          BY <3>5, <4>1
        <4>3. Weigh(d, b) \in Nat
          BY <4>1, <4>2, WeighBounds
        <4> QED
          BY <4>1, <4>3
      <3> QED
        BY <3>6, <3>7
    <2>4. CASE bits >= 2 * h
      BY <1>1, <2>1, <2>3, <2>4 DEF ParseHex
    <2>5. CASE ~(bits >= 2 * h)
      <3>1. ParseHex(digits) = IF bits < h THEN bits ELSE bits - 2 * h
        BY <1>1, <1>3, <2>1, <2>3, <2>5 DEF ParseHex
      <3>2. (IF bits < h THEN bits ELSE bits - 2 * h) \in -h..h - 1
        BY <2>5
      <3> QED
        BY <1>1, <3>1, <3>2
    <2> QED
      BY <2>4, <2>5
  <1> QED
    BY <1>2, <1>3

(* What a user types is a value of the wire, or it is refused.             *)
LEMMA TypedOnWire ==
  ASSUME NEW text \in Seq(Characters)
  PROVE  TryParseValue(text) \in Wire \cup {NotAValue}
  <1>1. ASSUME NEW v PROVE OnWire(v) \in Wire \cup {NotAValue}
    BY DEF OnWire
  <1>2. CASE text = <<>>
    BY <1>2 DEF TryParseValue
  <1>3. CASE text # <<>> /\ IsTrits(text)
    BY <1>1, <1>3 DEF TryParseValue
  <1>4. CASE text # <<>> /\ ~IsTrits(text) /\ HasHexPrefix(text)
    <2>1. SubSeq(text, 3, Len(text)) \in Seq(Characters)
      OBVIOUS
    <2>2. ParseHex(SubSeq(text, 3, Len(text))) \in Wire \cup {NotAValue}
      BY <2>1, HexOnWire
    <2>3. text[1] # Minus
      BY <1>4 DEF HasHexPrefix, Minus
    <2> QED
      BY <1>4, <2>2, <2>3 DEF TryParseValue
  <1>5. CASE text # <<>> /\ ~IsTrits(text) /\ text[1] = Minus /\ HasHexPrefix(Tail(text))
    <2>1. SubSeq(text, 4, Len(text)) \in Seq(Characters)
      OBVIOUS
    <2>2. PICK value \in Wire \cup {NotAValue} : value = ParseHex(SubSeq(text, 4, Len(text)))
      BY <2>1, HexOnWire
    <2>3. ~HasHexPrefix(text)
      BY <1>5 DEF HasHexPrefix, Minus
    <2>4. Negate(value) \in Wire \cup {NotAValue}
      <3>1. PICK h \in Nat \ {0} : /\ h = Power(2, WireBits - 1) /\ Wire = -h..h - 1 /\ NotAValue = 2 * h
        BY WireIs
      <3>2. Negate(value) = IF value \in {NotAValue, -h} THEN value ELSE -value
        BY <3>1 DEF Negate
      <3> QED
        BY <3>1, <3>2
    <2> QED
      BY <1>5, <2>2, <2>3, <2>4 DEF TryParseValue
  <1>6. CASE /\ text # <<>> /\ ~IsTrits(text) /\ ~HasHexPrefix(text)
             /\ ~(text[1] = Minus /\ HasHexPrefix(Tail(text)))
    BY <1>1, <1>6 DEF TryParseValue
  <1> QED
    BY <1>2, <1>3, <1>4, <1>5, <1>6

-----------------------------------------------------------------------------
(* What is shown.                                                          *)

(* A word has as many trits as a register, anything wider has none.        *)
LEMMA TritsRender ==
  ASSUME NEW v \in Int
  PROVE  /\ ToTrits(v) = Thrown <=> ~FitsWord(v)
         /\ FitsWord(v) => /\ ToTrits(v) \in Seq(TritChars) /\ Len(ToTrits(v)) = WordSizeTrits
                           /\ Reads(ToTrits(v), "Base3Balanced", v)
  <1>1. PICK w \in Nat \ {0, 1} : w = WordSizeTrits
    BY PanelAssumption
  <1>2. PICK radix \in Radices : radix = "Base3Balanced" /\ radix \notin {"Base64Rfc4648", "Base10"}
    BY DEF Radices
  <1>3. w \in Nat /\ w \in Nat \ {0} /\ w > 0 /\ WordOptions.output = w
    BY <1>1 DEF WordOptions
  <1>4. PICK lsdFirst \in BOOLEAN : lsdFirst = FALSE /\ lsdFirst = WordOptions.lsdFirst
    BY DEF WordOptions
  <1>5. PICK out : out = ToTrits(v) /\ out = Format(v, radix, WordOptions)
    BY <1>2 DEF ToTrits
  <1>6. /\ Misfit(v, radix, w) => out = Thrown
        /\ ~Misfit(v, radix, w) =>
             /\ out \in Seq(Characters) /\ out # <<>> /\ out # Thrown
             /\ Reads(FirstDigitFirst(out, radix, lsdFirst), radix, v)
             /\ w > 0 => DigitCount(out, radix) = w
    BY <1>2, <1>3, <1>4, <1>5, FormatReads
  <1>7. Misfit(v, radix, w) <=> ~FitsWord(v)
    <2>1. PICK text : text = FormatBalancedTernary(v)
      OBVIOUS
    <2>2. /\ text \in Seq(TritChars) /\ Len(text) \in Nat \ {0}
          /\ \A m \in Nat \ {0} : Len(text) <= m <=> 2 * Magnitude(v) < Power(3, m)
      BY <2>1, BalancedWeighs
    <2>3. Formatted(v, radix) = text /\ DigitCount(text, radix) = Len(text)
      BY <1>2, <2>1 DEF Formatted, DigitCount, Unsigned
    <2>4. text # Thrown
      <3>1. \A c \in TritChars : c \in Characters
        BY DEF TritChars, Characters, Plus, Minus
      <3>2. text \in Seq(Characters)
        BY <2>2, <3>1, WiderAlphabet
      <3>3. text # <<>>
        BY <2>2
      <3> QED
        BY <3>2, <3>3, TextIsNotThrown
    <2>5. Len(text) <= w <=> FitsWord(v)
      BY <1>1, <1>3, <2>2 DEF FitsWord
    <2>6. Misfit(v, radix, w) <=> Len(text) > w
      BY <1>3, <2>3, <2>4 DEF Misfit
    <2>7. Len(text) > w <=> ~(Len(text) <= w)
      BY <1>3, <2>2
    <2> QED
      BY <2>5, <2>6, <2>7
  <1>8. ASSUME FitsWord(v)
        PROVE  out # Thrown /\ out \in Seq(TritChars) /\ Len(out) = w /\ Reads(out, radix, v)
    <2>1. /\ out \in Seq(Characters) /\ out # Thrown
          /\ Reads(FirstDigitFirst(out, radix, lsdFirst), radix, v)
          /\ DigitCount(out, radix) = w
      BY <1>3, <1>6, <1>7, <1>8
    <2>2. FirstDigitFirst(out, radix, lsdFirst) = out
      BY <1>4 DEF FirstDigitFirst
    <2>3. Len(out) = w
      BY <1>2, <2>1 DEF DigitCount
    <2>4. \A k \in DOMAIN out : out[k] \in TritChars
      BY <1>2, <2>1, <2>2 DEF Reads, Parses, TritChars
    <2>5. out \in Seq(TritChars)
      BY <2>1, <2>4
    <2> QED
      BY <2>1, <2>2, <2>3, <2>5
  <1> QED
    BY <1>1, <1>2, <1>5, <1>6, <1>7, <1>8

(* A text without the marks between trits and number is typed whole.       *)
LEMMA ShownWhole ==
  ASSUME NEW D, Foreign \notin D, NEW text \in Seq(D)
  PROVE  Shown(text) = text
  BY DEF Shown

(* A text after another.                                                   *)
IsJoined(text, s, t, D) ==
  /\ text \in Seq(D) /\ Len(text) = Len(s) + Len(t) /\ Len(s) \in Nat /\ Len(t) \in Nat
  /\ \A k \in 1..Len(s) : text[k] = s[k]
  /\ \A k \in 1..Len(t) : text[Len(s) + k] = t[k]

(* Concatenation joins.                                                    *)
LEMMA Joined ==
  ASSUME NEW D, NEW s \in Seq(D), NEW t \in Seq(D)
  PROVE  IsJoined(s \o t, s, t, D)
  <1>1. s \o t \in Seq(D) /\ Len(s \o t) = Len(s) + Len(t) /\ Len(s) \in Nat /\ Len(t) \in Nat
    OBVIOUS
  <1>2. \A k \in 1..Len(s) : (s \o t)[k] = s[k]
    OBVIOUS
  <1>3. \A k \in 1..Len(t) : (s \o t)[Len(s) + k] = t[k]
    OBVIOUS
  <1> QED
    BY <1>1, <1>2, <1>3 DEF IsJoined

(* Of trits and number the trits are typed.                                *)
LEMMA TritsShown ==
  ASSUME NEW v \in Int, FitsWord(v)
  PROVE  Render(v, "trits") # Thrown /\ Render(v, "trits") # <<>> /\ Shown(Render(v, "trits")) = ToTrits(v)
  <1>1. PICK w \in Nat \ {0, 1} : w = WordSizeTrits
    BY PanelAssumption
  <1>2. PICK t \in Seq(Characters) : t = ToTrits(v) /\ Len(t) = w /\ t # Thrown
    <2>1. Reads(ToTrits(v), "Base3Balanced", v) /\ Len(ToTrits(v)) = w /\ ToTrits(v) # Thrown
      BY <1>1, TritsRender
    <2> QED
      BY <2>1 DEF Reads
  <1>3. PICK n \in Seq(Characters) : n = Formatted(v, "Base10")
    <2>1. Reads(Formatted(v, "Base10"), "Base10", v)
      BY DecimalFormats
    <2> QED
      BY <2>1 DEF Reads
  <1>4. PICK e \in Seq(Characters) : e = Equals /\ Len(e) = 3 /\ e[1] = Foreign
    <2>1. PICK c \in Characters : c = Foreign
      BY DEF Foreign, Characters
    <2>2. Equals = <<c, c, c>>
      BY <2>1 DEF Equals
    <2>3. <<c, c, c>> \in Seq(Characters)
      OBVIOUS
    <2>4. Len(<<c, c, c>>) = 3 /\ <<c, c, c>>[1] = c
      OBVIOUS
    <2> QED
      BY <2>1, <2>2, <2>3, <2>4
  <1>5. PICK text \in Seq(Characters) :
          /\ text = (t \o e) \o n /\ Len(text) = (w + 3) + Len(n) /\ Len(n) \in Nat
          /\ \A k \in 1..w : text[k] = t[k]
          /\ text[w + 1] = Foreign
    <2>1. PICK a : a = t \o e
      OBVIOUS
    <2>2. IsJoined(a, t, e, Characters)
      BY <2>1, Joined
    <2>3. a \in Seq(Characters) /\ Len(a) = w + 3 /\ \A k \in 1..w : a[k] = t[k]
      BY <1>2, <1>4, <2>2 DEF IsJoined
    <2>4. a[w + 1] = Foreign
      <3>1. 1 \in 1..Len(e) /\ Len(t) + 1 = w + 1
        BY <1>2, <1>4
      <3>2. a[Len(t) + 1] = e[1]
        BY <2>2, <3>1 DEF IsJoined
      <3> QED
        BY <1>4, <3>1, <3>2
    <2>5. PICK text : text = a \o n
      OBVIOUS
    <2>6. IsJoined(text, a, n, Characters)
      BY <2>3, <2>5, Joined
    <2>7. /\ text \in Seq(Characters) /\ Len(text) = (w + 3) + Len(n) /\ Len(n) \in Nat
          /\ \A k \in 1..w + 3 : text[k] = a[k]
      BY <2>3, <2>6 DEF IsJoined
    <2>8. w + 1 \in 1..w + 3 /\ \A k \in 1..w : k \in 1..w + 3
      OBVIOUS
    <2>9. \A k \in 1..w : text[k] = t[k]
      BY <2>3, <2>7, <2>8
    <2>10. text[w + 1] = Foreign
      BY <2>4, <2>7, <2>8
    <2> QED
      BY <2>1, <2>5, <2>7, <2>9, <2>10
  <1>6. Render(v, "trits") = text
    BY <1>2, <1>3, <1>4, <1>5 DEF Render
  <1>7. w + 1 \in DOMAIN text
    BY <1>5
  <1>8. Shown(text) = SubSeq(text, 1, w)
    BY <1>1, <1>5, <1>7 DEF Shown
  <1>9. SubSeq(text, 1, w) = t
    <2>1. PICK s \in Seq(Characters) : s = SubSeq(text, 1, w) /\ Len(s) = w /\ \A k \in 1..w : s[k] = text[k]
      <3>1. SubSeq(text, 1, w) \in Seq(Characters) /\ Len(SubSeq(text, 1, w)) = w
        BY <1>5
      <3>2. \A k \in 1..w : SubSeq(text, 1, w)[k] = text[k]
        BY <1>5
      <3> QED
        BY <3>1, <3>2
    <2>2. Len(s) = Len(t) /\ \A k \in 1..Len(s) : s[k] = t[k]
      BY <1>2, <1>5, <2>1
    <2> QED
      BY <2>1, <2>2, SameText
  <1>10. text # Thrown /\ text # <<>>
    <2>1. text # <<>>
      BY <1>7
    <2> QED
      BY <2>1, TextIsNotThrown
  <1> QED
    BY <1>2, <1>6, <1>8, <1>9, <1>10

(* The digits of a decimal number, and its minus.                          *)
LEMMA DecimalIs ==
  ASSUME NEW v \in Int
  PROVE  \E d \in Seq(0..9) : d # <<>> /\ Formatted(v, "Base10") = IF v < 0 THEN <<Minus>> \o d ELSE d
  <1>1. PICK b \in Nat : b = 10 /\ b >= 2
    OBVIOUS
  <1>2. PICK u \in Nat : u = IF v < 0 THEN -v ELSE v
    OBVIOUS
  <1>3. PICK d \in Seq(0..9) : d = Expand(u, 10) /\ d # <<>>
    <2>1. PICK d \in Seq(0..b - 1) : d = Expand(u, b) /\ Len(d) \in Nat \ {0}
      BY <1>1, ExpandWeighs
    <2>2. d # <<>>
      BY <2>1
    <2> QED
      BY <1>1, <2>1, <2>2
  <1>4. Formatted(v, "Base10") = IF v < 0 THEN <<Minus>> \o d ELSE d
    BY <1>2, <1>3 DEF Formatted, Unsigned
  <1> QED
    BY <1>3, <1>4

-----------------------------------------------------------------------------
(* What is shown is read as what it was rendered from.                     *)

(* No text but one of trits has a sign other than a leading minus.         *)
LEMMA NoTrits ==
  ASSUME NEW text \in Seq(Characters), text # <<>>, text[1] # Plus,
         \A k \in 2..Len(text) : text[k] \notin {Plus, Minus}
  PROVE  ~IsTrits(text)
  <1>1. Len(text) \in Nat
    OBVIOUS
  <1>2. ASSUME NEW k \in 1..Len(text), text[1] # Minus PROVE text[k] \notin {Plus, Minus}
    <2>1. k = 1 \/ k \in 2..Len(text)
      BY <1>1
    <2> QED
      BY <1>2, <2>1
  <1> QED
    BY <1>2 DEF IsTrits

(* A number in decimal is typed whole and read as itself.                  *)
LEMMA DecimalReadsBack ==
  ASSUME NEW v \in Wire
  PROVE  LET text == Render(v, "decimal")
         IN  /\ text # Thrown /\ text # Hidden /\ Shown(text) \in Seq(Characters)
             /\ TryParseValue(Shown(text)) = v
  <1>0. v \in Int
    BY WireIs
  <1>1. PICK text : text = Formatted(v, "Base10")
    OBVIOUS
  <1>2. /\ text \in Seq(Characters) /\ text # <<>> /\ text # Thrown
        /\ Parses(text, "Base10") /\ Parse(text, "Base10") = v
    <2>1. Reads(text, "Base10", v) /\ text # Thrown
      BY <1>0, <1>1, DecimalFormats
    <2> QED
      BY <2>1 DEF Reads
  <1>3. PICK d \in Seq(0..9) : d # <<>> /\ text = IF v < 0 THEN <<Minus>> \o d ELSE d
    BY <1>0, <1>1, DecimalIs
  <1>4. /\ text \in Seq(0..9 \cup {Minus}) /\ \A k \in 2..Len(text) : text[k] \in 0..9
        /\ text[1] = Minus => Tail(text) = d
    <2>1. CASE v < 0
      <3>1. PICK D : D = 0..9 \cup {Minus}
        OBVIOUS
      <3>2. Minus \in D /\ \A c \in 0..9 : c \in D
        BY <3>1
      <3>3. d \in Seq(D)
        BY <3>2, WiderAlphabet
      <3>4. IsFirst(text, Minus, d, D)
        <4>1. text = <<Minus>> \o d
          BY <1>3, <2>1
        <4> QED
          BY <3>2, <3>3, <4>1, FirstIs
      <3>5. text \in Seq(D) /\ Len(text) = Len(d) + 1 /\ Len(d) \in Nat /\ Tail(text) = d
        BY <3>4 DEF IsFirst
      <3>6. \A k \in 1..Len(d) : text[k + 1] = d[k]
        BY <3>4 DEF IsFirst
      <3>7. ASSUME NEW k \in 2..Len(text) PROVE text[k] \in 0..9
        <4>1. k - 1 \in 1..Len(d) /\ (k - 1) + 1 = k
          BY <3>5
        <4>2. text[k] = d[k - 1]
          BY <3>6, <4>1
        <4> QED
          BY <4>1, <4>2
      <3> QED
        BY <3>1, <3>5, <3>7
    <2>2. CASE ~(v < 0)
      <3>1. text = d
        BY <1>3, <2>2
      <3>2. \A c \in 0..9 : c \in 0..9 \cup {Minus}
        OBVIOUS
      <3>3. text \in Seq(0..9 \cup {Minus})
        BY <3>1, <3>2, WiderAlphabet
      <3>4. 1 \in DOMAIN d
        BY <1>3
      <3>5. text[1] \in 0..9 /\ \A k \in 2..Len(text) : text[k] \in 0..9
        BY <3>1, <3>4
      <3>6. text[1] # Minus
        BY <3>5 DEF Minus
      <3> QED
        BY <3>3, <3>5, <3>6
    <2> QED
      BY <2>1, <2>2
  <1>5. Shown(text) = text
    <2>1. Foreign \notin 0..9 \cup {Minus}
      BY DEF Foreign, Minus
    <2> QED
      BY <1>4, <2>1, ShownWhole
  <1>6. ~IsTrits(text)
    <2>1. 1 \in DOMAIN text
      BY <1>2
    <2>2. text[1] \in 0..9 \cup {Minus}
      BY <1>4, <2>1
    <2>3. text[1] # Plus
      BY <2>2 DEF Plus, Minus
    <2>4. \A c \in 0..9 : c \notin {Plus, Minus}
      BY DEF Plus, Minus
    <2>5. \A k \in 2..Len(text) : text[k] \notin {Plus, Minus}
      BY <1>4, <2>4
    <2> QED
      BY <1>2, <2>3, <2>5, NoTrits
  <1>7. ~HasHexPrefix(text)
    <2>1. Len(text) \in Nat
      BY <1>2
    <2>2. Len(text) >= 2 => text[2] \in 0..9
      BY <1>4, <2>1
    <2> QED
      BY <2>2 DEF HasHexPrefix, LowerX, UpperX
  <1>8. text[1] = Minus => ~HasHexPrefix(Tail(text))
    <2>1. Len(d) >= 2 => d[2] \in 0..9
      OBVIOUS
    <2>2. ~HasHexPrefix(d)
      BY <2>1 DEF HasHexPrefix, LowerX, UpperX
    <2> QED
      BY <1>4, <2>2
  <1>9. TryParseValue(text) = OnWire(v)
    BY <1>2, <1>6, <1>7, <1>8 DEF TryParseValue
  <1>10. OnWire(v) = v
    BY DEF OnWire
  <1>11. Render(v, "decimal") = text
    BY <1>1 DEF Render
  <1> QED
    BY <1>2, <1>5, <1>9, <1>10, <1>11 DEF Hidden

(* The hexadecimal digits of a magnitude are read as its bits.             *)
LEMMA HexDigitsRead ==
  ASSUME NEW u \in Nat, u < Power(2, WireBits)
  PROVE  /\ ToHex(u) \in Seq(0..41) /\ HasDigits(ToHex(u), "Base16Unsigned")
         /\ Parse(ToHex(u), "Base16Unsigned") = u
  <1>1. PICK h \in Nat \ {0} : Power(2, WireBits) = 2 * h
    BY WireIs
  <1>2. u % Power(2, WireBits) = u
    <2>1. u % (2 * h) = u
      BY <1>1
    <2> QED
      BY <1>1, <2>1
  <1>3. PICK digits \in Seq(0..15) : digits = Expand(u, 16) /\ digits # <<>> /\ Weigh(digits, 16) = u
    <2>1. PICK b \in Nat : b = 16 /\ b >= 2
      OBVIOUS
    <2>2. Expand(u, b) \in Seq(0..b - 1) /\ Len(Expand(u, b)) \in Nat \ {0} /\ Weigh(Expand(u, b), b) = u
      BY <2>1, ExpandWeighs
    <2>3. PICK e : e = Expand(u, b)
      OBVIOUS
    <2>4. e \in Seq(0..15) /\ e # <<>> /\ Weigh(e, 16) = u
      BY <2>1, <2>2, <2>3
    <2> QED
      BY <2>1, <2>3, <2>4
  <1>4. PICK text : text = [k \in 1..Len(digits) |-> IF digits[k] < 10 THEN digits[k] ELSE digits[k] + 26]
    OBVIOUS
  <1>5. ToHex(u) = text
    <2>1. DOMAIN digits = 1..Len(digits)
      OBVIOUS
    <2> QED
      BY <1>2, <1>3, <1>4, <2>1 DEF ToHex
  <1>6. text \in Seq(0..41) /\ Len(text) = Len(digits)
    <2>1. \A k \in 1..Len(digits) : digits[k] \in 0..15
      OBVIOUS
    <2> DEFINE char(d) == IF d < 10 THEN d ELSE d + 26
    <2>2. \A d \in 0..15 : char(d) \in 0..41
      OBVIOUS
    <2>5. text = [k \in 1..Len(digits) |-> char(digits[k])]
      BY <1>4
    <2> HIDE DEF char
    <2>4. text \in [1..Len(digits) -> 0..41]
      BY <2>1, <2>2, <2>5
    <2>3. Len(digits) \in Nat
      OBVIOUS
    <2> QED
      BY <2>3, <2>4, TextOf
  <1>7. PICK radix \in Unsigned : radix = "Base16Unsigned" /\ Base(radix) = 16
    BY DEF Unsigned, Base
  <1>8. ValuesOf(text, radix) = digits
    <2>1. ASSUME NEW d \in 0..15
          PROVE  ValueOfDigit(IF d < 10 THEN d ELSE d + 26, radix) = d
      <3>1. PICK c : c = IF d < 10 THEN d ELSE d + 26
        OBVIOUS
      <3>2. ValueOfHex(c) = d
        BY <3>1 DEF ValueOfHex
      <3>3. ValueOfDigit(c, radix) = d
        BY <1>7, <3>2 DEF ValueOfDigit
      <3> QED
        BY <3>1, <3>3
    <2>2. DOMAIN text = 1..Len(digits)
      BY <1>4
    <2>3. \A k \in 1..Len(digits) : digits[k] \in 0..15
      OBVIOUS
    <2>4. ASSUME NEW k \in 1..Len(digits) PROVE ValueOfDigit(text[k], radix) = digits[k]
      BY <1>4, <2>1, <2>3
    <2>5. ValuesOf(text, radix) = [k \in 1..Len(digits) |-> digits[k]]
      BY <2>2, <2>4 DEF ValuesOf
    <2>6. digits = [k \in 1..Len(digits) |-> digits[k]]
      OBVIOUS
    <2> QED
      BY <2>5, <2>6
  <1>9. text \in Seq(Characters) /\ text # <<>>
    <2>1. \A c \in 0..41 : c \in Characters
      BY DEF Characters
    <2>2. text # <<>>
      BY <1>3, <1>6
    <2> QED
      BY <1>6, <2>1, <2>2, WiderAlphabet
  <1>10. Reads(text, radix, Weigh(ValuesOf(text, radix), Base(radix)))
    <2>1. ValuesOf(text, radix) \in Seq(0..Base(radix) - 1)
      <3>1. Base(radix) - 1 = 15
        BY <1>7
      <3> QED
        BY <1>8, <3>1
    <2> QED
      BY <1>9, <2>1, UnsignedReads
  <1>11. Parses(text, radix) /\ Parse(text, radix) = u
    BY <1>3, <1>7, <1>8, <1>10 DEF Reads
  <1>12. HasDigits(text, radix)
    BY <1>7, <1>11 DEF Parses
  <1> QED
    BY <1>5, <1>6, <1>7, <1>11, <1>12

(* What follows a prefix.                                                  *)
LEMMA AfterPrefix ==
  ASSUME NEW D, NEW p \in Seq(D), NEW s \in Seq(D), NEW text, IsJoined(text, p, s, D)
  PROVE  SubSeq(text, Len(p) + 1, Len(text)) = s
  <1>1. PICK m \in Nat, n \in Nat : m = Len(p) /\ n = Len(s)
    OBVIOUS
  <1>2. text \in Seq(D) /\ Len(text) = m + n /\ \A k \in 1..n : text[m + k] = s[k]
    BY <1>1 DEF IsJoined
  <1>3. PICK t : t = SubSeq(text, m + 1, m + n)
    OBVIOUS
  <1>4. t \in Seq(D) /\ Len(t) = n
    <2>1. \A k \in m + 1..m + n : k \in 1..Len(text)
      BY <1>2
    <2>2. SubSeq(text, m + 1, m + n) \in Seq(D)
      BY <1>2, <2>1
    <2>3. Len(SubSeq(text, m + 1, m + n)) = n
      BY <1>2, <2>1
    <2> QED
      BY <1>3, <2>2, <2>3
  <1>5. ASSUME NEW k \in 1..n PROVE t[k] = text[m + k]
    BY <1>2, <1>3
  <1>6. Len(t) = Len(s) /\ \A k \in 1..Len(t) : t[k] = s[k]
    BY <1>1, <1>2, <1>4, <1>5
  <1>7. t = s
    BY <1>4, <1>6, SameText
  <1> QED
    BY <1>1, <1>2, <1>3, <1>7

(* The characters of a hexadecimal number: no plus, and no mark between    *)
(* trits and number.                                                       *)
HexChars == 0..61 \cup {Minus}

(* A number in hexadecimal is typed whole and read as itself; the least of *)
(* the wire is its own negative.                                           *)
LEMMA HexReadsBack ==
  ASSUME NEW v \in Wire
  PROVE  LET text == Render(v, "hex")
         IN  /\ text # Thrown /\ text # Hidden /\ Shown(text) \in Seq(Characters)
             /\ TryParseValue(Shown(text)) = v
  <1>1. PICK h \in Nat \ {0} : /\ h = Power(2, WireBits - 1) /\ Power(2, WireBits) = 2 * h
                               /\ Wire = -h..h - 1 /\ NotAValue = 2 * h
    BY WireIs
  <1>2. PICK u \in 0..h : u = (IF v < 0 THEN -v ELSE v) /\ (v < 0 \/ u < h)
    BY <1>1
  <1>3. PICK digits : digits = ToHex(u)
    OBVIOUS
  <1>4. /\ digits \in Seq(0..41) /\ HasDigits(digits, "Base16Unsigned")
        /\ Parse(digits, "Base16Unsigned") = u
    <2>1. u \in Nat /\ u < Power(2, WireBits)
      BY <1>1
    <2> QED
      BY <1>3, <2>1, HexDigitsRead
  <1>5. digits \in Seq(HexChars)
    <2>1. \A c \in 0..41 : c \in HexChars
      BY DEF HexChars
    <2> QED
      BY <1>4, <2>1, WiderAlphabet
  <1>6. PICK n \in {2, 3}, p \in Seq(HexChars) :
          /\ p = (IF v < 0 THEN <<Minus>> ELSE <<>>) \o HexPrefix
          /\ Len(p) = n /\ p[n - 1] = 0 /\ p[n] = LowerX
          /\ IF v < 0 THEN n = 3 /\ p[1] = Minus ELSE n = 2
    <2>1. 0 \in HexChars /\ LowerX \in HexChars /\ Minus \in HexChars
      BY DEF HexChars, LowerX
    <2>2. PICK m \in HexChars, z \in HexChars, x \in HexChars : m = Minus /\ z = 0 /\ x = LowerX
      BY <2>1
    <2>3. HexPrefix = <<z, x>>
      BY <2>2 DEF HexPrefix
    <2>4. CASE v < 0
      <3>1. PICK s \in Seq(HexChars) : s = <<m>> /\ Len(s) = 1 /\ s[1] = m
        <4>1. <<m>> \in Seq(HexChars)
          OBVIOUS
        <4>2. Len(<<m>>) = 1 /\ <<m>>[1] = m
          OBVIOUS
        <4> QED
          BY <4>1, <4>2
      <3>2. PICK t \in Seq(HexChars) : t = <<z, x>> /\ Len(t) = 2 /\ t[1] = z /\ t[2] = x
        <4>1. <<z, x>> \in Seq(HexChars)
          OBVIOUS
        <4>2. Len(<<z, x>>) = 2 /\ <<z, x>>[1] = z /\ <<z, x>>[2] = x
          OBVIOUS
        <4> QED
          BY <4>1, <4>2
      <3>3. PICK p : p = s \o t
        OBVIOUS
      <3>4. IsJoined(p, s, t, HexChars)
        BY <3>3, Joined
      <3>5. p \in Seq(HexChars) /\ p = (IF v < 0 THEN <<Minus>> ELSE <<>>) \o HexPrefix
        BY <2>2, <2>3, <2>4, <3>1, <3>2, <3>3, <3>4 DEF IsJoined
      <3>6. Len(p) = 3 /\ p[1] = Minus /\ p[3 - 1] = 0 /\ p[3] = LowerX
        <4>1. 1 \in 1..Len(s) /\ 1 \in 1..Len(t) /\ 2 \in 1..Len(t)
          BY <3>1, <3>2
        <4>2. Len(p) = 3 /\ p[1] = s[1]
          BY <3>1, <3>2, <3>4, <4>1 DEF IsJoined
        <4>3. p[1 + 1] = t[1]
          BY <3>1, <3>4, <4>1 DEF IsJoined
        <4>4. p[1 + 2] = t[2]
          BY <3>1, <3>4, <4>1 DEF IsJoined
        <4> QED
          BY <2>2, <3>1, <3>2, <4>2, <4>3, <4>4
      <3> QED
        BY <2>4, <3>5, <3>6
    <2>5. CASE ~(v < 0)
      <3>1. <<>> \o <<z, x>> = <<z, x>>
        OBVIOUS
      <3>2. <<z, x>> \in Seq(HexChars)
        OBVIOUS
      <3>3. Len(<<z, x>>) = 2 /\ <<z, x>>[1] = z /\ <<z, x>>[2] = x
        OBVIOUS
      <3>4. PICK p \in Seq(HexChars) : p = <<z, x>>
        BY <3>2
      <3>5. p = (IF v < 0 THEN <<Minus>> ELSE <<>>) \o HexPrefix
        BY <2>3, <2>5, <3>1, <3>4
      <3>6. Len(p) = 2 /\ p[2 - 1] = 0 /\ p[2] = LowerX
        BY <2>2, <3>3, <3>4
      <3> QED
        BY <2>5, <3>5, <3>6
    <2> QED
      BY <2>4, <2>5
  <1>7. PICK text : text = p \o digits
    OBVIOUS
  <1>8. Render(v, "hex") = text
    BY <1>2, <1>3, <1>6, <1>7 DEF Render
  <1>9. IsJoined(text, p, digits, HexChars)
    BY <1>5, <1>7, Joined
  <1>10. PICK l \in Nat : l = Len(digits)
    BY <1>4
  <1>11. /\ text \in Seq(HexChars) /\ Len(text) = n + l
         /\ \A k \in 1..n : text[k] = p[k]
    BY <1>6, <1>9, <1>10 DEF IsJoined
  <1>12. \A k \in 1..l : text[n + k] = digits[k]
    BY <1>6, <1>9, <1>10 DEF IsJoined
  <1>13. text \in Seq(Characters) /\ text # <<>>
    <2>1. \A c \in HexChars : c \in Characters
      BY DEF HexChars, Characters, Minus
    <2>2. text # <<>>
      BY <1>6, <1>11
    <2> QED
      BY <1>11, <2>1, <2>2, WiderAlphabet
  <1>14. text[n - 1] = 0 /\ text[n] = LowerX /\ (v < 0 => text[1] = Minus)
    <2>1. n - 1 \in 1..n /\ n \in 1..n /\ 1 \in 1..n
      OBVIOUS
    <2> QED
      BY <1>6, <1>11, <2>1
  <1>15. Shown(text) = text
    <2>1. Foreign \notin HexChars
      BY DEF Foreign, HexChars, Minus
    <2> QED
      BY <1>11, <2>1, ShownWhole
  <1>16. ~IsTrits(text)
    <2>1. ASSUME NEW k \in 2..Len(text) PROVE text[k] \notin {Plus, Minus}
      <3>1. CASE k <= n
        <4>1. k = n \/ (n = 3 /\ k = n - 1)
          BY <1>11, <3>1
        <4> QED
          BY <1>14, <4>1 DEF LowerX, Plus, Minus
      <3>2. CASE ~(k <= n)
        <4>1. k - n \in 1..l /\ n + (k - n) = k
          BY <1>11, <3>2
        <4>2. text[k] = digits[k - n]
          BY <1>12, <4>1
        <4>3. k - n \in DOMAIN digits
          BY <1>4, <1>10, <4>1
        <4>4. PICK c \in 0..41 : c = digits[k - n]
          BY <1>4, <4>3, ElementIs
        <4>5. c \notin {Plus, Minus}
          BY DEF Plus, Minus
        <4> QED
          BY <4>2, <4>4, <4>5
      <3> QED
        BY <3>1, <3>2
    <2>2. text[1] # Plus
      <3>1. n = 2 => text[1] = 0
        BY <1>14
      <3> QED
        BY <1>6, <1>14, <3>1 DEF Plus, Minus
    <2> QED
      BY <1>13, <2>1, <2>2, NoTrits
  <1>17. SubSeq(text, n + 1, Len(text)) = digits
    BY <1>5, <1>6, <1>9, AfterPrefix
  <1>18. ParseHex(digits) = IF u < h THEN u ELSE u - 2 * h
    BY <1>1, <1>2, <1>4 DEF ParseHex
  <1>19. TryParseValue(text) = v
    <2>1. CASE v < 0
      <3>1. n = 3
        BY <1>6, <2>1
      <3>2. text[1] = Minus /\ text[2] = 0 /\ text[3] = LowerX
        BY <1>14, <2>1, <3>1
      <3>3. ~HasHexPrefix(text)
        BY <3>2 DEF HasHexPrefix, Minus
      <3>4. HasHexPrefix(Tail(text))
        <4>1. PICK rest : rest = Tail(text)
          OBVIOUS
        <4>2. Len(text) >= 3
          BY <1>11, <3>1
        <4>3. Len(rest) >= 2 /\ rest[1] = text[2] /\ rest[2] = text[3]
          BY <1>13, <4>1, <4>2
        <4>4. HasHexPrefix(rest)
          BY <3>2, <4>3 DEF HasHexPrefix
        <4> QED
          BY <4>1, <4>4
      <3>5. SubSeq(text, 4, Len(text)) = digits
        BY <1>17, <3>1
      <3>6. TryParseValue(text) = Negate(ParseHex(digits))
        BY <1>13, <1>16, <3>2, <3>3, <3>4, <3>5 DEF TryParseValue
      <3>7. CASE u < h
        <4>1. ParseHex(digits) = u /\ u # 2 * h /\ u # -h /\ v = -u
          BY <1>1, <1>2, <1>18, <2>1, <3>7
        <4> QED
          BY <1>1, <3>6, <4>1 DEF Negate
      <3>8. CASE u = h
        <4>1. ParseHex(digits) = -h /\ v = -h
          BY <1>1, <1>2, <1>18, <2>1, <3>8
        <4> QED
          BY <1>1, <3>6, <4>1 DEF Negate
      <3> QED
        BY <3>7, <3>8
    <2>2. CASE ~(v < 0)
      <3>1. n = 2
        BY <1>6, <2>2
      <3>2. HasHexPrefix(text) /\ text[1] # Minus
        <4>1. text[1] = 0 /\ text[2] = LowerX /\ Len(text) >= 2
          BY <1>11, <1>14, <3>1
        <4> QED
          BY <4>1 DEF HasHexPrefix, Minus
      <3>3. SubSeq(text, 3, Len(text)) = digits
        BY <1>17, <3>1
      <3>4. TryParseValue(text) = ParseHex(digits)
        BY <1>13, <1>16, <3>2, <3>3 DEF TryParseValue
      <3> QED
        BY <1>2, <1>18, <2>2, <3>4
    <2> QED
      BY <2>1, <2>2
  <1>20. text # Thrown
    BY <1>13, TextIsNotThrown
  <1> QED
    BY <1>8, <1>13, <1>15, <1>19, <1>20 DEF Hidden

(* Zeros weigh nothing.                                                    *)
LEMMA OnlyZeros ==
  ASSUME NEW b \in Nat, NEW s \in Seq(Int), \A k \in 1..Len(s) : s[k] = 0
  PROVE  Weigh(s, b) = 0
  <1>1. PICK n \in Nat : n = Len(s)
    OBVIOUS
  <1>2. Repeated(0, n) \in Seq(Int) /\ Weigh(Repeated(0, n), b) = 0
    BY ZerosWeighNothing
  <1>3. Len(Repeated(0, n)) = n /\ \A k \in 1..n : Repeated(0, n)[k] = 0
    BY DEF Repeated
  <1>4. Repeated(0, n) = s
    <2>1. PICK t \in Seq(Int) : t = Repeated(0, n)
      BY <1>2
    <2>2. Len(t) = Len(s) /\ \A k \in 1..Len(t) : t[k] = s[k]
      BY <1>1, <1>3, <2>1
    <2>3. t = s
      BY <2>2, SameText
    <2> QED
      BY <2>1, <2>3
  <1> QED
    BY <1>2, <1>4

(* A minus and zeros, or zeros: what trits without another sign are.       *)
LEMMA NoOtherSign ==
  ASSUME NEW t \in Seq(TritChars), NEW w \in Nat \ {0, 1}, Len(t) = w, ~IsTrits(t)
  PROVE  /\ t[1] \in {0, Minus} /\ \A k \in 2..w : t[k] = 0
  <1>1. \A k \in 1..w : t[k] \in {Minus, 0, Plus}
    BY DEF TritChars
  <1>2. t[1] # Plus
    BY DEF IsTrits
  <1>3. ASSUME NEW k \in 2..w PROVE t[k] = 0
    <2>1. k \in (IF t[1] = Minus THEN 2 ELSE 1)..Len(t) /\ Len(t) > 1
      OBVIOUS
    <2>2. t[k] \notin {Plus, Minus}
      BY <2>1 DEF IsTrits
    <2>3. k \in 1..w
      OBVIOUS
    <2> QED
      BY <1>1, <2>2, <2>3
  <1>4. 1 \in 1..w
    OBVIOUS
  <1> QED
    BY <1>1, <1>2, <1>3, <1>4

(* Trits are read as the word they are of, unless they have no sign but a  *)
(* leading minus: then the word is the minus's weight, or 0, and decimal 0 *)
(* is read.                                                                *)
LEMMA TritsReadBack ==
  ASSUME NEW v \in Int, FitsWord(v)
  PROVE  \/ TryParseValue(ToTrits(v)) = v
         \/ v = -Power(3, WordSizeTrits - 1) /\ TryParseValue(ToTrits(v)) = 0
  <1>1. PICK w \in Nat \ {0, 1} : w = WordSizeTrits
    BY PanelAssumption
  <1>2. PICK t : t = ToTrits(v)
    OBVIOUS
  <1>3. t \in Seq(TritChars) /\ Len(t) = w /\ Reads(t, "Base3Balanced", v)
    BY <1>1, <1>2, TritsRender
  <1>4. /\ t \in Seq(Characters) /\ t # <<>>
        /\ Parses(t, "Base3Balanced") /\ Parse(t, "Base3Balanced") = v
    BY <1>3 DEF Reads
  <1>5. CASE IsTrits(t)
    <2>1. TryParseValue(t) = OnWire(v)
      BY <1>4, <1>5 DEF TryParseValue
    <2>2. OnWire(v) = v
      BY WordsFit DEF OnWire
    <2> QED
      BY <1>2, <2>1, <2>2
  <1>6. CASE ~IsTrits(t)
    <2>1. t[1] \in {0, Minus} /\ \A k \in 2..w : t[k] = 0
      BY <1>3, <1>6, NoOtherSign
    <2>2. PICK rest \in Seq(TritChars) :
            rest = Tail(t) /\ Len(rest) = w - 1 /\ \A k \in 1..w - 1 : rest[k] = 0
      <3>1. Tail(t) \in Seq(TritChars) /\ Len(Tail(t)) = w - 1
        BY <1>3, <1>4
      <3>2. ASSUME NEW k \in 1..w - 1 PROVE Tail(t)[k] = 0
        <4>1. Tail(t)[k] = t[k + 1]
          BY <1>3, <1>4
        <4>2. k + 1 \in 2..w
          OBVIOUS
        <4> QED
          BY <2>1, <4>1, <4>2
      <3> QED
        BY <3>1, <3>2
    <2>3. ~HasHexPrefix(t)
      <3>1. t[2] = 0
        <4>1. 2 \in 2..w
          OBVIOUS
        <4> QED
          BY <2>1, <4>1
      <3> QED
        BY <3>1 DEF HasHexPrefix, LowerX, UpperX
    <2>4. ~HasHexPrefix(rest)
      <3>1. Len(rest) >= 2 => rest[2] = 0
        <4>1. Len(rest) >= 2 => 2 \in 1..w - 1
          BY <2>2
        <4> QED
          BY <2>2, <4>1
      <3> QED
        BY <3>1 DEF HasHexPrefix, LowerX, UpperX
    <2>5. PICK zeros \in Seq({0}) : zeros # <<>> /\ Unsign(t) = zeros
      <3>1. CASE t[1] = Minus
        <4>1. Unsign(t) = rest
          BY <1>4, <2>2, <3>1 DEF Unsign
        <4>2. rest # <<>>
          <5>1. Len(rest) = w - 1 /\ w - 1 # 0
            BY <2>2
          <5> QED
            BY <5>1
        <4>3. rest \in [1..w - 1 -> {0}]
          <5>1. \A k \in 1..w - 1 : rest[k] \in {0}
            BY <2>2
          <5>2. DOMAIN rest = 1..w - 1
            BY <2>2
          <5>3. rest = [k \in DOMAIN rest |-> rest[k]]
            OBVIOUS
          <5> QED
            BY <5>1, <5>2, <5>3
        <4>4. w - 1 \in Nat
          OBVIOUS
        <4>5. rest \in Seq({0})
          BY <4>3, <4>4, TextOf
        <4> QED
          BY <4>1, <4>2, <4>5
      <3>2. CASE t[1] = 0
        <4>1. Unsign(t) = t
          BY <3>2 DEF Unsign, Plus, Minus
        <4>2. ASSUME NEW k \in 1..w PROVE t[k] \in {0}
          <5>1. k = 1 \/ k \in 2..w
            OBVIOUS
          <5> QED
            BY <2>1, <3>2, <5>1
        <4>3. t \in Seq({0})
          BY <1>3, <4>2
        <4> QED
          BY <1>4, <4>1, <4>3
      <3> QED
        BY <2>1, <3>1, <3>2
    <2>6. PICK sign \in {1, -1} : Parses(t, "Base10") /\ Parse(t, "Base10") = sign * Weigh(zeros, 10)
      <3>1. HasDigits(zeros, "Base10")
        <4>1. \A k \in DOMAIN zeros : zeros[k] = 0
          OBVIOUS
        <4>2. ValueOfDigit(0, "Base10") = 0
          BY DEF ValueOfDigit, Base
        <4> QED
          BY <2>5, <4>1, <4>2 DEF HasDigits, NoDigit
      <3>2. Parses(t, "Base10")
        BY <2>5, <3>1 DEF Parses
      <3>3. Parse(t, "Base10") = (IF t[1] = Minus THEN -1 ELSE 1) * Weigh(zeros, 10)
        BY <2>5 DEF Parse, Unsigned
      <3> QED
        BY <3>2, <3>3
    <2>7. Weigh(zeros, 10) = 0
      <3>1. 10 \in Nat /\ zeros \in Seq(Int) /\ \A k \in 1..Len(zeros) : zeros[k] = 0
        <4>1. \A c \in {0} : c \in Int
          OBVIOUS
        <4>2. zeros \in Seq(Int)
          BY <4>1, WiderAlphabet
        <4>3. \A k \in 1..Len(zeros) : zeros[k] = 0
          OBVIOUS
        <4> QED
          BY <4>2, <4>3
      <3> QED
        BY <3>1, OnlyZeros
    <2>8. TryParseValue(t) = 0
      <3>1. Parse(t, "Base10") = 0
        BY <2>6, <2>7
      <3>2. 0 \in Wire
        BY WireIs
      <3>3. TryParseValue(t) = OnWire(0)
        BY <1>4, <1>6, <2>2, <2>3, <2>4, <2>6, <3>1 DEF TryParseValue
      <3> QED
        BY <3>2, <3>3 DEF OnWire
    <2>9. v = -Power(3, w - 1) \/ v = 0
      <3>1. v = Weigh(TritsOf(t), 3)
        BY <1>4 DEF Parse, TritsOf, Unsigned
      <3>2. PICK trits : trits = TritsOf(t) /\ trits \in Seq(Int) /\ Len(trits) = w
                         /\ \A k \in 1..w : trits[k] = TritOf(t[k])
        <4>1. DOMAIN t = 1..w
          BY <1>3
        <4>2. \A c \in TritChars : TritOf(c) \in Int
          BY TritOfChar DEF TritChars
        <4>3. ASSUME NEW k \in 1..w PROVE TritOf(t[k]) \in Int
          <5>1. t[k] \in TritChars
            BY <1>3
          <5> QED
            BY <4>2, <5>1
        <4>4. PICK f : f = TritsOf(t)
          OBVIOUS
        <4>5. f = [k \in 1..w |-> TritOf(t[k])]
          BY <4>1, <4>4 DEF TritsOf
        <4>6. f \in [1..w -> Int] /\ \A k \in 1..w : f[k] = TritOf(t[k])
          BY <4>3, <4>5
        <4>7. f \in Seq(Int) /\ Len(f) = w
          BY <4>6, TextOf
        <4> QED
          BY <4>4, <4>6, <4>7
      <3>3. \A k \in 2..w : trits[k] = 0
        <4>1. \A k \in 2..w : k \in 1..w
          OBVIOUS
        <4> QED
          BY <2>1, <3>2, <4>1, TritOfChar
      <3>4. trits[1] = TritOf(t[1])
        <4>1. 1 \in 1..w
          OBVIOUS
        <4> QED
          BY <3>2, <4>1
      <3>5. PICK zs \in Seq(Int) : Len(zs) = w - 1 /\ (\A k \in 1..w - 1 : zs[k] = 0) /\ trits = <<trits[1]>> \o zs
        <4>1. PICK zs \in Seq(Int) : zs = Tail(trits)
          <5>1. trits \in Seq(Int) /\ trits # <<>>
            BY <3>2
          <5>2. Tail(trits) \in Seq(Int)
            BY <5>1
          <5> QED
            BY <5>2
        <4>2. Len(zs) = w - 1 /\ \A k \in 1..w - 1 : zs[k] = trits[k + 1]
          BY <3>2, <4>1
        <4>3. \A k \in 1..w - 1 : k + 1 \in 2..w
          OBVIOUS
        <4>4. \A k \in 1..w - 1 : zs[k] = 0
          BY <3>3, <4>2, <4>3
        <4>5. PICK x \in Int : x = trits[1]
          BY <3>2
        <4>6. PICK r : r = <<x>> \o zs
          OBVIOUS
        <4>7. IsFirst(r, x, zs, Int)
          BY <4>6, FirstIs
        <4>8. r \in Seq(Int) /\ Len(r) = w /\ r[1] = x /\ \A k \in 1..w - 1 : r[k + 1] = zs[k]
          BY <4>2, <4>7 DEF IsFirst
        <4>9. ASSUME NEW k \in 1..w PROVE trits[k] = r[k]
          <5>1. CASE k = 1
            BY <4>5, <4>8, <5>1
          <5>2. CASE k # 1
            <6>1. k - 1 \in 1..w - 1 /\ (k - 1) + 1 = k
              BY <5>2
            <6>2. r[k] = zs[k - 1] /\ zs[k - 1] = trits[k]
              BY <4>2, <4>8, <6>1
            <6> QED
              BY <6>2
          <5> QED
            BY <5>1, <5>2
        <4>10. Len(trits) = Len(r) /\ \A k \in 1..Len(trits) : trits[k] = r[k]
          BY <3>2, <4>8, <4>9
        <4>11. trits = r
          BY <3>2, <4>8, <4>10, SameText
        <4> QED
          BY <4>2, <4>4, <4>5, <4>6, <4>11
      <3>6. PICK b \in Nat, x \in Int : b = 3 /\ x = trits[1]
        <4>1. 3 \in Nat /\ trits[1] \in Int
          BY <3>2
        <4> QED
          BY <4>1
      <3>7. Weigh(<<x>> \o zs, b) = x * Power(b, Len(zs)) + Weigh(zs, b)
        BY WeighFirst
      <3>8. Weigh(zs, b) = 0
        BY <3>5, OnlyZeros
      <3>9. PICK p \in Nat : p = Power(b, Len(zs)) /\ p = Power(3, w - 1)
        <4>1. w - 1 \in Nat
          OBVIOUS
        <4>2. Power(3, w - 1) \in Nat
          BY <4>1, TernaryPowers
        <4>3. Len(zs) = w - 1
          BY <3>5
        <4> QED
          BY <3>6, <4>2, <4>3
      <3>10. v = x * p
        <4>1. v = Weigh(<<x>> \o zs, b)
          BY <3>1, <3>2, <3>5, <3>6
        <4>2. x * p + 0 = x * p
          OBVIOUS
        <4> QED
          BY <3>7, <3>8, <3>9, <4>1, <4>2
      <3>11. x = 0 \/ x = -1
        BY <2>1, <3>4, <3>6, TritOfChar
      <3> QED
        BY <3>9, <3>10, <3>11
    <2> QED
      BY <1>1, <1>2, <2>8, <2>9
  <1> QED
    BY <1>5, <1>6

(* What a text is read as that is typed as it is shown.                    *)
ReadsAs(text, v) ==
  \/ TryParseValue(Shown(text)) = v
  \/ v = -Power(3, WordSizeTrits - 1) /\ TryParseValue(Shown(text)) = 0

(* In every format a value of the wire is shown so that it reads back, and *)
(* only one wider than a word is not shown, and that in trits.             *)
LEMMA RenderReads ==
  ASSUME NEW v \in Wire, NEW f \in Formats
  PROVE  /\ Render(v, f) = Thrown => f = "trits" /\ ~FitsWord(v)
         /\ Render(v, f) # Thrown => /\ Render(v, f) # Hidden
                                     /\ Shown(Render(v, f)) \in Seq(Characters)
                                     /\ ReadsAs(Render(v, f), v)
  <1>0. v \in Int
    BY WireIs
  <1>1. CASE f = "decimal"
    BY <1>1, DecimalReadsBack DEF ReadsAs
  <1>2. CASE f = "hex"
    BY <1>2, HexReadsBack DEF ReadsAs
  <1>3. CASE f = "trits" /\ FitsWord(v)
    <2>1. /\ Render(v, "trits") # Thrown /\ Render(v, "trits") # <<>>
          /\ Shown(Render(v, "trits")) = ToTrits(v)
      BY <1>0, <1>3, TritsShown
    <2>2. ToTrits(v) \in Seq(Characters)
      <3>1. Reads(ToTrits(v), "Base3Balanced", v)
        BY <1>0, <1>3, TritsRender
      <3> QED
        BY <3>1 DEF Reads
    <2>3. \/ TryParseValue(ToTrits(v)) = v
          \/ v = -Power(3, WordSizeTrits - 1) /\ TryParseValue(ToTrits(v)) = 0
      BY <1>0, <1>3, TritsReadBack
    <2> QED
      BY <1>3, <2>1, <2>2, <2>3 DEF ReadsAs, Hidden
  <1>4. CASE f = "trits" /\ ~FitsWord(v)
    <2>1. ToTrits(v) = Thrown
      BY <1>0, <1>4, TritsRender
    <2>2. Render(v, "trits") = Thrown
      BY <2>1 DEF Render
    <2> QED
      BY <1>4, <2>2
  <1> QED
    BY <1>1, <1>2, <1>3, <1>4 DEF Formats

-----------------------------------------------------------------------------
(* The panel.                                                              *)

(* What the panel shows of a register: nothing yet, that it failed, or a   *)
(* text that can be typed and is read as the register's word.              *)
IsShownOf(text, v) ==
  \/ text \in {Hidden, Thrown}
  \/ Shown(text) \in Seq(Characters) /\ (FitsWord(v) => ReadsAs(text, v))

(* The panel fails as a whole, for a register that is wider than a word,   *)
(* and nothing can be written into a panel that failed.                    *)
PanelInv ==
  /\ registers \in [Registers -> Wire] /\ format \in Formats
  /\ answer \in {"none", "done", "failed"}
  /\ DOMAIN panel = Registers /\ \A r \in Registers : IsShownOf(panel[r], registers[r])
  /\ (\E r \in Registers : panel[r] = Thrown) =>
       /\ \A r \in Registers : panel[r] = Thrown
       /\ \E r \in Registers : ~FitsWord(registers[r])

(* A panel that was not asked for is not one that failed.                  *)
LEMMA HiddenIsNoError == Hidden # Thrown
  <1>1. Len(<<>>) = 0 /\ Len(<<-1>>) = 1
    OBVIOUS
  <1> QED
    BY <1>1 DEF Hidden, Thrown

(* At first nothing is shown.                                              *)
LEMMA InitPanelInv == PanelInit => PanelInv
  <1> SUFFICES ASSUME PanelInit PROVE PanelInv
    OBVIOUS
  <1>1. 0 \in Wire
    BY WireIs
  <1>2. registers \in [Registers -> Wire] /\ format \in Formats /\ answer \in {"none", "done", "failed"}
    BY <1>1 DEF PanelInit, Formats
  <1>3. DOMAIN panel = Registers /\ \A r \in Registers : panel[r] = Hidden
    BY DEF PanelInit
  <1> QED
    BY <1>2, <1>3, HiddenIsNoError DEF PanelInv, IsShownOf

(* A text typed into a visible register is refused, or written.            *)
LEMMA WriteKeeps ==
  ASSUME PanelInv, NEW r \in Registers, NEW text \in Seq(Characters), HandleSetVariable(r, text)
  PROVE  /\ PanelInv'
         /\ registers' # registers /\ answer' = "failed" =>
              format = "trits" /\ \E q \in Registers : ~FitsWord(registers'[q])
  <1>1. PICK v \in Wire \cup {NotAValue} : v = TryParseValue(text)
    BY TypedOnWire
  <1>2. PICK shown : shown = Render(v, format)
    OBVIOUS
  <1>3. format' = format /\ panel[r] \notin {Hidden, Thrown}
    BY DEF HandleSetVariable, Visible
  <1>4. \A q \in Registers : panel[q] # Thrown
    BY <1>3 DEF PanelInv
  <1>5. CASE answer' = "failed" /\ UNCHANGED <<registers, panel>>
    BY <1>3, <1>5 DEF PanelInv
  <1>6. CASE /\ v # NotAValue
             /\ registers' = [registers EXCEPT ![r] = v]
             /\ answer' = IF shown = Thrown THEN "failed" ELSE "done"
             /\ panel' = IF shown = Thrown THEN panel ELSE [panel EXCEPT ![r] = shown]
    <2>1. v \in Wire /\ format \in Formats
      BY <1>1, <1>6 DEF PanelInv
    <2>2. /\ registers' \in [Registers -> Wire] /\ registers'[r] = v
          /\ \A q \in Registers \ {r} : registers'[q] = registers[q]
      BY <1>6, <2>1 DEF PanelInv
    <2>3. /\ shown = Thrown => format = "trits" /\ ~FitsWord(v)
          /\ shown # Thrown => Shown(shown) \in Seq(Characters) /\ ReadsAs(shown, v)
      BY <1>2, <2>1, RenderReads
    <2>4. CASE shown = Thrown
      <3>1. panel' = panel /\ answer' = "failed"
        BY <1>6, <2>4
      <3>2. ASSUME NEW q \in Registers PROVE IsShownOf(panel[q], registers'[q])
        <4>1. CASE q = r
          <5>1. ~FitsWord(registers'[q]) /\ IsShownOf(panel[q], registers[q])
            BY <2>2, <2>3, <2>4, <4>1 DEF PanelInv
          <5> QED
            BY <5>1 DEF IsShownOf
        <4>2. CASE q # r
          BY <2>2, <4>2 DEF PanelInv
        <4> QED
          BY <4>1, <4>2
      <3>3. \A q \in Registers : IsShownOf(panel'[q], registers'[q])
        BY <3>1, <3>2
      <3>4. PanelInv'
        BY <1>3, <1>4, <2>1, <2>2, <3>1, <3>3 DEF PanelInv
      <3> QED
        BY <2>2, <2>3, <2>4, <3>4
    <2>5. CASE shown # Thrown
      <3>1. /\ DOMAIN panel' = Registers /\ answer' = "done" /\ panel'[r] = shown
            /\ \A q \in Registers \ {r} : panel'[q] = panel[q]
        BY <1>6, <2>5 DEF PanelInv
      <3>2. ASSUME NEW q \in Registers PROVE IsShownOf(panel'[q], registers'[q])
        <4>1. CASE q = r
          BY <2>2, <2>3, <2>5, <3>1, <4>1 DEF IsShownOf
        <4>2. CASE q # r
          BY <2>2, <3>1, <4>2 DEF PanelInv
        <4> QED
          BY <4>1, <4>2
      <3>3. \A q \in Registers : panel'[q] # Thrown
        BY <1>4, <2>5, <3>1
      <3>4. PanelInv'
        BY <1>3, <2>1, <2>2, <3>1, <3>2, <3>3 DEF PanelInv
      <3> QED
        BY <3>1, <3>4
    <2> QED
      BY <2>4, <2>5
  <1> QED
    BY <1>1, <1>2, <1>5, <1>6 DEF HandleSetVariable

(* What the stub keeps and the panel shows stays so that it reads back.    *)
LEMMA StepPanelInv ==
  ASSUME PanelInv, PanelNext \/ TargetRuns \/ UNCHANGED panelVars
  PROVE  /\ PanelInv'
         /\ registers' # registers /\ answer' = "failed" =>
              format = "trits" /\ \E q \in Registers : ~FitsWord(registers'[q])
  <1>1. CASE UNCHANGED panelVars
    BY <1>1 DEF PanelInv, panelVars
  <1>2. CASE TargetRuns
    <2>1. \A word \in Left : word \in Wire
      BY WordsFit, PanelAssumption
    <2>2. registers' \in [Registers -> Wire]
      BY <1>2, <2>1 DEF TargetRuns
    <2>3. DOMAIN panel' = Registers /\ \A r \in Registers : panel'[r] = Hidden
      BY <1>2 DEF TargetRuns
    <2>4. answer' = "none" /\ format' = format /\ format \in Formats
      BY <1>2 DEF TargetRuns, PanelInv
    <2>5. PanelInv'
      BY <2>2, <2>3, <2>4, HiddenIsNoError DEF PanelInv, IsShownOf
    <2> QED
      BY <2>4, <2>5
  <1>3. CASE SetFormat
    <2>1. UNCHANGED <<registers, panel, answer>> /\ format' \in Formats
      BY <1>3 DEF SetFormat, Formats
    <2> QED
      BY <2>1 DEF PanelInv
  <1>4. CASE HandleVariables
    <2>1. UNCHANGED <<registers, format, answer>>
      BY <1>4 DEF HandleVariables
    <2>2. \A r \in Registers : registers[r] \in Wire /\ format \in Formats
      BY DEF PanelInv
    <2>3. CASE \E r \in Registers : Render(registers[r], format) = Thrown
      <3>1. DOMAIN panel' = Registers /\ \A r \in Registers : panel'[r] = Thrown
        BY <1>4, <2>3 DEF HandleVariables
      <3>2. \E r \in Registers : ~FitsWord(registers[r])
        BY <2>2, <2>3, RenderReads
      <3>3. \A r \in Registers : IsShownOf(panel'[r], registers[r])
        BY <3>1 DEF IsShownOf
      <3> QED
        BY <2>1, <3>1, <3>2, <3>3 DEF PanelInv
    <2>4. CASE ~\E r \in Registers : Render(registers[r], format) = Thrown
      <3>1. DOMAIN panel' = Registers /\ \A r \in Registers : panel'[r] = Render(registers[r], format)
        BY <1>4, <2>4 DEF HandleVariables
      <3>2. \A r \in Registers : panel'[r] # Thrown
        BY <2>4, <3>1
      <3>3. \A r \in Registers : IsShownOf(panel'[r], registers[r])
        BY <2>2, <2>4, <3>1, RenderReads DEF IsShownOf
      <3> QED
        BY <2>1, <3>1, <3>2, <3>3 DEF PanelInv
    <2> QED
      BY <2>3, <2>4
  <1>5. ASSUME NEW r \in Registers, NEW text \in Typed, HandleSetVariable(r, text)
        PROVE  /\ PanelInv'
               /\ registers' # registers /\ answer' = "failed" =>
                    format = "trits" /\ \E q \in Registers : ~FitsWord(registers'[q])
    <2>1. text \in Seq(Characters)
      BY PanelAssumption
    <2> QED
      BY <1>5, <2>1, WriteKeeps
  <1>6. ASSUME NEW r \in Registers, NEW s \in Registers, Visible(s), HandleSetVariable(r, Shown(panel[s]))
        PROVE  /\ PanelInv'
               /\ registers' # registers /\ answer' = "failed" =>
                    format = "trits" /\ \E q \in Registers : ~FitsWord(registers'[q])
    <2>1. Shown(panel[s]) \in Seq(Characters)
      BY <1>6 DEF PanelInv, IsShownOf, Visible
    <2> QED
      BY <1>6, <2>1, WriteKeeps
  <1> QED
    BY <1>1, <1>2, <1>3, <1>4, <1>5, <1>6 DEF PanelNext

(* Then what is shown reads back.                                          *)
LEMMA PanelInvMeans == PanelInv => PanelTypeOK /\ ShownReadsBack
  <1> SUFFICES ASSUME PanelInv PROVE PanelTypeOK /\ ShownReadsBack
    OBVIOUS
  <1>1. PanelTypeOK
    BY DEF PanelInv, PanelTypeOK, Formats
  <1>2. ASSUME NEW r \in Registers, Visible(r), FitsWord(registers[r])
        PROVE  ReadsAs(panel[r], registers[r])
    BY <1>2 DEF PanelInv, IsShownOf, Visible
  <1>3. ASSUME NEW r \in Registers, panel[r] = Thrown
        PROVE  \E q \in Registers : ~FitsWord(registers[q])
    BY <1>3 DEF PanelInv
  <1> QED
    BY <1>1, <1>2, <1>3 DEF ShownReadsBack, ReadsAs

-----------------------------------------------------------------------------
(* The theorems.                                                           *)

(* What is started is what the user meant, for every configuration, every  *)
(* setting and every editor, and whatever the panel does meanwhile         *)
(* (extension.js:10-24, 29-34; DebugSession.cs:152-170).                   *)
THEOREM StartsMeant == ViewSpec => []StartsWhatWasMeant
  <1>1. ViewInit => StartInv
    BY InitStartInv DEF ViewInit
  <1>2. StartInv /\ [ViewNext]_viewVars => StartInv'
    BY ViewStep, StepStartInv
  <1> QED
    BY <1>1, <1>2, StartInvMeans, PTL DEF ViewSpec

(* Every session of the composition starts in the invariant...             *)
LEMMA InitViewInv == Init => ViewInv
  BY InitStartInv, InitMapsInv, InitBreakpointsInv, InitFrameInv DEF ViewInv

(* ... and every step keeps it.                                            *)
LEMMA StepViewInv == ViewInv /\ [Next]_vars => ViewInv'
  BY StepStartInv, StepMapsInv, StepBreakpointsInv, StepFrameInv DEF ViewInv

(* The maps, the marks, the triggers and the frame of every state agree,   *)
(* whatever the program, the requests and the panel do                     *)
(* (DebugSession.cs:152-200, 275-330, 353-371).                            *)
THEOREM ViewInvHolds == ViewSpec => []ViewInv
  <1>1. ViewInit => ViewInv
    BY InitViewInv DEF ViewInit
  <1>2. ViewInv /\ [ViewNext]_viewVars => ViewInv'
    BY ViewStep, StepViewInv
  <1> QED
    BY <1>1, <1>2, PTL DEF ViewSpec

(* The triggers of the stub are those of the source last asked about, each *)
(* explained by a verified mark and no more than it has, for any requests  *)
(* in any order (DebugSession.cs:287-289, 315-324).                        *)
THEOREM TriggersAreMarks == ViewSpec => []TriggersAreTheMarks
  BY ViewInvHolds, ViewInvTriggers, PTL

(* A breakpoint slides down to the next place, no further, and is refused  *)
(* only without a place, a map or a trigger, for every program and every   *)
(* marker in it (TasMap.cs:59-67, SourceLocMap.cs:58-73).                  *)
THEOREM SlidesDown == ViewSpec => []SlidesToNextCode
  BY ViewInvHolds, ViewInvSlides, PTL

(* A stop at a trigger is shown at the mark that set it, for every program *)
(* in which the lookups can be inverted at all (DebugSession.cs:297-304,   *)
(* 353-371).                                                               *)
THEOREM StopsAtMark == ViewSpec => []StopsAtItsMark
  BY ViewInvHolds, ViewInvStops, PTL

(* A step of the composition is one of the panel, or a run of the target,  *)
(* or leaves the panel alone.                                              *)
LEMMA ViewPanelStep == [ViewNext]_viewVars => PanelNext \/ TargetRuns \/ UNCHANGED panelVars
  BY DEF ViewNext, SourceStep, RunStep, PanelStep, viewVars

(* The panel stays in its invariant, whatever the target leaves in its     *)
(* registers and the user types (DebugSession.cs:380-400, 436-459).        *)
THEOREM PanelInvHolds == ViewSpec => []PanelInv
  <1>1. ViewInit => PanelInv
    BY InitPanelInv DEF ViewInit
  <1>2. PanelInv /\ [ViewNext]_viewVars => PanelInv'
    BY ViewPanelStep, StepPanelInv
  <1> QED
    BY <1>1, <1>2, PTL DEF ViewSpec

(* What is shown of a register, typed again, is the value the stub holds,  *)
(* in every format, for every width of a register and of the wire, after   *)
(* any sequence of runs, writes and changes of the format; and the panel   *)
(* fails only for a value wider than a word (TritFormat.cs:25-73).         *)
THEOREM ShownIsReadBack == ViewSpec => []ShownReadsBack
  BY PanelInvHolds, PanelInvMeans, PTL

(* A write that is answered as failed and yet stands is of a value wider   *)
(* than a word, in trits (DebugSession.cs:454-458).                        *)
THEOREM FailedWritesAreWide == ViewSpec => FailedWriteIsWide
  <1> DEFINE Wide == (registers' # registers /\ answer' = "failed") =>
                       format = "trits" /\ \E r \in Registers : ~FitsWord(registers'[r])
  <1>1. PanelInv /\ [ViewNext]_viewVars => [Wide]_panelVars
    <2> SUFFICES ASSUME PanelInv, [ViewNext]_viewVars PROVE Wide
      OBVIOUS
    <2> QED
      BY ViewPanelStep, StepPanelInv
  <1>2. FailedWriteIsWide <=> [][Wide]_panelVars
    BY DEF FailedWriteIsWide
  <1> QED
    BY <1>1, <1>2, PanelInvHolds, PTL DEF ViewSpec

(* The state of the session and of the panel is well formed.               *)
THEOREM ViewTyped == ViewSpec => []ViewTypeOK
  <1>1. ViewInv /\ PanelInv => ViewTypeOK
    BY ViewInvTypeOK, PanelInvMeans DEF ViewTypeOK
  <1> QED
    BY <1>1, ViewInvHolds, PanelInvHolds, PTL
=============================================================================
