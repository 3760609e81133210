----------------------------- MODULE SourceView -----------------------------
(***************************************************************************)
(* A debugging session as the user of the editor sees it: the extension    *)
(* completes the launch configuration and names the adapter; the adapter   *)
(* starts or finds the simulator and loads the line maps; the editor sends *)
(* the breakpoints of one source after another and keeps a mark for each   *)
(* answer; the program stops somewhere and the adapter tells in which line *)
(* of which source that is.                                                *)
(*                                                                         *)
(* The requests that reach the adapter are handled one at a time while the *)
(* target is halted (how they interleave with a running target is          *)
(* DebugSession's subject), so a handler is one action.                    *)
(***************************************************************************)
EXTENDS SourceMaps

CONSTANTS
  Scenarios,    \* how sessions are started: see ScenariosAssumption
  Sources,      \* the paths the editor has breakpoints in
  Requests,     \* the sequences of lines it sends for one source
  Triggers,     \* execute triggers of the stub
  MaxRequests,  \* bound on the setBreakpoints requests of a session
  TasFiles,     \* the paths that end in .tas
  Dlls          \* the adapters that do in .dll

ASSUME ScenariosAssumption ==
  \A s \in Scenarios :
    /\ s.editor \in DOMAIN FullPath \cup {""}             \* the active editor's file
    /\ s.config \in [type : STRING, request : {"", "launch", "attach"}, name : STRING,
                     program : DOMAIN FullPath \cup {""}, simulator : STRING,
                     stopOnEntry : BOOLEAN]                \* "" is a field that is not set
    /\ s.tasmap \in {"absent", "written", "malformed"}    \* beside the program
    /\ s.present \subseteq DOMAIN FullPath                \* sources that are on this disk
    /\ s.program \in Seq(ProgramLine)

ASSUME PathsAssumption == "" \notin TasFiles \cup DOMAIN FullPath

ASSUME BoundsAssumption ==
  /\ Triggers \in Nat /\ MaxRequests \in Nat
  /\ Sources \subseteq DOMAIN FullPath /\ Requests \subseteq Seq(Nat \ {0})

VARIABLES
  scenario,  \* the disk, the settings, the editor and the configuration
  phase,     \* "editing", "resolved", "described", "configuring", "debugging", "failed", "refused"
  config,    \* the configuration as the extension hands it back
  command,   \* how the adapter is started
  process,   \* how the adapter started the simulator
  tasMap,    \* _tasMap, of no rows if there is none
  locMap,    \* _locMap, of no markers if there is none
  armed,     \* _armedBreakpoints
  stub,      \* the addresses in the stub's triggers
  marks,     \* for every source, what the editor was last answered
  asked,     \* the source of the last setBreakpoints request
  requests,  \* how many there were
  slot,      \* the pc of the halted target
  frame      \* what the editor shows since the last stop

started == <<scenario, config, command, process, tasMap, locMap>>
vars == <<scenario, phase, config, command, process, tasMap, locMap,
          armed, stub, marks, asked, requests, slot, frame>>

NoProcess == [simulator |-> "", program |-> ""]
NoFrame == [source |-> "", line |-> -1]
Nowhere == [source |-> "", line |-> 0]

TypeOK ==
  /\ scenario \in Scenarios
  /\ phase \in {"editing", "resolved", "described", "configuring", "debugging", "failed", "refused"}
  /\ DOMAIN locMap \subseteq DOMAIN scenario.program
  /\ armed \subseteq Slots(scenario.program) /\ stub \subseteq Slots(scenario.program)
  /\ DOMAIN marks = Sources /\ asked \in Sources \cup {""} /\ requests \in 0..MaxRequests
  /\ frame.source \in DOMAIN FullPath \cup {""} /\ frame.line >= -1

Init ==
  /\ scenario \in Scenarios
  /\ phase = "editing" /\ config = scenario.config /\ command = <<>> /\ process = NoProcess
  /\ tasMap = TasMapOf({}) /\ locMap = LocMapOf(<<>>)
  /\ armed = {} /\ stub = {} /\ marks = [s \in Sources |-> <<>>]
  /\ asked = "" /\ requests = 0 /\ slot = 0 /\ frame = NoFrame

-----------------------------------------------------------------------------
(* The extension.                                                          *)

(* F5 in a .tas file without a launch.json.                                *)
FromEditor(c) ==
  IF c.type = "" /\ c.request = "" /\ c.name = "" /\ scenario.editor \in TasFiles
  THEN [c EXCEPT !.type = "rebel6", !.request = "launch", !.name = "Debug REBEL-6 program",
                 !.program = scenario.editor, !.stopOnEntry = TRUE]
  ELSE c

(* Mutant of WithSimulator: the setting wins over the configuration.        *)
AlwaysSetting(c) ==
  IF c.request = "launch" THEN [c EXCEPT !.simulator = scenario.simulatorPath] ELSE c

WithSimulator(c) ==
  IF c.request = "launch" /\ c.simulator = ""
  THEN [c EXCEPT !.simulator = scenario.simulatorPath]
  ELSE c

ResolveDebugConfiguration ==
  /\ phase = "editing"
  /\ config' = WithSimulator(FromEditor(config))
  \* The editor starts nothing without a type.
  /\ phase' = IF config'.type = "" THEN "refused" ELSE "resolved"
  /\ UNCHANGED <<scenario, command, process, tasMap, locMap, armed, stub, marks, asked, requests, slot, frame>>

CreateDebugAdapterDescriptor ==
  LET adapter == IF scenario.adapterPath # "" THEN scenario.adapterPath
                 ELSE "TernaryWorkbench.DebugAdapter"
  IN  /\ phase = "resolved"
      /\ phase' = "described"
      /\ command' = IF adapter \in Dlls THEN <<"dotnet", adapter>> ELSE <<adapter>>
      /\ UNCHANGED <<scenario, config, process, tasMap, locMap, armed, stub, marks, asked, requests, slot, frame>>

-----------------------------------------------------------------------------
(* The adapter: launch, attach and the maps.                               *)

(* A map that cannot be read is an exception: the request fails, with the  *)
(* simulator started. Without a program there is nothing to load.          *)
LoadTasMap ==
  IF config.program # "" /\ scenario.tasmap = "malformed"
  THEN phase' = "failed" /\ UNCHANGED <<tasMap, locMap>>
  ELSE /\ phase' = "configuring"
       /\ tasMap' = IF config.program # "" /\ scenario.tasmap = "written"
                    THEN TasMapOf(Rows(scenario.program)) ELSE tasMap
       /\ locMap' = IF config.program # "" THEN LocMapOf(scenario.program) ELSE locMap

HandleLaunch ==
  /\ phase = "described" /\ config.request = "launch"
  /\ IF config.program = "" \/ config.simulator = ""
     THEN phase' = "failed" /\ UNCHANGED <<process, tasMap, locMap>>
     ELSE /\ process' = [simulator |-> config.simulator, program |-> config.program]
          /\ LoadTasMap
  /\ UNCHANGED <<scenario, config, command, armed, stub, marks, asked, requests, slot, frame>>

HandleAttach ==
  /\ phase = "described" /\ config.request = "attach"
  /\ LoadTasMap
  /\ UNCHANGED <<scenario, config, command, process, armed, stub, marks, asked, requests, slot, frame>>

-----------------------------------------------------------------------------
(* The adapter: breakpoints and frames.                                    *)

Halted == phase \in {"configuring", "debugging"}

IsCompiledSource(source) ==
  /\ config.program # "" /\ ~SameFile(source, config.program)
  /\ CoversFile(locMap, source)

(* Where a breakpoint for a line of a source goes, and the line it is at   *)
(* there.                                                                  *)
Target(source, line) ==
  IF IsCompiledSource(source)
  THEN LET tasLine == TasLineForSourceLine(locMap, source, line)
           place == IF tasLine = 0 THEN NoPlace ELSE AddressForLine(tasMap, tasLine)
       IN  IF place = NoPlace THEN NoPlace
           ELSE [address |-> place.address, line |-> locMap[tasLine].line]
  ELSE AddressForLine(tasMap, line)

Answer(line, verified, at) == [asked |-> line, verified |-> verified, line |-> at]

(* Mutant of ArmedAfter: a line without code and a full stub are ignored.   *)
ArmsNoPlace(source, lines) ==
  LET set[k \in 0..Len(lines)] ==
        IF k = 0 THEN {} ELSE set[k - 1] \cup {Target(source, lines[k]).address}
  IN  set

(* One pass over the requested lines: set[k] is what is armed after k of   *)
(* them, in an empty stub.                                                 *)
ArmedAfter(source, lines) ==
  LET set[k \in 0..Len(lines)] ==
        IF k = 0 THEN {}
        ELSE LET place == Target(source, lines[k])
             IN  IF place = NoPlace \/ (place.address \notin set[k - 1]
                                        /\ Cardinality(set[k - 1]) = Triggers)
                 THEN set[k - 1] ELSE set[k - 1] \cup {place.address}
  IN  set

Answers(source, lines) ==
  LET set == ArmedAfter(source, lines)
  IN  [k \in DOMAIN lines |->
         LET place == Target(source, lines[k])
         IN  IF place.address \in set[k] THEN Answer(lines[k], TRUE, place.line)
             ELSE Answer(lines[k], FALSE, lines[k])]

(* Mutant of Cleared: what another source has armed is kept.                *)
ClearedForSource(source) == IF source = asked THEN stub \ armed ELSE stub

(* The triggers of every source are cleared, not only those of this one.   *)
Cleared(source) == stub \ armed

HandleSetBreakpoints(source, lines) ==
  /\ Halted /\ requests < MaxRequests
  /\ armed' = ArmedAfter(source, lines)[Len(lines)]
  /\ stub' = Cleared(source) \cup armed'
  /\ marks' = [marks EXCEPT ![source] = Answers(source, lines)]
  /\ asked' = source /\ requests' = requests + 1
  /\ UNCHANGED <<started, phase, slot, frame>>

(* The frame of a pc: the line of the program, or the line of the source   *)
(* that its marker names if that source is on this disk.                   *)
FrameAt(pc) ==
  LET line == LineForAddress(tasMap, pc)
      loc == LocForTasLine(locMap, line)
  IN  IF line = 0 \/ config.program = "" THEN Nowhere
      ELSE IF loc # NoLoc /\ loc.file \in scenario.present
           THEN [source |-> loc.file, line |-> loc.line]
           ELSE [source |-> config.program, line |-> line]

HandleStackTrace ==
  /\ phase = "debugging" /\ frame = NoFrame
  /\ frame' = FrameAt(slot)
  /\ UNCHANGED <<started, phase, armed, stub, marks, asked, requests, slot>>

(* The client has set its breakpoints: it is told of the stop at the entry *)
(* or the target runs.                                                     *)
HandleConfigurationDone ==
  /\ phase = "configuring" /\ phase' = "debugging"
  /\ IF config.stopOnEntry THEN UNCHANGED slot ELSE slot' \in Slots(scenario.program)
  /\ UNCHANGED <<started, armed, stub, marks, asked, requests, frame>>

(* The target runs and halts, at a trigger, after a step or by a pause.    *)
RunAndHalt ==
  /\ phase = "debugging" /\ frame # NoFrame
  /\ slot' \in Slots(scenario.program) /\ frame' = NoFrame
  /\ UNCHANGED <<started, phase, armed, stub, marks, asked, requests>>

Ended == phase \in {"failed", "refused"} /\ UNCHANGED vars

Next ==
  \/ ResolveDebugConfiguration \/ CreateDebugAdapterDescriptor
  \/ HandleLaunch \/ HandleAttach
  \/ \E s \in Sources, lines \in Requests : HandleSetBreakpoints(s, lines)
  \/ HandleConfigurationDone \/ HandleStackTrace \/ RunAndHalt \/ Ended

Spec == Init /\ [][Next]_vars

-----------------------------------------------------------------------------
(* Properties.                                                             *)

Verified(source) == {marks[source][k] : k \in {k \in DOMAIN marks[source] : marks[source][k].verified}}

IsProgram(source) == config.program # "" /\ SameFile(source, config.program)
IsMarked(source) == \E k \in DOMAIN scenario.program :
  scenario.program[k].kind = "loc" /\ SameFile(scenario.program[k].file, source)

CodeBetween(first, last) == \E k \in first..last : scenario.program[k].kind = "code"

(* A marker has code of its own when a code line comes before the next     *)
(* marker.                                                                 *)
HasOwnCode(tasLine) ==
  \E k \in tasLine + 1..Len(scenario.program) :
    /\ scenario.program[k].kind = "code"
    /\ \A j \in tasLine + 1..k : scenario.program[j].kind # "loc"

(* A stop at a trigger is shown at a mark: the source last asked about has *)
(* a verified mark in the line of the frame. Of a stop in a compiled       *)
(* source this is so if every marker has code of its own and the source is *)
(* on this disk; of a stop in the program, if no marker that governs the   *)
(* line names a source that is, and none names the program itself. The     *)
(* four lookups of HandleSetBreakpoints and HandleStackTrace invert each   *)
(* other then (DebugSession.cs:297-304, 353-371).                          *)
StopsAtItsMark ==
  LET program == scenario.program
      shownIn(source) == frame.source # "" /\ SameFile(frame.source, source)
  IN  (frame # NoFrame /\ slot \in stub) =>
        CASE IsProgram(asked) /\ ~IsMarked(asked) ->
               shownIn(asked) => \E mark \in Verified(asked) : mark.line = frame.line
          [] /\ ~IsProgram(asked) /\ IsMarked(asked)
             /\ \A k \in DOMAIN locMap : HasOwnCode(k) /\ locMap[k].file \in scenario.present ->
               shownIn(asked) /\ \E mark \in Verified(asked) : mark.line = frame.line
          [] OTHER -> TRUE

(* A breakpoint slides down, never up, and no further than it must: to the *)
(* first line with an instruction, or of a compiled source to the lowest   *)
(* line that has a marker. It is refused only when there is none, there is *)
(* no map or every trigger is taken (TasMap.cs:59-67,                      *)
(* SourceLocMap.cs:58-73). Read off the text of the program, not the maps. *)
SlidesToNextCode ==
  \A s \in Sources : \A k \in DOMAIN marks[s] :
    LET mark == marks[s][k]
        length == Len(scenario.program)
        markersAt(low, high) == {j \in DOMAIN scenario.program :
          /\ scenario.program[j].kind = "loc" /\ SameFile(scenario.program[j].file, s)
          /\ scenario.program[j].line >= low /\ scenario.program[j].line < high}
    IN  /\ mark.verified => mark.line >= mark.asked
        /\ (IsProgram(s) /\ mark.verified) =>
             scenario.program[mark.line].kind = "code" /\ ~CodeBetween(mark.asked, mark.line - 1)
        /\ (~IsProgram(s) /\ IsMarked(s) /\ config.program # "" /\ mark.verified) =>
             markersAt(mark.asked, mark.line) = {} /\ markersAt(mark.line, mark.line + 1) # {}
        /\ (IsProgram(s) /\ ~mark.verified /\ CodeBetween(mark.asked, length)) =>
             scenario.tasmap = "absent" \/ Len(marks[s]) > Triggers

(* The triggers are those of the source last asked about, no more and no   *)
(* less: every line the editor shows as verified there stops the target at *)
(* its own slot, and a trigger that no mark explains stops it nowhere      *)
(* (DebugSession.cs:287-289, 315-324). The marks of other sources are not  *)
(* in this: the adapter has dropped their triggers and the editor is not   *)
(* told.                                                                   *)
TriggersAreTheMarks ==
  asked # "" =>
    LET at == {Target(asked, mark.asked).address : mark \in Verified(asked)}
    IN  stub = at /\ armed = at /\ Cardinality(at) <= Triggers

(* What is started is what the user meant: the simulator of the            *)
(* configuration or else of the setting, on the program of the             *)
(* configuration or else of the editor, from an adapter that is never      *)
(* empty, and never for an attach. F5 in a .tas file does not fail unless  *)
(* the setting was emptied or the map is malformed (extension.js:10-24,    *)
(* 29-34; DebugSession.cs:152-170).                                        *)
StartsWhatWasMeant ==
  LET user == scenario.config
      f5 == user.type = "" /\ user.request = "" /\ user.name = ""
      either(a, b) == IF a # "" THEN a ELSE b
  IN  /\ process # NoProcess =>
           /\ config.request = "launch" /\ Len(command) > 0 /\ command[Len(command)] # ""
           /\ process.simulator = either(user.simulator, scenario.simulatorPath)
           /\ process.program = IF f5 THEN scenario.editor ELSE user.program
      /\ (f5 /\ phase = "failed") => scenario.simulatorPath = "" \/ scenario.tasmap = "malformed"

(* "breakpoints in the .tas itself use Layer 1 directly"                   *)
(* (DebugSession.cs:279-281): a source that is not the program and has no  *)
(* marker in it gets no breakpoint. It does.                               *)
ForeignSourceUnarmed ==
  \A s \in Sources : (Verified(s) # {} /\ config.program # "") => IsProgram(s) \/ IsMarked(s)
=============================================================================
