# Ternary Workbench: verification project

Formal models of the Ternary Workbench (`src/TernaryWorkbench/`): TLA+
modules, TLC configurations that check them on small instances, and TLAPS
proofs of what holds for every instance. Paths below are relative to
`src/TernaryWorkbench/src/`.

Every definition is translated from the source; `PROJECT.json` names the lines
each one stands for, the runs, the hazards they are aimed at and, for every
property, a mutant of the code that breaks it.

## 1. Inventory

| Component | State it keeps | Operations | What is hard about it |
|---|---|---|---|
| **DebugAdapter: session and run control** (`Dap/DebugSession.cs`, `Dap/DapConnection.cs`, `Rsp/RspClient.cs`, `Rsp/RspStopReply.cs`) | `_rsp`, `_running`, `_exited`, `_armedBreakpoints`, `_stopOnEntry`, the launched process, the RSP stream | the DAP requests, `StartResume`'s background tasks, `HandleStopReply`, `Cleanup` | two threads share one TCP stream without request ids; `_stateLock` is never held across an exchange; answers precede the work they announce; the simulator may die at any point |
| **DebugAdapter: RSP bytes** (`Rsp/RspClient.cs`) | stream, `_noAck` | `SendPacket`, `ReceivePacket`, `Negotiate` | acknowledgements and the break byte share the stream with packets |
| **DebugAdapter: maps and formats** (`TasMap.cs`, `SourceLocMap.cs`, `TritFormat.cs`) | two immutable line maps, `_format` | line to slot and back, breakpoints and frames by source, registers shown and written | nearest-line rules compose; breakpoints of one source replace those of another; a value is re-read in a radix guessed from its form |
| **CharTStringConverter** | none: static tables | `Encode`, `Decode`, `TokenizeTrytes`, `Detect` | damaged input; where decoding resumes; form boundaries; a check trit over a variable-length symbol |
| **RebelAssembler: assembly** (`Assembly/ProgramAssembler6.cs`, `PageAssembler.cs`, `InstructionParser.cs`) | label tables, location counters and section of a call | parse by line, layout, emission | rounding between slots and trytes; forward labels; labels that mean instructions or trytes |
| **RebelAssembler: encoding** (`InstructionEncoder6.cs`, `InstructionDisassembler6.cs`, `InstructionSet*.cs`) | none | encode, decode, pseudo-instructions | operand ranges; split fields; name lookups that shadow each other |
| **Core: radix conversion** (`Core/RadixConverter.cs`) | none | parse and format in fourteen radices, fixed lengths, digit order | sign conventions, fixed lengths, a logarithm in floating point |
| **CSV exchange** (the three `*CsvSerializer.cs`) | none | serialise and parse the tools' histories | quoting is written by one side and not read by the other, or read twice |
| **Web** (`Web/Tools/*/*.razor`) | input, results, settings, record lists, error lists | handlers with awaits | an import interleaves with other handlers of the page; results outlive the text they are of |
| **Cli** (`Cli/Program.cs`) | none beyond a call | argument parsing | nothing that outlives a call |
| **vscode-rebel6** (`extension.js`) | none | completes the launch configuration, names the adapter | what is started comes from a configuration, the settings and the active editor |

How they interact: an editor talks DAP over stdin/stdout to `DebugSession`,
which starts the simulator (not in this repository) and talks RSP to its stub
over TCP. `DebugSession` uses the line maps that the assembler's listing
feeds. The web pages and the command line call the libraries (Core,
RebelAssembler, CharTStringConverter) directly; the libraries do not call each
other and are stateless. All concurrency is therefore in the debug adapter and,
to a lesser degree, in the asynchronous handlers of the pages.

What makes each correct:

- *session*: one exchange on the link at a time; every reply read by the thread
  that asked; what the client was told agrees with the target; every request
  answered once; every stop, exit and loss reported; no simulator left behind;
  `_armedBreakpoints` equal to the stub's triggers.
- *RSP bytes*: every packet is received as sent, with acknowledgements or
  without; an interrupt byte never becomes part of a packet.
- *extension*: what is started is what the configuration, or else the settings
  and the editor, say.
- *maps*: a breakpoint slides forward to the next instruction and a stop there
  is shown at the line it slid to; the triggers are those the editor was told of.
- *formats*: a value shown, typed again, is the value the stub holds.
- *radix conversion*: format and parse are inverse; a conversion is refused only
  if the value has no text of that form.
- *codecs*: decode inverts encode; damage is reported and stays local; no text
  has two clean encodings.
- *assembler*: sections do not overlap, a label means what follows it in the source,
  disassembly inverts encoding.
- *CSV and pages*: an import of an export gives back the history; what a page
  shows is of the text it shows; errors listed are of the last import.

## 2. Modules

### RunControl and DebugSession: the debug adapter

`DebugSession.tla` models the adapter process, the RSP link, the simulator's
stub and the client of the session.

- **Grain.** One action is what a thread does between two points at which
  another thread, the stub or the client can see the difference: a section
  under `_stateLock`, a write to the link, a blocking read, a message to the
  client. `HandleContinue` for instance answers, and only the next action,
  `StartResume`, looks at `_running`.
- **Request thread.** `pc` is the handler and the place in it; `script` the
  packets it still has to exchange; `lines` the requested breakpoints not yet
  resolved; `wasRunning` the local copy `HandleDisconnect` takes. `SendPacket`
  and the `...Reply` actions are the two halves of `RspClient.Exchange`;
  `ExchangeFails` is the exception that leaves it, `Caught` the handler of
  `HandleRequest` that turns it into a failure response.
- **Resume tasks.** `task[t]` goes "idle", "send", "await" and then "report"
  (the `stopped` event is outstanding), "exiting" and "ending" (`_running` and
  `_exited` change in two lock sections, then `terminated` is sent). A task
  that has cleared `_running` may be overtaken by its successor; `Task` bounds
  how many are alive at once.
- **Link.** `toStub`, `toAdapter` are FIFO byte streams cut into packets and
  replies. A reply carries no id, as in the code.
- **Stub** (external, modelled from how `RspClient` uses it and from
  `MockRspServer` of the tests): answers in order, skips a break byte between
  packets, resumes, steps, hits triggers, exits, detaches (and completes the
  program first), dies at any time.
- **Client** (external): sends any request in any order after a launch or an
  attach (`Disciplined = FALSE`), or resumes the target only when it was told
  that it is stopped (`Disciplined = TRUE`).

Requests that answer without touching state are one request, `"local"`;
`stackTrace`, `variables`, `setVariable` and `evaluate` are one, `"inspect"`,
which differs by how many exchanges it makes. Message wording, JSON framing,
register contents and source files are abstracted away here; `DebugView` has
them, for a halted target.

`RunControl.tla` is the abstract promise: a target that runs at most once for
each time the client asked, never while the client was last told it is
stopped; a stop reported only of a target that is not running. `DebugSession`
maps its state to it (`Target`, `RunPending`) and `KeepsPromise` is the
refinement.

### Trytes and CharT: the text codecs

`Trytes.tla` holds trits, trytes and roles; `CharT.tla` both codecs: a trial is a
text sent through charT_u8 (`checked` is FALSE) or charTC_u8 (TRUE), which share
the tokenizer and the loop and differ in tables, payload sizes, the check trit
and the over-long check. A behaviour encodes a text, damages it on the way (trits
misread, a tryte or a trit left out), and runs the loop of `Decode`, one
iteration per action. The single-tryte tables are built as the code builds
them, from the patterns that are no lead.

One line of encoded text is one element of `lines`; `Tokenize` joins them, as
the tokenizer does, so that damage in one symbol can make the decoder read into
the next. A lost trit fails the tokenizer for the whole input, which is why
`DamageIsLocal` excludes it.

### ProgramAssembler6: assembly and layout

`ProgramAssembler6.tla` models `ProgramAssembler6.Assemble` with the operand
encoders it calls. Each parsing action reads one more line, any of `Lines`:
`BindLabel`, `Section`, `Word`, `Zero`, `Instruction`, or the `Reject...`
action for the line the code throws on. `EndOfSource` is the layout: the data
base after the instruction image, and the data labels moved by it. Then one
action encodes each instruction, and one each datum; `RejectOperand` is the
exception of an operand that has no encoding. The variables are the locals of
`ParseProgram` (`inData`, `dataOffset`, `labels`, `instructions`, `data`) and of
`Assemble` (`dataBase`, `finalLabels`, `code`, `memory`); `source` is the
history of the lines read, which the properties need and the actions do not.

A mnemonic is abstracted to the fields of its operands that may hold a label,
because the encoders differ in nothing else: `ParseWide12` (CSR names, then
labels), `ParseOperand` (labels, then registers) and `ParseLongImmediate`
(labels only). Register operands, shift amounts, func, opcode and
pseudo-instructions (which copy operands) are left out, and so are names in
other letter case. A tryte is one balanced digit of base `2 * TryteMax + 1`
(729 in the code), so that a word is four digits and a wide field two; the
ranges of displacements, addresses and words are derived from `TryteMax` as the
code's literals are from 3^6. A line with a label and a statement is two lines.

The properties compute what a program means from `source` alone (how many
instructions or data precede a line, in which section it is) and compare it
with the images, read back in the order the machine reads them.

### SourceMaps, SourceView, RegisterPanel and DebugView: what the editor shows

`SourceMaps.tla` has the two line maps: `TasMap` from instruction slots to lines
of the `.tas` program, `SourceLocMap` from those to lines of the C source, by the
`# .loc` markers. A program is a sequence of code lines (of so many slots),
blanks and markers. `SourceView.tla` is a session on top of them: `extension.js`
completes the configuration (`ResolveDebugConfiguration`) and names the adapter;
`HandleLaunch` or `HandleAttach` starts the simulator and loads the maps; the
editor sends the breakpoints of one source after another and keeps a mark for
every answer (`marks`), while the stub holds the addresses (`stub`); the target
halts somewhere and `HandleStackTrace` names the line of a source. A handler is
one action, since all of them need a halted target; what happens between the
packets of one is `DebugSession`'s subject.

`RegisterPanel.tla` models `TritFormat` character by character, with the
formats trits, decimal and hex, and the handlers that show registers and write
them. It takes `Format` and `Parse` from `RadixConverter.tla`. `DebugView.tla`
composes the two: both are views of one halted target, and both are void once it
runs.

### RadixConverter and RadixPage: the radix tool

`RadixConverter.tla` has `Convert` with all fourteen radices; a text is a
sequence of characters, a character a number. `ExactLog` is the number of bits up
to which the double that `BigInteger.Log` returns can count bits (48 in .NET):
the runs scale it down to 6. `RadixPage.tla` is the page: every change of the
input or of a setting is an action that runs all of `Recalculate`; an import is
the two actions `ImportCsvAsync` and `FinishImport` (or `ReadFails`), between
which anything else may happen. A file is a sequence of rows here: what matters
of the text is which rows are broken, and an input that ends in a line break,
which only a paste can bring, breaks its own row in two.

### CharTCsv and CharTPage: the charT tool

`CharTCsv.tla` has `CharTStringCsvSerializer` character by character, writer and
both scanners of the reader, over tokens: separator, quotation mark, line feed,
carriage return, space, and runs of other characters. `CharTPage.tla` is the
page, with the codecs as parameters (they are `CharT`'s subject) and the encoding
detector on top of them.

## 3. Runs

| Run | Instance | Shows |
|---|---|---|
| `any_client` | 2 tasks, 3 slots, 2 triggers, every list of 2 lines, 3 distinct slots | types, exclusive exchanges, every reply to the thread that asked, breakpoints equal to triggers, for requests in any order |
| `session` | 2 tasks, 1 slot, fair, no state reduction | the refinement of `RunControl`; no event or answer out of step with the target; an acknowledged `continue` resumes; one answer each; every request answered, every stop and every loss reported, a launched simulator reaped, a pause of a hart that runs halts it |
| `lost_pause` | 1 task | *violation*: a pause can be acknowledged and lost |
| `charT` | both codecs: texts of up to 3 symbols, 1 change; single symbols, 2 changes | round trip, losses reported, damage local; with check trits every single misread trit is reported, and a second clean encoding differs only in a trit that is not read |
| `chart_resync` | 3 symbols, 1 change | *violation*: undamaged symbols at the end are swallowed |
| `assembler6` | sources of up to 5 lines of 23, pages of 3, trytes of -2..2 | labels refer to what follows them, numbers read back, images disjoint |
| `csr_label` | the same | *violation*: a branch to a label named like a CSR goes elsewhere |
| `data_branch` | the same | *violation*: a two-way branch takes a data label |
| `debug_view` | every program of 3 lines of 6 kinds and three longer ones, 2 triggers, 2 requests; every way to start a session on one program; words of 3 trits on a wire of 8 bits | what is started was meant; breakpoints slide no further than they must, stop where their marks are, and are the stub's triggers; what is shown of a register reads back; a failed write that stands is wide |
| `foreign_source` | one program | *violation*: a source the program does not know gets its breakpoints |
| `radix_page` | one conversion of 48 inputs for all pairs of radices, lengths and orders; two conversions, a saved history and two imports | conversions read back and are refused for misfits only; a saved history comes back; finished imports leave no errors behind |
| `text_page` | three conversions of 14 texts, saved and imported; every file of 3 pieces of 10, with its header and without | no result outlives its text; saved texts come back whatever is in them; errors name the line of their row |

**Bounds.** Two tasks: a task is alive after it cleared `_running` only to send
its events, so that a third differs from the second in nothing. Two triggers and
three slots (in `debug_view` programs have up to six slots): one request can
exhaust the triggers and be refused a line, and a later one can replace all of
them; a list that repeats a slot, or has a line without code, needs two lines. `SystemReads` is 10 in the code; 2 lets
the link break between two reads of one request. `MaxUnread` bounds break bytes
written to a stub that does not read; two in a row already arrive before,
within and after a resume. In `CharT` the sample holds the code points on both
sides of the boundaries between forms; a symbol is at most four trytes, so two
neighbours of the longest forms show every alignment a damaged lead can cause;
two changes are what it takes to get past one check trit. Five lines are enough
for code, `.data`, a datum of odd size, a label and a word that refers to it, or
for a full page and one line more; with trytes of -2..2 every range (one, two
and four trytes) is left by some program and every number fits TLC's integers.
Three lines are enough for a marker, its code and what comes between them, in
every order; the longer programs have a loop whose condition is emitted twice, a
marker without code, and a return to an earlier line. A wire of 8 bits is, as the
64 of the code, wider than a word of trits, so that values fit the one and not
the other. Two imports are what it takes to overlap; two edits give a history
with a record before and one after one that is lost.

**Symmetry** (tasks, slots) is used in `any_client` only, which checks no
temporal property.

**Fairness.** `FairSpec` assumes that an enabled thread of the adapter runs
(the .NET scheduler), for the request thread and each task, and that the stub
serves what it has received. Nothing is assumed of the program (it may run for
ever), of the client (it may ask nothing more) or of the simulator's death. A
detach waits until the program ends, so that `RequestAnswered` and
`SimulatorReaped` except a draining target.

**Deadlock** is checked in `DebugSession` and `CharT`, where `Finished` is the
only way to stop, and in `DebugView`; assembly ends with a program or an
exception, and a page is left when its bounds are used up.

## 4. Findings

- `PauseHalts` (`lost_pause`): `pause` writes the break byte as soon as it is
  read (`Dap/DebugSession.cs:130`), although the task that `StartResume`
  queued may not have written its `c` packet. The stub skips the byte between
  packets, resumes on `c`, and the acknowledged pause is lost.
  `PauseHaltsHart` shows that this is the only way: once the stub runs the
  target, every pause halts it.
- `SelfSynchronizing` (`chart_resync`): the decoder is said to skip to the
  next '+'-leading tryte after an error, but on a lead with too few trytes
  after it, it consumes all of the rest (`CharTu8Codec.cs:153`). `DamageIsLocal`
  states what does hold: at most the last two trytes of undamaged text are
  lost this way.
- `BranchesReachLabels` (`csr_label`): `ParseWide12` looks every name up among
  the CSRs before the labels (`Assembly/InstructionEncoder6.cs:234`), in the
  displacement of a branch too. Labels may not be register names, but five CSR
  names (`time`, `cycle`, `instret`, `cycleh`, `instreth`) are none: a branch to
  a label `time` is encoded as a jump by 0xC01 instructions.
- `PcRelativeReachesCode` (`data_branch`): the same encoder gives a two-way
  branch to a data label the label's tryte address as its displacement
  (line 241), while `docs/rebel6-isa.md` restricts PC-relative addressing to
  code symbols and `JAL.T` refuses them.

- `ForeignSourceUnarmed` (`foreign_source`): `HandleSetBreakpoints` takes every
  source that is not compiled into the program for the program itself
  (`Dap/DebugSession.cs:283`), although its comment gives that branch to the
  `.tas` only: breakpoints of an unrelated file are verified, and stop the
  target at the program's lines of the same numbers.

The passing properties exempt what the code does and no document contradicts
sharply enough to call it a finding; each exemption is part of the formula:

- the word -3^23 is shown in trits as a minus and zeros, which `TryParseValue`
  reads as the decimal 0 (`ShownReadsBack`); a value wider than a word can be
  written by a `setVariable` that is answered as failed (`FailedWriteIsWide`);
- `FormatTwosComplement` gives -2^(n-1), and values of 48 bits or more just below
  a power of two, a digit too many, so that they are refused at a fixed length
  that holds them (`RefusesOnlyMisfits`);
- a fixed length, which only an imported row can ask for there, pads Base64 and
  negative decimals with "0" (`OutputReadsBack`);
- an input pasted with a line break at its end is lost from a saved radix
  history (`SavedHistoryComesBack`);
- a decoded text recorded as "unknown" or "ambiguous (both codecs valid)"
  is refused when the saved charT history is imported, and a carriage return in
  a text breaks its record (`SavedTextsComeBack`);
- the marks of the sources that were not asked about last stay verified in the
  editor although their triggers are gone (`TriggersAreTheMarks`).

## 5. Proofs

`DebugSessionProofs.tla`, checked by TLAPS, for every set of tasks and slots,
every number of triggers and every bound:

- `TypeCorrect`: `Spec => []TypeOK`
- `ExchangesExclude`: `Spec => []ExclusiveExchange`

The only assumptions are those of `ConstantsAssumption`. Mutual exclusion on
the link is not inductive by itself, since nothing in it says why
`RequireHalted` keeps the request thread out. The invariant `IInv` adds:

- `InHandler`: a handler works on the request that was read (its script is the
  one its command built);
- `ConnectOnce`: `_rsp` is assigned by the first launch or attach only, when no
  task can exist;
- `RunningGuards`: `_running` is set while a task is inside its exchange, and
  `HandleDisconnect`'s copy of it is FALSE only when no task is.

`TypesPreserved`, `HandlersPreserved` and `ExchangePreserved` each show part of
`IInv` preserved, one step for each action; `Invariance` combines them. From the
same assumptions, for any client:

- `RepliesMatch`: `Spec => []NoCrossTalk`

`CInv` adds `LinkInv` (nothing is on the link before it is up, it is not up once
it was disposed, and every packet a handler exchanges is one that is answered).
What is owed is a cardinality, so the proof is an account: `PendingAppend` and
`PendingTail` say what a packet at the end or at the head of the stream counts,
and every action is one of `Quiet` (nothing changes), `Asked` (a packet is
written and its writer waits, whom `ExclusiveExchange` makes the only one),
`Answered` (a reply is taken by the one that waits), `Unasked` (a break or kill)
and `Conserved` (the stub moves what is owed from packet to run to reply).

From the invariants above, for any client:

- `BreakpointsHold`: `Spec => []TriggersMatch`

`BInv` follows `HandleSetBreakpoints` phase by phase. While the old breakpoints
are cleared, what the stub still holds is what a packet not yet served disarms
(`InStep`, `Disarms`); while the new ones are armed the stub holds the list, and
after an "ok" that was not read yet one more. `InFlight` ties the packets that
change a comparator to the handler that waits for them, which again rests on the
account of the link. The count in `TriggersMatch` follows from two bijections
(`SameNumber`).

And for a client that resumes only what it was told is stopped:

- `StoppedRests`: `Spec => []StoppedMeansHalted`
- `ContinueIsKept`: `Spec => ContinueResumes`
- `PromiseKept`: `Spec => KeepsPromise`, under `Disciplined`
- `AnswersAreSingle`: `Spec => AnsweredOnce`

`StoppedMeansHalted` is about the moment of the event, and what makes it true
happens long before, on three threads. `RInv` follows the one run a client asked
for: `StartUp`, `LinkEnds`, `ScriptFits` and `DetachIsLast` hold for any client
(how far its start-up is, what the end of the link says of the target, and that
only a step or a detach puts the target in motion from a handler);
`OneInHand` says that the adapter has at most one run in hand, from the request
through the resume task to the event, and none while the client was told
"stopped"; `OneAtTarget` says that the target moves, or a packet that moves it
is under way, only while somebody waits for the end of that run. The two need
each other and `NoCrossTalk`: that a reply read is the end of the run
(`AfterReply`) is where the account of the link is used. `StepKept` then takes
each action to a step of `RunControl` or a stutter; `Taken` shows that the stub
can take a permit only once, `Halts` that none is lost or gained meanwhile.
`AnswersAreSingle` needs, beyond `RInv`, that a step is answered by the end of
its run and by nothing else (`StepWaits`): an error reply would be answered a
second time.

### What is computed in a loop

The maps, layouts, files and digits of the models are recursive functions.
`DataInduction.tla` has what their proofs need. The library's induction theorems
take a formula as a parameter, which the provers cannot instantiate; those of
`DataInduction` are about a *set*: a proof names the set of numbers its claim
holds of, hides its definition, and shows that it has every number
(`IntervalInduction`, `NatInductionOnSets`, both from `LeastOf`, that is from
`NatLessThanWellFounded`). `Recursion` says that a function that is given by its
first value and a step exists; each recursive definition `f` gets a lemma
`...Unfolds` from it, and only that is used of `f`.

`ProgramAssembler6Proofs.tla`, for every set of source lines, every dictionary
of CSR and register names, every tryte width, page size and length of source:

- `TypeCorrect`: `Spec => []TypeOK`
- `LayoutDisjoint`: `Spec => []ImagesDisjoint`
- `NumbersAreReadBack`: `Spec => []NumbersReadBack`
- `LabelsResolve`: `Spec => []ReferencesResolve`

That the images do not overlap is a property of the finished program, and
nothing of it is visible before. Its invariant follows the counters that lead to
it: `DataInSequence` (each datum starts where the one before ends and
`dataOffset` is the end of the last; a `.word` is four trytes), `BaseAboveCode`
(the base is that of all instructions, and all are encoded before the data) and
`MemoryAsLaidOut` (each encoded datum is at base plus offset and fills its size,
which rests on the lemma `DatumFills` about `EncodeDatum`). `BaseIsAbove` is the
arithmetic of the rounding.

What the labels and the numbers mean is decided in the first pass and used in
the second. `MeaningInv` adds to that invariant: `SourceInv` (the
statements, the labels and the counts so far are those of the lines read, each
label with the count of what is above it: `LineAdded` and `OneLineMore` say what
one line adds), `LabelsPlaced` (before anything is encoded the data labels are
moved behind the instructions, once) and `ImagesMean` (each image encoded so far means what its line says). The last rests on what a field means
(`FieldMeans`, `WordMeans`): the balanced digits of a value, shifted and put
together again, are the value (`Encodes`, from the unfoldings of `Shifted` and
`Value`).

`DebugViewProofs.tla`, for every set of scenarios, sources, programs and
registers:

- `StartsMeant`: `ViewSpec => []StartsWhatWasMeant`
- `ViewInvHolds`: `ViewSpec => []ViewInv`
- `TriggersAreMarks`: `ViewSpec => []TriggersAreTheMarks`
- `SlidesDown`: `ViewSpec => []SlidesToNextCode`
- `StopsAtMark`: `ViewSpec => []StopsAtItsMark`

And, for every width of a register and of the wire, every word a program may
leave in a register and every text a user may type:

- `PanelInvHolds`: `ViewSpec => []PanelInv`
- `ShownIsReadBack`: `ViewSpec => []ShownReadsBack`
- `FailedWritesAreWide`: `ViewSpec => FailedWriteIsWide`
- `ViewTyped`: `ViewSpec => []ViewTypeOK`

`ViewInv` has four parts. `StartInv`: the configuration stays the one the
extension handed back, a process is the one of that configuration, and a session
fails only for want of a program or a simulator or by a malformed map.
`MapsInv`: the maps are those of the program from the launch on.
`BreakpointsInv`: every mark is an answer the adapter would give again, and what is
armed is what the last request left. `FrameInv`: a stop's frame is that of the slot it
stopped at. The properties about sliding
then follow from what the maps are: the loop that builds them is unfolded line
by line, and shows that a slot of a line is the first at or after it, that there
is none in between, and that a slot goes back to the line it was taken from.
`ViewStep` takes a step of the composition to one of `SourceView`. The
assumptions are `ScenariosAssumption` (a configuration has its fields; a program
is a sequence of lines), `PathsAssumption` (how paths are compared; an empty path is no
`.tas` file) and `BoundsAssumption` (a request is a sequence of line numbers).

`ShownReadsBack` says nothing of a panel that was shown in one format, written in
another and failed in between; `PanelInv` does. A text that is shown can be typed
and is read as the register's word if that fits a word, and a panel that failed
did so in every row, for a register that is too wide, so that nothing can be
written into it before it is asked for again. What is left is a fact about
rendering and reading, `RenderReads`, one lemma for each format: that the form of
a text alone tells the format (`NoTrits`, `NoOtherSign`), that the hexadecimal
digits of a magnitude are those of the wire's bits (`HexDigitsRead`) and that the
least value of the wire is its own negative (`HexReadsBack`). `PanelAssumption`
is about the widths: a register has at least two trits, since a text of one trit
is read as a decimal, a word fits the wire, the wire has whole hexadecimal digits,
and what a program leaves in a register is a word.

`RadixConverterProofs.tla`, for every value, every text, every fixed length and
every precision of a double:

- `ConversionReadsBack`: what `Convert` makes of a text, if it does not refuse it,
  reads back in the other radix, in the order of its digits, as the value of the
  text.

Digits are weighed in a loop and expanded in another; both are unfolded once
(`WeighUnfolds`, `ExpandUnfolds`, `BalancedUnfolds`), and by induction on the
value the second undoes the first and is as long as the value needs
(`ExpandWeighs`, `BalancedWeighs`). Each radix has then a lemma about its signs
and its padding (`UnsignedFormats`, `ComplementFormats`, `TwosFormats`,
`ThreesFormats`, `BalancedFormats`, `DecimalFormats`), and `FormatReads` puts them
together with the fixed lengths and the order of the digits. That binary two's
complement may be one digit longer than it needs to be, where the logarithm of a
double rounds up, is in `LogLengthIs`.

`RadixPageProofs.tla`, for every set of trials:

- `PageInvHolds`: `Spec => []PageInv`
- `PageTyped`: `Spec => []TypeOK`
- `ErrorsAreOfOneImport`: `Spec => []ErrorsOfOneImport`
- `HistoryComesBack`: `Spec => SavedHistoryComesBack`
- `OutputsReadBack`: `Spec => []OutputReadsBack`
- `RefusalsAreMeant`: `Spec => []RefusesOnlyMisfits`

`PageInv` is `SettingsInv` (settings that the radices offer), `ListsInv` (what
the files, the history and the imports are lists of) and `ErrorsInv` (the list
has the errors of each import it mentions in full, and an import that began
while another was being read says so). `SavedInv` says that a saved file has
the rows `Serialize` gives for the records it was saved from. An import converts again, so that
the theorem also needs that each record is what `Convert` gives for its columns
(`Records`). The rest is induction over the rows of the file
(`SavedRows`): after the rows of the first k records, `InOrder` has rebuilt
`Kept` of them, and two rows were skipped for each record that is lost.

`CharTProofs.tla`, for every set of trials, so for every text of Unicode scalar
values of any length, through either codec:

- `TypeCorrect`: `Spec => []TypeOK`
- `TextsComeBack`: `Spec => []RoundTrip`
- `SingleErrorsAreReported`: `Spec => []SingleErrorReported`
- `LossesAreReported`: `Spec => []LossReported`
- `DamageStaysLocal`: `Spec => []DamageIsLocal`
- `EncodingIsCanonical`: `Spec => []Canonical`

All rest on what one symbol is. `FormEncodes` says where the trits of a payload
stand, `PayloadReadsBack` that they are taken out again, `OffsetReadsBack` and
`DigitsReadBack` that an offset and its digits determine each other, `OneForm`
that a scalar value has one form, and `TablePairs` that the one-tryte tables pair
code points and trytes one to one. With `MarkersAreRead` every symbol is then read
as what it was made of (`SymbolDecodes`) and every symbol that is taken without a
report is the one that would have been written (`SymbolCanonical`). Invariants
carry this over to texts:

- `Typed`: the types, and that nothing is read before transit is over.
- `Received`, `LinesAre`: what the trytes are the concatenation of, and which
  lines are as they were sent.
- `DamageShows`, `ReadDivisible`: in charTC_u8 the total of all trits is divisible
  by three unless one trit was misread, and what Decode has taken without a report
  is, in whatever symbols it has cut it. The two together refute a clean end.
- `InStepUntilDamage`: up to the first damaged line the output is the text so
  far, the index is where a line begins, and nothing has been reported. At a line
  that lost a tryte every step reports (`LossStep`): either a tryte that cannot
  continue a symbol comes too early, or the input ends.
- `ResyncsAfterDamage`: Decode is still at the damaged line, or is back where a
  line begins and has put out all lines in between, or has at most two trytes
  left. A symbol with valid continuations never reaches beyond the damaged
  line, because the next line begins with a leading tryte (`StaysInLine`).
- `ReadCanonical`: as long as nothing is reported, what was read agrees with the
  encoding of what was put out.

The only assumption is `ConstantsAssumption` (texts are of Unicode scalar values).

`CharTPageProofs.tla`, for every set of texts and files:

- `ShownBelongs`: `Spec => []ShownIsOfTheText`, for every pair of codecs.
- `PageTyped`: `Spec => []TypeOK`
- `ErrorsNamed`: `Spec => ErrorsAtTheirLines`
- `SavedRecordsReturn`: `Spec => SavedTextsComeBack`

The first is inductive once the direction is known to be one of two. The others
assume of the codecs only what their signatures say (`CodecsTyped`): for every
text they give a text and a number of errors. They rest on `PageInv`: every record
of the history has one of the forms that `Convert` or an import makes (`Made`), and
a file with a saved history is what `Serialize` made of it. Each scan of `CharTCsv`
is unfolded once into a sequence of states (`ConcatUnfolds`, `ScanUnfolds`,
`SplitUnfolds`, `PickedUnfolds`) and the results about it are inductions over an
interval. `ErrorsNamed` follows from `ScannedTo`: after k tokens the record being
read begins at a place behind a line feed, with `start - 1` line feeds before it, its
text is what the file holds from there, and each finished record is at its line.

`SavedRecordsReturn` is an induction over the saved records (`SavedComesBack`): the
file of one record more is the file so far and one row (`SerializeOfAppend`). Both
scanners look one token ahead at a doubled quotation mark, so what they make of a
text is not a function of what they made of all but its last token. They are first
shown to equal scans that do not look ahead: `ScanOfAppend` takes the second mark
as an opening one (`Fed`), `SplitIsCut` as one that belongs to the field just closed
(`Cut`). With these a row is read a token at a time:

- `RowScanned`: behind each row the scan of records is between rows again, outside
  quotes, whatever is in its texts. Without a carriage return in them exactly one
  record more has been read, and its text is the row without its line feed.
- `BodySplit`, `BodyParsed`: the split of that text gives the input and the encoding
  as they were before `EscapeField`; the row is valid just if its encoding is one of
  the four. `RerunRestores`: the conversion done again makes of them `Restored`.
- A row with a carriage return may become any number of records. `RecordsGrow`: what
  was read before stays, so the records that came back remain a subsequence
  (`BrokenRowPassed`).
- `JudgedOfAppend`: one record more in the file is one record of the import more, or
  one error, or a blank line, and changes nothing before it.

**Model-checked only.** The liveness properties and everything under fairness: of
`DebugSession` nothing else, since all its safety and action properties and the
refinement are proved; of `CharT` and `CharTPage` nothing at all.

## 6. What is not modelled

- JSON framing and malformed DAP messages; `ReadMessage` throws outside the
  handlers' `catch` and ends the process.
- RSP below the packet: framing, checksums, and the acknowledgements before
  `QStartNoAckMode`. The link is a loopback TCP connection, which neither loses
  nor reorders; the code has no retransmission whose order could matter.
- Of the variables view the system registers and the row of pc (shown in
  decimal in every format); `evaluate` is in `DebugSession` as exchanges only.
- Assembly text below the line (comments, separators), pseudo-instructions,
  opcodes, the disassembler, and REBEL-2's one-page assembler: tables, without
  state. `AssemblyCsvSerializer` and the assembler's page follow the pattern of
  the charT tool.
- `ConvertBct` and the rest of the command line: one call each, no state.
- Wording and rendering.
- JavaScript: the project's own is `vscode-rebel6/extension.js`, modelled in
  `SourceView`. All other script files in the repository
  (`TernaryWorkbench.Web/bin/Release/**/dotnet*.js`, `blazor.webassembly*.js`,
  `wwwroot/lib/bootstrap/`) are published build output of the .NET runtime and
  third-party libraries, not code of this project; its program is in C# and
  Razor.

## 7. Plan

1. `PageParser`: REBEL-2's pending labels, as a sibling of `ProgramAssembler6`.
2. `InstructionCodec6`: fields, pseudo-instructions, disassembly; decode
   inverts encode.
3. The assembler's page and its file, on the pattern of `CharTPage`.
