SPECIFICATION ViewSpec
CONSTANTS
  FullPath <- Paths
  Scenarios <- AllScenarios
  Sources <- AllSources
  Requests <- AllRequests
  TasFiles = {"prog.tas"}
  Dlls = {"adapter.dll"}
  Triggers = 2
  MaxRequests = 2
  ExactLog = 48
  Registers = {"a0", "a1"}
  Left <- AllLeft
  WordSizeTrits = 3
  WireBits = 8
  Typed <- AllTyped
INVARIANTS
  ViewTypeOK
  StopsAtItsMark
  SlidesToNextCode
  TriggersAreTheMarks
  StartsWhatWasMeant
  ShownReadsBack
PROPERTIES
  FailedWriteIsWide
