SPECIFICATION ViewSpec
CONSTANTS
  FullPath <- Paths
  Scenarios <- StartScenarios
  Sources <- AllSources
  Requests <- AllRequests
  TasFiles = {"prog.tas"}
  Dlls = {"adapter.dll"}
  Triggers = 4
  MaxRequests = 1
  ExactLog = 48
  Registers = {"a0", "a1"}
  Left <- AllLeft
  WordSizeTrits = 3
  WireBits = 8
  Typed <- AllTyped
INVARIANTS
  ForeignSourceUnarmed
