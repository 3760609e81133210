SPECIFICATION Spec
CONSTANTS
  EncodeU8 <- Encode8
  EncodeUc <- EncodeC
  DecodeU8 <- Decode8
  DecodeUc <- DecodeC
  Trials <- AllTrials
INVARIANTS
  TypeOK
  ShownIsOfTheText
PROPERTIES
  SavedTextsComeBack
  ErrorsAtTheirLines
CHECK_DEADLOCK FALSE
