CONSTANTS
  Lines <- AllLines
  CsrNumber <- Csr
  RegisterNumber <- Register
  TryteMax = 2
  PageInstructionCount = 3
  MaxLines = 4
SPECIFICATION Spec
INVARIANTS PcRelativeReachesCode
\* Assembly ends with a program or an exception.
CHECK_DEADLOCK FALSE
