CONSTANTS
  Lines <- AllLines
  CsrNumber <- Csr
  RegisterNumber <- Register
  TryteMax = 2
  PageInstructionCount = 3
  MaxLines = 3
SPECIFICATION Spec
INVARIANTS BranchesReachLabels
\* Assembly ends with a program or an exception.
CHECK_DEADLOCK FALSE
