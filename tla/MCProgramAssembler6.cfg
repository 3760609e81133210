CONSTANTS
  Lines <- AllLines
  CsrNumber <- Csr
  RegisterNumber <- Register
  TryteMax = 2
  PageInstructionCount = 3
  MaxLines = 5
SPECIFICATION Spec
INVARIANTS TypeOK ReferencesResolve NumbersReadBack ImagesDisjoint
\* Assembly ends with a program or an exception.
CHECK_DEADLOCK FALSE
