SPECIFICATION Spec
CONSTANTS
  Trials <- AllTrials
  ExactLog = 6
INVARIANTS
  TypeOK
  OutputReadsBack
  RefusesOnlyMisfits
  ErrorsOfOneImport
PROPERTIES
  SavedHistoryComesBack
CHECK_DEADLOCK FALSE
