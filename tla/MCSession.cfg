\* Fair schedules of a client that resumes only a target it was told is
\* stopped.
CONSTANTS
  Task = {t1, t2}
  Address = {a1}
  NumTriggers = 1
  SystemReads = 2
  Lines <- OneLine
  MaxUnread = 3
  Disciplined = TRUE
SPECIFICATION FairSpec
INVARIANT StoppedMeansHalted
PROPERTIES
  ContinueResumes AnsweredOnce KeepsPromise
  RequestAnswered StopReported LossReported SimulatorReaped PauseHaltsHart
