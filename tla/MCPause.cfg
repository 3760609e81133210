CONSTANTS
  Task = {t1}
  Address = {a1}
  NumTriggers = 1
  SystemReads = 1
  Lines <- NoLines
  MaxUnread = 2
  Disciplined = TRUE
SPECIFICATION FairSpec
PROPERTIES PauseHalts
