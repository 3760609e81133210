\* Any client: continue, step, pause and disconnect in every order.
CONSTANTS
  Task = {t1, t2}
  Address = {a1, a2, a3}
  NumTriggers = 2
  SystemReads = 2
  Lines <- AnyLines
  MaxUnread = 2
  Disciplined = FALSE
SPECIFICATION Spec
SYMMETRY Symmetry
INVARIANTS TypeOK ExclusiveExchange NoCrossTalk TriggersMatch
