\* A pass and two workers: a process dies, with its task or with the mark it has just set, or Redis
\* fails once.  An item may keep a live worker silent, so that a second job starts beside it.
CONSTANTS
  Process = {p1, p2}
  Pass = {d1}
  Task = {t1, t2, t3}
  Job = {j1, j2}
  None = None
  Manual = FALSE
  Stalls = FALSE
  SlowItems = TRUE
  MaxTroubles = 1
SPECIFICATION FairSpec
INVARIANT OneFresh
PROPERTY DueRuns
