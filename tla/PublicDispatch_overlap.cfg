\* Two passes of the dispatcher and two workers, two deaths or Redis errors, and the administrator.
CONSTANTS
  Process = {p1, p2}
  Pass = {d1, d2}
  Task = {t1, t2, t3}
  Job = {j1, j2, j3}
  None = None
  Manual = TRUE
  Stalls = TRUE
  SlowItems = FALSE
  MaxTroubles = 2
SYMMETRY MCAlike
SPECIFICATION Spec
INVARIANTS TypeOK OneJob
PROPERTY NoDuplicateRun
