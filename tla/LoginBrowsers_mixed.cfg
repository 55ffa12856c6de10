\* An unsharded grid job, a search-harvest tick, the case-ID walk and the recovery pass, with
\* yields and releases that fail between the two locks.
CONSTANTS
  s1 = s1  s2 = s2  h1 = h1  h2 = h2  pl = pl  wk = wk  sp = sp  kp = kp  rc = rc
  Worker = {pl, h1, wk, rc}
  None = None
  Left = Left
  Slot = {1, 2}
  Kind <- MCKindOf
  Own <- MCOwnOf
  Outside <- MCOutside
  Concurrency = 2
  HumanLogins = FALSE
  Boots = FALSE
  Yields = TRUE
  RedisFails = TRUE
SPECIFICATION Spec
INVARIANTS SeenAtWork
