\* Both grid shards and the hourly keepalive, with human logins, worker restarts and Redis errors.
CONSTANTS
  s1 = s1  s2 = s2  h1 = h1  h2 = h2  pl = pl  wk = wk  sp = sp  kp = kp  rc = rc
  Worker = {s1, s2, kp}
  None = None
  Left = Left
  Slot = {1, 2}
  Kind <- MCKindOf
  Own <- MCOwnOf
  Outside <- MCOutside
  Concurrency = 2
  HumanLogins = TRUE
  Boots = TRUE
  Yields = FALSE
  RedisFails = TRUE
SPECIFICATION Spec
INVARIANTS OneBrowser UnderItsLock
