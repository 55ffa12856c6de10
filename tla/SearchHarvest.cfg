\* Two ticks on short lists; up to four ticks stop early and, on lists of one page, a fetch fails.
CONSTANTS
  t1 = t1  t2 = t2  a = a  b = b  s = s  u = u  n = n  None = None
  Tick = {t1, t2}
  Owner = t1
  Row = {a, b, s, u, n}
  Linked = {a, b, s, n}
  Keyed = {a, b, s}
  Matched = {a, s}
  Others = {a}
  Stuck = {s}
  Blank = {n}
  Lists <- MCLists
  Cap = 5
  Tolerated = 1
  Limit = 5
SPECIFICATION FairSpec
INVARIANTS TypeOK NotTwice CountedOnce DoneHasAll GapNamed
PROPERTIES Rests 
