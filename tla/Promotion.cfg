\* Two workers, a fetch job, a reviewer and one fault; one or two pages at a time, in eight casts.
CONSTANTS
  j1 = j1  w1 = w1  w2 = w2  v1 = v1  None = None
  pls = pls  lhc = lhc  All = all
  stub = stub  fuller = fuller  chrome = chrome  plain = plain  brief = brief  order = order  report = report  second = second
  bare = bare  short = short  twice = twice
  c1 = c1  c2 = c2  c3 = c3  k1 = k1  k2 = k2  t1 = t1  t2 = t2  t3 = t3  t4 = t4  t5 = t5
  Source = {pls, lhc}
  Key = {pls, lhc, all}
  Proc <- MCProc
  Job = {j1}
  Worker = {w1, w2}
  Reviewer = {v1}
  Reports = pls
  Page <- MCPage
  Info <- MCInfo
  Arrivals <- MCArrivals
  Limit = 2
  Reserved = 1
  MaxItems = 1
  MaxFaults = 1
SPECIFICATION FairSpec
INVARIANTS TypeOK RowAskedFor CaseOnce QuarantineSeen
PROPERTIES DecidedOnce NeverPoorer EveryRowDecided
