\* A listing that names two documents, one of them deadly, on three kinds of site.
CONSTANTS
  l1 = l1  d1 = d1  d2 = d2  None = None
  Seed = {l1}
  Document = {d1, d2}
  Links <- MCLinks
  Poison = {d2}
  Sites <- MCSites
  Limit = 2
  Retries = 1
  Lives = 3
  Patience = 3
  Blanks = 2
  MaxAttempts = 2
  MaxFaults = 2
SPECIFICATION FairSpec
INVARIANTS TypeOK DoneIsDone BlockObeyed
PROPERTIES DeadlyRowKilled EveryDocumentSettles
