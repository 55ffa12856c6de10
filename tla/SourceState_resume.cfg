\* A grid job, the recovery pass, and an administrator who pauses, resumes and reviews.
CONSTANTS
  g1 = g1  g2 = g2  h1 = h1  h2 = h2  wk = wk  rc = rc  op = op
  Worker = {g1, rc}
  None = None
  Slot = {1, 2}
  Kind <- MCKindOf
  Own <- MCOwnOf
  AdminActs = {"pause", "resume", "review"}
  MaxLogins = 1
SPECIFICATION FairSpec
PROPERTY PausedResumes
