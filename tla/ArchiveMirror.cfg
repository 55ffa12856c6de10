\* A promotion run, two mirror workers, two judgments, a local disk and a batched folder, and one
\* fault anywhere.
CONSTANTS
  q1 = q1  w1 = w1  w2 = w2  None = None
  Mirror = mirror
  Key = {mirror}
  Proc <- MCProc
  Promoter = {q1}
  Worker <- MCWorker
  Judgment = {j1, j2}
  Target = {local, drive}
  Batched = {drive}
  Newest = 1
  Quota = 1
  Threshold = 2
  MaxFaults = 1
SPECIFICATION FairSpec
INVARIANTS TypeOK CopyAskedFor
PROPERTIES UploadedOnce EveryCopyMade
