\* The tick lock of a search-harvest slot: exclusive, with an identity and dead-holder
\* takeover, on two hosts whose heartbeat threads keep their period.
CONSTANTS
  p1 = p1  p2 = p2  p3 = p3  h1 = h1  h2 = h2
  Proc <- MCProc
  Host <- MCHost
  HostOf <- MCHostOf
  Nonce = {1, 2}
  None = None
  Form = {"tracked"}
  LockTTL = 2
  AliveTTL = 2
  HeartbeatReliable = TRUE
SPECIFICATION FairSpec
INVARIANT LeaseHonoured
PROPERTY OrphanFreed
