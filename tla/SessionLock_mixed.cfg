\* The base lock of a login: shared by two shards, exclusive for everything else; two processes of one host.
CONSTANTS
  p1 = p1  p2 = p2  p3 = p3  h1 = h1  h2 = h2
  Proc <- MCTwo
  Host <- MCOneHost
  HostOf <- MCOneHostOf
  Nonce = {1, 2, 3}
  None = None
  Form = {"exclusive", "shared"}
  LockTTL = 2
  AliveTTL = 1
  HeartbeatReliable = FALSE
SPECIFICATION FairSpec
INVARIANTS TypeOK Exclusion
PROPERTIES PlaceFreed ImplementsLease
