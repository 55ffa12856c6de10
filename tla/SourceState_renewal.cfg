\* A grid job that stores the cookies of its browser, the recovery pass, an operator who signs in
\* meanwhile, and an administrator who reviews blocks and uses the slots' buttons.
CONSTANTS
  g1 = g1  g2 = g2  h1 = h1  h2 = h2  wk = wk  rc = rc  op = op
  Worker = {g1, rc, op}
  None = None
  Slot = {1}
  Kind <- MCKindOf
  Own <- MCOwnOf
  AdminActs = {"review", "slot"}
  MaxLogins = 1
SPECIFICATION Spec
PROPERTIES RenewalKeepsLogin SlotHaltSticks
