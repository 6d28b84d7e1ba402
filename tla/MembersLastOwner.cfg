CONSTANTS
  None = None
  ann = ann
  bob = bob
  cy = cy
  t1 = t1
  t2 = t2
  t3 = t3
  k1 = k1
  k2 = k2
  Users = {ann, bob}
  Teams = {t1, t2}
  Keys = {k1, k2}
  Sessions = {s1, s2}
  Starts <- OnePair
  Ops = {"change"}
  MaxRequests = 2
  MayCrash = FALSE
SPECIFICATION Spec
INVARIANT OwnerRemains
CHECK_DEADLOCK FALSE
