CONSTANTS
  None = None
  ann = ann
  bob = bob
  cy = cy
  t1 = t1
  t2 = t2
  t3 = t3
  k1 = k1
  k2 = k2
  Users = {ann, bob, cy}
  Teams = {t1, t2, t3}
  Keys = {k1, k2}
  Sessions = {s1, s2}
  Starts <- EmptyOrStaffed
  Ops = {"setup", "add", "change", "create_team", "rotate"}
  MaxRequests = 3
  MayCrash = TRUE
SPECIFICATION Spec
INVARIANT TypeOK
INVARIANT AnswersUsable
PROPERTY LastOwnerStays
PROPERTY AddKeepsRole
PROPERTY KeyStaysKnown
PROPERTY RequestsEnd
CHECK_DEADLOCK FALSE
