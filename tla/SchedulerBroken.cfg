CONSTANTS
  NoRow = NoRow
  r1 = r1
  r2 = r2
  c1 = c1
  c2 = c2
  Recs = {r1, r2}
  Clients = {c1}
  Schedules <- Daily
  Dues <- PastDue
  Edits <- NoEdits
  MaxTime = 4
  MaxRequests = 2
  MaxCrashes = 0
  BrokenDefaults = TRUE
  MayDelete = FALSE
SPECIFICATION Spec
PROPERTY FailureIsolated
