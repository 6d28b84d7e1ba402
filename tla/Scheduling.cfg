CONSTANTS
  NoRow = NoRow
  r1 = r1
  r2 = r2
  c1 = c1
  c2 = c2
  Recs = {r1, r2}
  Clients = {c1, c2}
  Schedules <- Daily
  Dues <- PastDue
  Edits <- PausesAndSchedules
  MaxTime = 3
  MaxRequests = 3
  MaxCrashes = 1
  BrokenDefaults = FALSE
  MayDelete = TRUE
SPECIFICATION Spec
INVARIANT TypeOK
PROPERTY OnlyOvertakenEditsRepeat
PROPERTY SpawnsAdvance
PROPERTY DueIsSpawned
PROPERTY TickEnds
