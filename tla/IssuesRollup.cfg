CONSTANTS
  None = None
  NoRow = NoRow
  p1 = p1
  c1 = c1
  c2 = c2
  n1 = n1
  n2 = n2
  n3 = n3
  q1 = q1
  q2 = q2
  q3 = q3
  q4 = q4
  u1 = u1
  u2 = u2
  todo = todo
  doing = doing
  done = done
  dropped = dropped
  Issues = {p1, c1, c2}
  Projects = {}
  Users = {u1, u2}
  States = {todo, doing, done, dropped}
  TypeOf <- MCTypeOf
  TriageKeys <- MCTriageKeys
  Sessions = {s1, s2}
  Rules <- NoRules
  InitRows <- Family
  Patches <- Moves
  InitProjects = {}
  NewItems <- NoItems
  Filters <- NoFilters
  Ops = {"update"}
  MaxRequests = 3
  MayCrash = FALSE
SPECIFICATION Spec
INVARIANT RollupNotLost
PROPERTIES RollupEventually StaleColumnsNeverWritten
CHECK_DEADLOCK FALSE
