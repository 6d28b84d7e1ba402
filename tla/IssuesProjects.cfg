CONSTANTS
  None = None
  NoRow = NoRow
  p1 = p1
  c1 = c1
  c2 = c2
  n1 = n1
  n2 = n2
  n3 = n3
  q1 = q1
  q2 = q2
  q3 = q3
  q4 = q4
  u1 = u1
  u2 = u2
  todo = todo
  doing = doing
  done = done
  dropped = dropped
  Issues = {p1, c1, n1, n2, n3}
  Projects = {q1, q2, q3, q4}
  Users = {u1, u2}
  States = {todo, doing, done, dropped}
  TypeOf <- MCTypeOf
  TriageKeys <- MCTriageKeys
  Sessions = {s1, s2}
  Rules <- Effects
  InitRows <- Filed
  Patches <- Refile
  InitProjects = {q1}
  NewItems <- NewFiled
  Filters <- NoFilters
  Ops = {"update", "create", "create_project", "convert", "delete", "delete_project"}
  MaxRequests = 3
  MayCrash = FALSE
SPECIFICATION Spec
INVARIANT ReferencesIntact
PROPERTIES StaleColumnsNeverWritten RequestsEnd
CHECK_DEADLOCK FALSE
