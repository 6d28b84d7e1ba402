CONSTANTS
  None = None
  NoRow = NoRow
  p1 = p1
  c1 = c1
  c2 = c2
  n1 = n1
  n2 = n2
  n3 = n3
  q1 = q1
  q2 = q2
  q3 = q3
  q4 = q4
  u1 = u1
  u2 = u2
  todo = todo
  doing = doing
  done = done
  dropped = dropped
  Issues = {p1, c1, c2, n1}
  Projects = {}
  Users = {u1, u2}
  States = {todo, doing, done, dropped}
  TypeOf <- MCTypeOf
  TriageKeys <- MCTriageKeys
  Sessions = {s1}
  Rules <- Limits
  InitRows <- Backlog
  Patches <- MovesOrLeaves
  InitProjects = {}
  NewItems <- NewAny
  Filters <- ActiveOnly
  Ops = {"update", "batch", "create", "batch_create", "delete"}
  MaxRequests = 3
  MayCrash = FALSE
SPECIFICATION Spec
INVARIANTS WipRespected TwoChildrenRespected
PROPERTIES ServesBoard OnlyValidMoves
CHECK_DEADLOCK FALSE
