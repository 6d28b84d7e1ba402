CONSTANTS
  None = None
  f1 = f1
  f2 = f2
  f3 = f3
  w1 = w1
  w2 = w2
  l1 = l1
  l2 = l2
  l3 = l3
  l4 = l4
  l5 = l5
  i1 = i1
  i2 = i2
  b1 = b1
  b2 = b2
  r1 = r1
  r2 = r2
  r3 = r3
  red = red
  blue = blue
  text = text
  one = one
  two = two
  Slots = {s1, s2}
  Issues = {i1, i2}
  InitIssues = {i1}
  Workloads <- Work
  MaxRequests = 3
  Fragments = {f1, f2, f3}
  Works = {w1, w2}
  Links = {l1, l2, l3, l4, l5}
  Columns = {text}
  Values = {one, two}
  InitFragments <- TwoFragments
  InitWorks <- OneWork
  InitLinks <- TwoLinks
  FragmentPatches <- Texts
  WorkPatches <- Moves
  Labels = {b1, b2}
  Names = {red, blue}
  Rules = {r1, r2, r3}
  Effects <- Actions
  InitLabels <- OneLabel
  InitRules <- TwoRules
  RulePatches <- Edits
  Changing = {TRUE}
SPECIFICATION Spec
INVARIANT TypeOK
INVARIANT AnswersTruthful
INVARIANT FinishedDated
INVARIANT AuditReplays
INVARIANT AttachmentsAnchored
INVARIANT TagsNeverCollide
PROPERTY ServesGraph
PROPERTY RequestsEnd
CHECK_DEADLOCK FALSE
