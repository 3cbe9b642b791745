SPECIFICATION Spec
CONSTANTS
  p1 = p1
  p2 = p2
  i1 = i1
  i2 = i2
  i3 = i3
  c1 = c1
  c2 = c2
  Approvals = {i1, i2, i3}
  Commands = {c1, c2}
  People = {p1, p2}
  Amounts = {0, 1}
  NoAmount = NoAmount
  NoOne = NoOne
SYMMETRY Symmetry
INVARIANTS TypeOK PendingPerCommand ApprovedIsApplied
PROPERTIES DecisionIsFinalUnlessRaced
