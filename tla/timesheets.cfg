SPECIFICATION Spec
CONSTANTS
  w1 = w1
  s1 = s1
  s2 = s2
  q1 = q1
  q2 = q2
  Weeks = {w1}
  Slots = {s1, s2}
  Requests = {q1, q2}
  WeekOf <- MCWeekOf
  Hours = {1, 2}
  MaxPerWeek = 3
SYMMETRY Symmetry
INVARIANTS TypeOK TotalsMatchUnlessRaced
PROPERTIES ApprovedIsFinalUnlessRaced LockStopsSaves
