SPECIFICATION Spec
CONSTANTS
  q1 = q1
  q2 = q2
  q3 = q3
  Requests = {q1, q2}
  Bodies = {b1, b2}
  NoRequest = NoRequest
INVARIANTS FailedRowIsClean
CHECK_DEADLOCK FALSE
