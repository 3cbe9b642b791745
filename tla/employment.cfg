CONSTANTS
  p1 = p1
  p2 = p2
  alice = alice
  bob = bob
  r1 = r1
  h1 = h1
  NoPerson = NoPerson
  NoAlloc = NoAlloc
  KeepPerson = KeepPerson
  Positions = {p1, p2}
  Persons = {alice}
  Requests = {r1}
  MaxVersion = 4
  HrCommands = {h1}
  Allocs = {}
  InitiallyActive = {alice}
  Required <- MCRequired
SPECIFICATION EmploymentSpec
SYMMETRY MCSymmetry
INVARIANTS EmploymentTypeOK ProgressIsKept TerminatedHoldsOnlyLate
CHECK_DEADLOCK FALSE
