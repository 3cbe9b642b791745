CONSTANTS
  p1 = p1
  p2 = p2
  alice = alice
  bob = bob
  r1 = r1
  r2 = r2
  NoPerson = NoPerson
  NoAlloc = NoAlloc
  KeepPerson = KeepPerson
  Positions = {p1, p2}
  Persons = {alice, bob}
  Requests = {r1}
  MaxVersion = 4
  Allocs = {60}
  InitiallyActive = {alice, bob}
  Required <- MCRequired
SPECIFICATION Spec
SYMMETRY MCSymmetry
INVARIANTS LoadPerRequest
CHECK_DEADLOCK FALSE
