CONSTANTS
  p1 = p1
  p2 = p2
  alice = alice
  bob = bob
  r1 = r1
  r2 = r2
  NoPerson = NoPerson
  NoAlloc = NoAlloc
  KeepPerson = KeepPerson
  Positions = {p1, p2}
  Persons = {alice}
  Requests = {r1, r2}
  MaxVersion = 3
  Allocs = {60}
  InitiallyActive = {alice}
  Required <- MCRequired
SPECIFICATION Spec
SYMMETRY MCSymmetry
INVARIANTS TypeOK VersionNamesContent UnfilledHasNoHolder
PROPERTIES AuditTrailExact ReleasedIsFinal ImplementsLifecycle
CHECK_DEADLOCK FALSE
