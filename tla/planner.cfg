CONSTANTS
  p1 = p1
  alice = alice
  bob = bob
  r1 = r1
  s1 = s1
  a1 = a1
  a2 = a2
  NoPerson = NoPerson
  NoAlloc = NoAlloc
  KeepPerson = KeepPerson
  NoScenario = NoScenario
  Positions = {p1}
  Persons = {alice, bob}
  Requests = {r1}
  Scenarios = {s1}
  Planners = {a1, a2}
  MaxVersion = 4
  MaxApplied = 3
  Allocs = {60}
  InitiallyActive = {alice, bob}
  Required <- MCRequired
  Proposals <- MCProposals
SPECIFICATION PlannerSpec
SYMMETRY MCSymmetry
INVARIANTS PlannerTypeOK ConsumedIsArchived OneApplyPerRequest
CHECK_DEADLOCK FALSE
