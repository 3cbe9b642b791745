CONSTANTS
  e1 = e1
  e2 = e2
  e3 = e3
  Events = {e1, e2, e3}
  Handled = {e1, e2}
  BatchSize = 2
  MaxAttempts = 3
  MaxSends = 2
  MaxFaults = 2
SPECIFICATION Spec
INVARIANTS TypeOK DuplicatesNeedFaults OnlyFaultsLoseEvents PublishedWasHandled
PROPERTIES SettledIsFinal HandledEventsSettle
CHECK_DEADLOCK FALSE
