CONSTANTS
  l1 = l1
  l2 = l2
  l3 = l3
  ann = ann
  annual = annual
  sick = sick
  h1 = h1
  h2 = h2
  Leaves = {l1, l2, l3}
  Persons = {ann}
  Accounts = {annual, sick}
  Handlers = {h1, h2}
  Owner <- MCOwner
  Account <- MCAccount
  First <- MCFirst
  Last <- MCLast
  MaxCrashes = 1
SPECIFICATION Spec
INVARIANTS TypeOK BalanceExplained DayBookedPerHandler DecidedPerHandler
PROPERTIES ReconciledWhenClean
CHECK_DEADLOCK FALSE
