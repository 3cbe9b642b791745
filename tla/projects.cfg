CONSTANTS
  p1 = p1
  c1 = c1
  c2 = c2
  Projects = {p1}
  Commands = {c1, c2}
  PatchStatuses = {"DRAFT", "PENDING_APPROVAL", "ACTIVE"}
  MaxApprovals = 2
  MaxTokens = 2
  MaxVersion = 6
SYMMETRY TwoCommands
SPECIFICATION Spec
INVARIANTS TypeOK PendingHasOneOpen SecondReopenNeedsDoubleClick
PROPERTIES DecisionIsFinal
CHECK_DEADLOCK FALSE
