CONSTANTS
  Cap = 1
  InMax = 2
  OutMax = 2
  Codes = {0, 255}
  Signalled = Signalled
SPECIFICATION PtyFairSpec
INVARIANTS PtyTypeOK OutputIsPassed StatusIsChilds NobodyIsLeftBehind
PROPERTIES EndIsSeen
CHECK_DEADLOCK FALSE
