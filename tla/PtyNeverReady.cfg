CONSTANTS
  Cap = 1
  InMax = 0
  OutMax = 0
  Codes = {0, 1, 255}
  Signalled = Signalled
SPECIFICATION PtyFairSpec
PROPERTIES WaitForChildEnds
CHECK_DEADLOCK FALSE
