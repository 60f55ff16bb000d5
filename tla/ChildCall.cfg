CONSTANTS
  Cap = 1
  InMax = 2
  OutMax = 2
SPECIFICATION CallFairSpec
INVARIANTS CallTypeOK OutputIsComplete NotCutOff
PROPERTIES CallReturns
CHECK_DEADLOCK FALSE
