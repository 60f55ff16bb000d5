CONSTANTS
  Chars = {x, FF}
  FF = FF
  OSize = 3
  Chunk = 2
  Cap = 2
  Back = 2
  Room = 2
  AnswerCap = 1
  MaxPut = 5
  Lives = 2
SPECIFICATION FairSpec
INVARIANTS StreamTypeOK NothingIsLost PutbackIsTrue NothingIsStuck
PROPERTIES SendReturns
CHECK_DEADLOCK FALSE
