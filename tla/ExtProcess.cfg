CONSTANTS
  cat = cat
  tool = tool
  odd = odd
  mute = mute
  lost = lost
  NoProc = NoProc
  Procs = {cat, tool, odd, mute, lost}
  Program <- MCProgram
  Sought <- MCSought
  Images <- MCImages
  Closed = {"stdin"}
  Pausable = {cat}
  Unread = {"a b"}
  Misread <- MCMisread
  MaxForks = 2
SPECIFICATION Spec
INVARIANTS ExtTypeOK SearchIsRight FindsItsPipes DeathIsEOF LeaksGoForward GivenUpIsClean
PROPERTIES InputEnds
CHECK_DEADLOCK FALSE
