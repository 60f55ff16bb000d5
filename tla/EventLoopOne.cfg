CONSTANTS
  p1 = p1
  p2 = p2
  out1 = out1
  err1 = err1
  out2 = out2
  in = in
  NoProc = NoProc
  NoPid = NoPid
  NoPipe = NoPipe
  SigFd = SigFd
  Signalled = Signalled
  Garbled = Garbled
  Alarm = Alarm
  Procs = {p1}
  Pipes = {out1, err1, in}
  Owner <- MCOwner
  Blocking = {}
  Cap = 1
  Searched = {}
  Dropped = {}
  Deaf = {}
  Pids = {k1, k2}
  Joined = {}
  Codes = {0, 1}
SPECIFICATION FairSpec
INVARIANTS BrokenMeansEOF PipesFollowProcess DrainedBeforeReport ReportedCodeIsTrue NoDeathIsLost
PROPERTIES DeathIsReported OutputIsReadOrHeld
CHECK_DEADLOCK FALSE
