CONSTANTS
  p1 = p1
  p2 = p2
  out1 = out1
  err1 = err1
  out2 = out2
  in = in
  NoProc = NoProc
  NoPid = NoPid
  NoPipe = NoPipe
  SigFd = SigFd
  Signalled = Signalled
  Garbled = Garbled
  Alarm = Alarm
  Procs = {p1, p2}
  Pipes = {out1, out2}
  Owner <- MCOwner
  Blocking = {}
  Cap = 1
  Searched = {}
  Dropped = {}
  Deaf = {out2}
  Pids = {k1, k2}
  Joined = {}
  Codes = {0}
CHECK_DEADLOCK FALSE
SPECIFICATION FairSpec
PROPERTIES DeathIsReported
