CONSTANTS
  p1 = p1
  p2 = p2
  out1 = out1
  err1 = err1
  out2 = out2
  in = in
  NoProc = NoProc
  NoPid = NoPid
  NoPipe = NoPipe
  SigFd = SigFd
  Signalled = Signalled
  Garbled = Garbled
  Alarm = Alarm
  Procs = {p1, p2}
  Pipes = {err1, out2}
  Owner <- MCOwner
  Blocking = {}
  Cap = 1
  Searched = {p2}
  Dropped = {p1}
  Deaf = {err1}
  Pids = {k1, k2, k3}
  Joined = {k3}
  Codes = {0}
SPECIFICATION Spec
INVARIANTS Inv OnlyTheDeadAreReported
SYMMETRY SymmetricPids
CHECK_DEADLOCK FALSE
PROPERTIES WatchSpec
