----------------------------- MODULE MCEventLoop -----------------------------
(* Small instances of EventLoop. *)
EXTENDS EventLoop, TLC

CONSTANTS
  p1, p2,        \* processes
  out1, err1, out2, in   \* their pipes, and a separate one

MCOwner ==
  [q \in Pipes |-> IF q \in {out1, err1} THEN p1 ELSE IF q = out2 THEN p2 ELSE NoProc]

SymmetricPids == Permutations(Pids \ Joined)
=============================================================================
