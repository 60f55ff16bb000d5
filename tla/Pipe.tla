-------------------------------- MODULE Pipe --------------------------------
(***************************************************************************)
(* The reading side of modglue::pipe / modglue::ipipe (src/src/pipe.cc).   *)
(*                                                                         *)
(* A pipe object owns a descriptor, two flags and, in the kernel, a queue  *)
(* of chunks its peer has written and nobody has read.  The operators      *)
(* below that prime variables are fragments: each is one member function   *)
(* (or one outcome of it), written so that a module that composes pipes    *)
(* with a caller can use it as part of a larger step.  PipeSpec runs the   *)
(* pipes alone, against a caller that may call anything at any time.       *)
(*                                                                         *)
(* Data are counted, not named: a unit of inq is what one read() returns.  *)
(***************************************************************************)
EXTENDS Naturals

CONSTANTS
  Pipes,      \* the pipe objects of the program
  Cap,        \* chunks that fit in the kernel's buffer of one pipe
  Blocking    \* pipes on descriptor 0, left in blocking mode by do_fcntl_

ASSUME CapAssumption == Cap \in Nat \ {0}
ASSUME BlockingAssumption == Blocking \subseteq Pipes

VARIABLES
  open,       \* fd_ != -1
  broken,     \* broken_
  first,      \* first_read_after_select_
  inq,        \* chunks written by the peer and not yet read
  wopen       \* somebody still holds the other end

pipeVars == <<open, broken, first, inq, wopen>>

PipeTypeOK ==
  /\ open   \in [Pipes -> BOOLEAN]
  /\ broken \in [Pipes -> BOOLEAN]
  /\ first  \in [Pipes -> BOOLEAN]
  /\ inq    \in [Pipes -> 0..Cap]
  /\ wopen  \in [Pipes -> BOOLEAN]

(* S: pipes that main::add() has opened on an existing descriptor. *)
PipeInit(S) ==
  /\ open   = [q \in Pipes |-> q \in S]
  /\ broken = [q \in Pipes |-> q \notin S]
  /\ first  = [q \in Pipes |-> FALSE]
  /\ inq    = [q \in Pipes |-> 0]
  /\ wopen  = [q \in Pipes |-> q \in S]

-----------------------------------------------------------------------------
(* pipe::open() on every pipe of S: fresh sockets, both ends open.  An     *)
(* open pipe throws.  first_read_after_select_ is not reset.               *)
Open(S) ==
  /\ \A q \in S : ~open[q]
  /\ open'   = [q \in Pipes |-> open[q] \/ q \in S]
  /\ broken' = [q \in Pipes |-> broken[q] /\ q \notin S]
  /\ inq'    = [q \in Pipes |-> IF q \in S THEN 0 ELSE inq[q]]
  /\ wopen'  = [q \in Pipes |-> wopen[q] \/ q \in S]
  /\ UNCHANGED first

(* pipe::close() on every pipe of S: a closed pipe is left alone, what was *)
(* unread in the kernel is gone.                                           *)
Close(S) ==
  /\ open'   = [q \in Pipes |-> open[q] /\ q \notin S]
  /\ broken' = [q \in Pipes |-> broken[q] \/ (q \in S /\ open[q])]
  /\ inq'    = [q \in Pipes |-> IF q \in S THEN 0 ELSE inq[q]]
  /\ UNCHANGED <<first, wopen>>

FirstReadAfterSelect(q) ==
  /\ first' = [first EXCEPT ![q] = TRUE]
  /\ UNCHANGED <<open, broken, inq, wopen>>

(* What select() says of the descriptor: data, or end of file. *)
Readable(q) == open[q] /\ (inq[q] > 0 \/ ~wopen[q])

-----------------------------------------------------------------------------
(* pipe::read_with_ack(), by the outcome of read_nonblocking_().           *)
Refused(q) == ~open[q] \/ broken[q]

ReadData(q) ==
  /\ ~Refused(q)
  /\ inq[q] > 0
  /\ inq' = [inq EXCEPT ![q] = @ - 1]
  /\ first' = [first EXCEPT ![q] = FALSE]
  /\ UNCHANGED <<open, broken, wopen>>

(* read() returned 0: end of file.  Only a read that follows a select      *)
(* breaks the pipe.                                                        *)
ReadEOF(q) ==
  /\ ~Refused(q)
  /\ inq[q] = 0 /\ ~wopen[q]
  /\ broken' = [broken EXCEPT ![q] = first[q]]
  /\ first' = [first EXCEPT ![q] = FALSE]
  /\ UNCHANGED <<open, inq, wopen>>

BrokenByAgain(q) ==                        \* mutant: ret<=0 in place of ret==0
  /\ ~Refused(q)
  /\ inq[q] = 0 /\ wopen[q] /\ q \notin Blocking
  /\ broken' = [broken EXCEPT ![q] = first[q]]
  /\ first' = [first EXCEPT ![q] = FALSE]
  /\ UNCHANGED <<open, inq, wopen>>

(* read() returned -1 with EAGAIN.  On a blocking descriptor there is no   *)
(* such outcome: the caller stays inside read() until the peer acts.       *)
ReadAgain(q) ==
  /\ ~Refused(q)
  /\ inq[q] = 0 /\ wopen[q] /\ q \notin Blocking
  /\ first' = [first EXCEPT ![q] = FALSE]
  /\ UNCHANGED <<open, broken, inq, wopen>>

ReadRefused(q) ==
  /\ Refused(q)
  /\ first' = [first EXCEPT ![q] = FALSE]
  /\ UNCHANGED <<open, broken, inq, wopen>>

(* The outcomes on which operator>> and getline() report failure. *)
ReadFails(q) == ReadEOF(q) \/ ReadAgain(q) \/ ReadRefused(q)

-----------------------------------------------------------------------------
(* The peer: writes while it holds its end and the kernel has room.        *)
PeerWrite(q) ==
  /\ wopen[q] /\ inq[q] < Cap
  /\ inq' = [inq EXCEPT ![q] = IF open[q] THEN @ + 1 ELSE @]
  /\ UNCHANGED <<open, broken, first, wopen>>

PeerClose(q) ==
  /\ wopen[q]
  /\ wopen' = [wopen EXCEPT ![q] = FALSE]
  /\ UNCHANGED <<open, broken, first, inq>>

-----------------------------------------------------------------------------
PipeNext ==
  \E q \in Pipes :
    \/ Open({q})
    \/ Close({q})
    \/ FirstReadAfterSelect(q)
    \/ ReadData(q)
    \/ ReadFails(q)
    \/ PeerWrite(q)
    \/ PeerClose(q)

PipeSpec == PipeInit({}) /\ [][PipeNext]_pipeVars

-----------------------------------------------------------------------------
(* read_with_ack() must not give up a pipe that still delivers: while the  *)
(* descriptor is open, broken_ means that the peer is gone and that        *)
(* everything it wrote has been handed out.                                *)
BrokenMeansEOF == \A q \in Pipes : broken[q] /\ open[q] => inq[q] = 0 /\ ~wopen[q]

(* fds_to_watch() and send_blocking_() look at is_broken() only, and put   *)
(* fd() into an fd_set: a pipe that is not broken has a descriptor.        *)
UnbrokenIsOpen == \A q \in Pipes : ~broken[q] => open[q]

(* What a closed pipe had unread is gone: a pipe that is opened again does *)
(* not start with data of its previous life.                               *)
ClosedIsEmpty == \A q \in Pipes : ~open[q] => inq[q] = 0
=============================================================================
