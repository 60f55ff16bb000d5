--------------------------- MODULE EventLoop_proofs ---------------------------
(***************************************************************************)
(* Proofs about Pipe and EventLoop for any number of processes, pipes,     *)
(* children and exit codes, and any capacity of the kernel's buffers.      *)
(*                                                                         *)
(* Each fragment of Pipe preserves the invariant of the reading side       *)
(* whoever uses it, and the proofs about EventLoop cite the same lemmas.   *)
(* Of EventLoop, Inv is inductive.  Each group of its conjuncts has a      *)
(* lemma that says that every step preserves it; the lemmas are put        *)
(* together in InvHolds.                                                   *)
(***************************************************************************)
EXTENDS EventLoop, TLAPS

PipeInv == PipeTypeOK /\ BrokenMeansEOF /\ UnbrokenIsOpen /\ ClosedIsEmpty

(* A program starts with some pipes open on fresh descriptors. *)
LEMMA PipeInitInv ==
  ASSUME NEW S \in SUBSET Pipes, PipeInit(S)
  PROVE  PipeInv
<1>1. 0 \in 0..Cap
  BY CapAssumption
<1>2. PipeTypeOK
  <2>1. open \in [Pipes -> BOOLEAN] /\ broken \in [Pipes -> BOOLEAN] /\ wopen \in [Pipes -> BOOLEAN]
    <3>1. \A q \in Pipes : (q \in S) \in BOOLEAN /\ (q \notin S) \in BOOLEAN
      OBVIOUS
    <3>2. QED  BY <3>1, Zenon DEF PipeInit
  <2>2. QED  BY <1>1, <2>1 DEF PipeInit, PipeTypeOK
<1>3. \A q \in Pipes : (broken[q] <=> ~open[q]) /\ inq[q] = 0
  BY Zenon DEF PipeInit
<1>4. QED
  BY <1>2, <1>3 DEF PipeInv, BrokenMeansEOF, UnbrokenIsOpen, ClosedIsEmpty

(* A step that touches no pipe keeps the invariant. *)
LEMMA PipeStutterInv ==
  ASSUME PipeInv, UNCHANGED pipeVars
  PROVE  PipeInv'
BY DEF pipeVars, PipeInv, PipeTypeOK, BrokenMeansEOF, UnbrokenIsOpen, ClosedIsEmpty

(* open() of any set of closed pipes. *)
LEMMA OpenInv ==
  ASSUME PipeInv, NEW S \in SUBSET Pipes, Open(S)
  PROVE  PipeInv'
BY CapAssumption
   DEF Open, PipeInv, PipeTypeOK, BrokenMeansEOF, UnbrokenIsOpen, ClosedIsEmpty

(* close() of any set of pipes, open or not. *)
LEMMA CloseInv ==
  ASSUME PipeInv, NEW S \in SUBSET Pipes, Close(S)
  PROVE  PipeInv'
BY CapAssumption
   DEF Close, PipeInv, PipeTypeOK, BrokenMeansEOF, UnbrokenIsOpen, ClosedIsEmpty

(* first_read_after_select() *)
LEMMA FirstReadInv ==
  ASSUME PipeInv, NEW q \in Pipes, FirstReadAfterSelect(q)
  PROVE  PipeInv'
BY DEF FirstReadAfterSelect, PipeInv, PipeTypeOK, BrokenMeansEOF, UnbrokenIsOpen, ClosedIsEmpty

(* A read that returns data. *)
LEMMA ReadDataInv ==
  ASSUME PipeInv, NEW q \in Pipes, ReadData(q)
  PROVE  PipeInv'
BY CapAssumption
   DEF ReadData, Refused, PipeInv, PipeTypeOK, BrokenMeansEOF, UnbrokenIsOpen, ClosedIsEmpty

(* A read that fails keeps the invariant, and leaves nothing unread in an  *)
(* open pipe: what ends a receiver's loop is the end of the data.          *)
LEMMA ReadFailsInv ==
  ASSUME PipeInv, NEW q \in Pipes, ReadFails(q)
  PROVE  PipeInv' /\ inq' = inq /\ open' = open /\ (open[q] => inq[q] = 0)
<1>1. CASE ReadEOF(q)
  BY <1>1 DEF ReadEOF, Refused, PipeInv, PipeTypeOK, BrokenMeansEOF, UnbrokenIsOpen, ClosedIsEmpty
<1>2. CASE ReadAgain(q)
  BY <1>2 DEF ReadAgain, Refused, PipeInv, PipeTypeOK, BrokenMeansEOF, UnbrokenIsOpen, ClosedIsEmpty
<1>3. CASE ReadRefused(q)
  BY <1>3 DEF ReadRefused, Refused, PipeInv, PipeTypeOK, BrokenMeansEOF, UnbrokenIsOpen, ClosedIsEmpty
<1>4. QED  BY <1>1, <1>2, <1>3 DEF ReadFails

(* The peer's write and close. *)
LEMMA PeerInv ==
  ASSUME PipeInv, NEW q \in Pipes, PeerWrite(q) \/ PeerClose(q)
  PROVE  PipeInv'
<1>1. CASE PeerWrite(q)
  BY <1>1, CapAssumption
     DEF PeerWrite, PipeInv, PipeTypeOK, BrokenMeansEOF, UnbrokenIsOpen, ClosedIsEmpty
<1>2. CASE PeerClose(q)
  BY <1>2 DEF PeerClose, PipeInv, PipeTypeOK, BrokenMeansEOF, UnbrokenIsOpen, ClosedIsEmpty
<1>3. QED  BY <1>1, <1>2

(* Whatever the order of calls and of the peer's steps, a pipe that        *)
(* read_with_ack() has given up has delivered everything, and is_broken()  *)
(* is a safe test before the descriptor is used.                           *)
THEOREM PipeIsSafe == PipeSpec => [](PipeTypeOK /\ BrokenMeansEOF /\ UnbrokenIsOpen /\ ClosedIsEmpty)
<1>1. PipeInit({}) => PipeInv
  BY PipeInitInv
<1>2. PipeInv /\ [PipeNext]_pipeVars => PipeInv'
  <2> SUFFICES ASSUME PipeInv, [PipeNext]_pipeVars PROVE PipeInv'
    OBVIOUS
  <2>1. CASE UNCHANGED pipeVars
    BY <2>1, PipeStutterInv
  <2>2. ASSUME NEW q \in Pipes,
               \/ Open({q}) \/ Close({q}) \/ FirstReadAfterSelect(q)
               \/ ReadData(q) \/ ReadFails(q) \/ PeerWrite(q) \/ PeerClose(q)
        PROVE  PipeInv'
    BY <2>2, OpenInv, CloseInv, FirstReadInv, ReadDataInv, ReadFailsInv, PeerInv
  <2>3. QED  BY <2>1, <2>2 DEF PipeNext
<1>3. QED  BY <1>1, <1>2, PTL DEF PipeSpec, PipeInv

(* is_broken() is a safe test before fd() is used. *)
THEOREM UnbrokenHasDescriptor == PipeSpec => []UnbrokenIsOpen
BY PipeIsSafe, PTL

(* Nothing of a pipe's earlier life is read after it has been opened again. *)
THEOREM ClosedHasNothing == PipeSpec => []ClosedIsEmpty
BY PipeIsSafe, PTL

-----------------------------------------------------------------------------
(* The event loop.                                                         *)
USE OwnerAssumption, NamesAssumption

LEMMA InitInv == Init => Inv
<1> SUFFICES ASSUME Init PROVE Inv
  OBVIOUS
<1>1. PipesOf(NoProc) \in SUBSET Pipes
  BY DEF PipesOf
<1>2. PipeInv
  BY <1>1, PipeInitInv DEF Init, Separate
<1>3. TypeOK
  <2>1. pid \in [Procs -> Pids \cup {NoPid}]
    BY DEF Init
  <2>2. exitCode \in [Procs -> Codes \cup {Garbled}] /\ done \in [Procs -> BOOLEAN]
    BY DEF Init
  <2>3. kend \in [Pids -> Endings]
    BY DEF Init, Endings
  <2>4. sigpipe \in Seq(Messages)
    BY DEF Init
  <2>5. kstate \in [Pids -> {"none", "run", "zombie", "reaped"}]
    BY DEF Init
  <2>6. QED
    BY <1>2, <2>1, <2>2, <2>3, <2>4, <2>5 DEF Init, TypeOK, PipeInv
<1>4. PipesFollowProcess
  BY DEF Init, PipeInit, PipesFollowProcess, PipesOf, Separate
<1>5. QED
  BY <1>2, <1>3, <1>4
     DEF Init, Inv, PipeInv, ChildrenAreDistinct, MessagesAreDeaths, NoMessageTwice,
         FinalReads, OnlyTheDeadAreReported, DrainedBeforeReport

(* The pipes: every step is a fragment of Pipe or leaves them alone.       *)
LEMMA PipesStep ==
  ASSUME Inv, [Next]_vars
  PROVE  PipeInv'
<1> PipeInv
  BY DEF Inv, TypeOK, PipeInv
<1>1. CASE UNCHANGED pipeVars
  BY <1>1, PipeStutterInv
<1>2. CASE User /\ ~UNCHANGED pipeVars
  <2>1. PICK r \in Procs : Fork(r) \/ UserTerminates(r)
    BY <1>2 DEF User, SetupPipes
  <2>2. PipesOf(r) \in SUBSET Pipes
    BY DEF PipesOf
  <2>3. CASE Fork(r)
    BY <2>2, <2>3, OpenInv DEF Fork
  <2>4. CASE UserTerminates(r)
    BY <2>2, <2>4, CloseInv DEF UserTerminates, Terminate
  <2>5. QED  BY <2>1, <2>3, <2>4
<1>3. CASE Report
  <2>1. PipesOf(victim) \in SUBSET Pipes
    BY DEF PipesOf
  <2>2. QED  BY <1>3, <2>1, CloseInv DEF Report, Terminate
<1>4. CASE ScanAlarm
  <2>1. Pipes \ Separate \in SUBSET Pipes
    OBVIOUS
  <2>2. QED  BY <1>4, <2>1, CloseInv DEF ScanAlarm
<1>5. ASSUME NEW q \in Pipes, ScanPipe(q) \/ LastReadPipe(q) PROVE PipeInv'
  BY <1>5, FirstReadInv DEF ScanPipe, LastReadPipe
<1>6. CASE ReceiverReads
  <2>1. cur \in Pipes
    BY <1>6 DEF ReceiverReads, Inv, TypeOK
  <2>2. QED  BY <1>6, <2>1, ReadDataInv, ReadFailsInv DEF ReceiverReads
<1>7. ASSUME NEW q \in Pipes, OtherSideWrites(q) \/ OtherSideCloses(q) PROVE PipeInv'
  BY <1>7, PeerInv DEF OtherSideWrites, OtherSideCloses
<1>8. CASE SigChld \/ SigTerm \/ \E k \in Pids, e \in Endings : ChildEnds(k, e)
  BY <1>8, <1>1 DEF SigChld, SigTerm, ChildEnds
<1>9. CASE MainThread /\ ~UNCHANGED pipeVars
  <2>1. \/ Report \/ ScanAlarm \/ ReceiverReads
        \/ \E q \in Pipes : ScanPipe(q) \/ LastReadPipe(q)
    BY <1>9 DEF MainThread, Run, LeaveLoop, Select, ScanDone, NobodyReceives, ScanStranger,
       HandlerReturns, ScanDeath, ScanUnknown, FinalRead, LastRead, LastReadDone
  <2>2. QED  BY <2>1, <1>3, <1>4, <1>5, <1>6
<1>10. QED
  BY <1>1, <1>2, <1>7, <1>8, <1>9 DEF Next, World, vars

(* What the loop makes of the messages in the signal pipe: a code, and the *)
(* pid of the first message, of a child in Joined or of none.              *)
LEMMA ParsedType ==
  ASSUME TypeOK, sigpipe # <<>>, sigpipe[1] # Alarm, NEW m \in Parsed(sigpipe)
  PROVE  /\ m.code \in Codes \cup {Garbled}
         /\ m.pid = sigpipe[1].pid \/ m.pid \in Joined \/ m.pid = NoPid
<1>1. PICK n \in DOMAIN sigpipe : /\ \A i \in 1..(n - 1) : ~NumberEnds(sigpipe, i)
                                 /\ m \in [pid : PidsAt(sigpipe, n), code : {CodeAt(sigpipe, n)}]
  BY DEF Parsed, FirstNumber
<1>2. m.pid \in PidsAt(sigpipe, n) /\ m.code = CodeAt(sigpipe, n)
  BY <1>1
<1>3. sigpipe[n] \in Messages /\ Len(sigpipe) \in Nat /\ DOMAIN sigpipe = 1..Len(sigpipe)
  BY DEF TypeOK
<1>4. sigpipe[n] # Alarm
  <2>1. CASE n = 1
    BY <2>1
  <2>2. CASE n # 1
    <3>1. n \in Nat /\ n - 1 \in 1..(n - 1) /\ (n - 1) + 1 = n
      BY <1>3, <2>2
    <3>2. ~NumberEnds(sigpipe, n - 1)
      BY <1>1, <3>1
    <3> QED
      BY <3>1, <3>2 DEF NumberEnds
  <2> QED
    BY <2>1, <2>2
<1>5. sigpipe[n] \in [pid : Pids, end : Endings]
  BY <1>3, <1>4 DEF Messages
<1>6. m.code \in Codes \cup {Garbled}
  BY <1>2, <1>4, <1>5 DEF CodeAt, Bare, Endings
<1> QED
  BY <1>2, <1>6 DEF PidsAt

LEMMA TypeStep ==
  ASSUME Inv, [Next]_vars
  PROVE  TypeOK'
<1> USE DEF Inv
<1> PipeTypeOK'
  BY PipesStep DEF PipeInv
<1>1. CASE UNCHANGED vars
  BY <1>1 DEF vars, mainVars, procVars, childVars, sigVars, TypeOK
<1>2. ASSUME NEW p \in Procs, SetupPipes(p) PROVE TypeOK'
  BY <1>2 DEF SetupPipes, mainVars, sigVars, TypeOK
<1>3. ASSUME NEW p \in Procs, Fork(p) PROVE TypeOK'
  <2>1. PICK k \in Fresh, H \in Helpers(p), old \in Inherited(p) :
          /\ pid' = [pid EXCEPT ![p] = k]
          /\ kstate' = [j \in Pids |-> IF j \in H \cup {k} THEN "run" ELSE kstate[j]]
          /\ ready' = (ready \ (Stale \cap PipesOf(p))) \cup old
    BY ONLY <1>3 DEF Fork
  <2>2. k \in Pids /\ old \subseteq Pipes
    BY DEF Fresh, Inherited, PipesOf
  <2>3. pid' \in [Procs -> Pids \cup {NoPid}] /\ ready' \subseteq Pipes \cup {SigFd}
    BY <2>1, <2>2 DEF TypeOK
  <2>4. kstate' \in [Pids -> {"none", "run", "zombie", "reaped"}]
    BY <2>1 DEF TypeOK
  <2>5. QED  BY <1>3, <2>3, <2>4 DEF Fork, sigVars, TypeOK
<1>4. ASSUME NEW p \in Procs, UserTerminates(p) PROVE TypeOK'
  BY <1>4 DEF UserTerminates, Terminate, Hit, mainVars, sigVars, TypeOK
<1>5. CASE Run \/ LeaveLoop \/ ScanDone \/ LastReadDone
  BY <1>5 DEF Run, LeaveLoop, ScanDone, LastReadDone, procVars, childVars, sigVars, TypeOK
<1>6. CASE Select
  <2>1. ready' \subseteq Pipes \cup {SigFd}
    BY <1>6 DEF Select, Watched, Separate, PipesOf
  <2>2. QED  BY <1>6, <2>1 DEF Select, procVars, childVars, sigVars, TypeOK
<1>7. CASE ReceiverReads \/ NobodyReceives
  BY <1>7 DEF ReceiverReads, NobodyReceives, procVars, childVars, sigVars, TypeOK
<1>8. CASE ScanAlarm
  BY <1>8 DEF ScanAlarm, ReadSigPipe, Hit, TypeOK
<1>9. CASE ScanStranger
  BY <1>9 DEF ScanStranger, ReadSigPipe, procVars, childVars, TypeOK
<1>10. ASSUME NEW p \in Procs, ScanDeath(p) PROVE TypeOK'
  <2>1. code' \in Codes \cup {Garbled}
    <3>1. sigpipe # <<>> /\ sigpipe[1] # Alarm
      BY <1>10 DEF ScanDeath, ReadSigPipe, MessagesAreDeaths
    <3>2. PICK m \in Parsed(sigpipe) : code' = m.code
      BY <1>10 DEF ScanDeath
    <3> QED
      BY <3>1, <3>2, ParsedType
  <2>2. QED
    BY <1>10, <2>1 DEF ScanDeath, ReadSigPipe, PipesOf, procVars, childVars, TypeOK
<1>11. CASE Report
  BY <1>11 DEF Report, FinalReads, Terminate, Hit, sigVars, TypeOK
<1>12. CASE HandlerReturns
  BY <1>12 DEF HandlerReturns, procVars, childVars, sigVars, TypeOK
<1>13. ASSUME NEW q \in Pipes,
              ScanPipe(q) \/ ScanUnknown(q) \/ FinalRead(q) \/ LastReadPipe(q)
       PROVE  TypeOK'
  BY <1>13 DEF ScanPipe, ScanUnknown, FinalRead, LastReadPipe, procVars, childVars, sigVars, TypeOK
<1>14. CASE LastRead
  BY <1>14 DEF LastRead, procVars, childVars, sigVars, TypeOK
<1>15. ASSUME NEW q \in Pipes, OtherSideWrites(q) \/ OtherSideCloses(q) PROVE TypeOK'
  BY <1>15 DEF OtherSideWrites, OtherSideCloses, mainVars, procVars, childVars, sigVars, TypeOK
<1>16. ASSUME NEW k \in Pids, NEW e \in Endings, ChildEnds(k, e) PROVE TypeOK'
  BY <1>16 DEF ChildEnds, mainVars, procVars, TypeOK
<1>17. CASE SigChld
  <2>1. PICK k \in Pids : /\ kstate' = [kstate EXCEPT ![k] = "reaped"]
                          /\ sigpipe' = Append(sigpipe, [pid |-> k, end |-> kend[k]])
    BY <1>17 DEF SigChld
  <2>2. [pid |-> k, end |-> kend[k]] \in Messages
    BY DEF Messages, TypeOK
  <2>3. sigpipe' \in Seq(Messages)
    BY <2>1, <2>2 DEF TypeOK
  <2>4. kstate' \in [Pids -> {"none", "run", "zombie", "reaped"}]
    BY <2>1 DEF TypeOK
  <2>5. QED  BY <1>17, <2>3, <2>4 DEF SigChld, mainVars, procVars, TypeOK
<1>18. CASE SigTerm
  BY <1>18 DEF SigTerm, Messages, mainVars, procVars, childVars, TypeOK
<1>19. QED
  BY <1>1, <1>2, <1>3, <1>4, <1>5, <1>6, <1>7, <1>8, <1>9, <1>10, <1>11, <1>12, <1>13,
     <1>14, <1>15, <1>16, <1>17, <1>18
     DEF Next, User, MainThread, World

(* terminate() on p closes its pipes and forgets its pid; the other        *)
(* processes keep both.                                                    *)
LEMMA TerminateFollows ==
  ASSUME Inv, NEW p \in Procs, NEW c, Terminate(p, c), UNCHANGED kstate
  PROVE  PipesFollowProcess' /\ ChildrenAreDistinct'
<1> USE DEF Inv
<1>1. /\ open' = [q \in Pipes |-> open[q] /\ q \notin PipesOf(p)]
      /\ pid' = [pid EXCEPT ![p] = NoPid]
  BY DEF Terminate, Close
<1>2. PipesFollowProcess'
  <2> SUFFICES ASSUME NEW r \in Procs, NEW q \in PipesOf(r)
               PROVE  open'[q] <=> pid'[r] # NoPid
    BY DEF PipesFollowProcess, PipesOf
  <2>1. q \in Pipes /\ Owner[q] = r /\ (open[q] <=> pid[r] # NoPid)
    BY DEF PipesOf, PipesFollowProcess
  <2>2. CASE r = p
    BY <1>1, <2>1, <2>2 DEF TypeOK, PipesOf
  <2>3. CASE r # p
    <3>1. q \notin PipesOf(p)
      BY <2>1, <2>3 DEF PipesOf
    <3>2. open'[q] <=> open[q]
      BY <1>1, <2>1, <3>1
    <3>3. pid'[r] = pid[r]
      BY <1>1, <2>3 DEF TypeOK
    <3>4. QED  BY <2>1, <3>2, <3>3
  <2>4. QED  BY <2>2, <2>3
<1>3. ChildrenAreDistinct'
  BY <1>1 DEF ChildrenAreDistinct, TypeOK
<1>4. QED  BY <1>2, <1>3

LEMMA ProcessStep ==
  ASSUME Inv, [Next]_vars
  PROVE  PipesFollowProcess' /\ ChildrenAreDistinct'
<1> USE DEF Inv
<1> DEFINE Goal == PipesFollowProcess' /\ ChildrenAreDistinct'
<1>1. ASSUME UNCHANGED <<open, pid, kstate>> PROVE Goal
  BY <1>1 DEF PipesFollowProcess, ChildrenAreDistinct
<1>2. ASSUME UNCHANGED <<open, pid>>, \A k \in Pids : kstate[k] # "none" => kstate'[k] # "none"
      PROVE  Goal
  BY <1>2 DEF PipesFollowProcess, ChildrenAreDistinct, TypeOK
<1>3. ASSUME NEW p \in Procs, SetupPipes(p) PROVE Goal
  <2>1. PICK H \in Helpers(p) : kstate' = [k \in Pids |-> IF k \in H THEN "run" ELSE kstate[k]]
    BY <1>3 DEF SetupPipes
  <2>2. \A k \in Pids : kstate[k] # "none" => kstate'[k] # "none"
    BY <2>1
  <2>3. QED  BY <1>2, <1>3, <2>2 DEF SetupPipes, pipeVars
<1>4. ASSUME NEW p \in Procs, Fork(p) PROVE Goal
  <2>1. PICK k \in Fresh, H \in Helpers(p) :
          /\ pid' = [pid EXCEPT ![p] = k]
          /\ kstate' = [j \in Pids |-> IF j \in H \cup {k} THEN "run" ELSE kstate[j]]
    BY <1>4 DEF Fork
  <2>2. k \in Pids /\ kstate[k] = "none"
    BY DEF Fresh
  <2>3. PipesFollowProcess'
    <3> SUFFICES ASSUME NEW r \in Procs, NEW q \in PipesOf(r)
                 PROVE  open'[q] <=> pid'[r] # NoPid
      BY DEF PipesFollowProcess, PipesOf
    <3>1. q \in Pipes /\ Owner[q] = r /\ (open[q] <=> pid[r] # NoPid)
      BY DEF PipesOf, PipesFollowProcess
    <3>2. open' = [x \in Pipes |-> open[x] \/ x \in PipesOf(p)]
      BY <1>4 DEF Fork, Open
    <3>3. CASE r = p
      <4>1. open'[q]
        BY <3>1, <3>2, <3>3
      <4>2. pid'[r] # NoPid
        BY <2>1, <2>2, <3>3 DEF TypeOK
      <4>3. QED  BY <4>1, <4>2
    <3>4. CASE r # p
      <4>1. q \notin PipesOf(p)
        BY <3>1, <3>4 DEF PipesOf
      <4>2. open'[q] <=> open[q]
        BY <3>1, <3>2, <4>1
      <4>3. pid'[r] = pid[r]
        BY <2>1, <3>4 DEF TypeOK
      <4>4. QED  BY <3>1, <4>2, <4>3
    <3>5. QED  BY <3>3, <3>4
  <2>4. ChildrenAreDistinct'
    <3>1. \A r \in Procs : pid'[r] = IF r = p THEN k ELSE pid[r]
      BY <2>1 DEF TypeOK
    <3>2. \A j \in Pids : kstate[j] # "none" => kstate'[j] # "none"
      BY <2>1
    <3>3. kstate'[k] # "none"
      BY <2>1, <2>2
    <3>4. \A r \in Procs : pid[r] # NoPid => pid[r] \in Pids /\ pid[r] # k /\ kstate[pid[r]] # "none"
      BY <2>2 DEF ChildrenAreDistinct, TypeOK
    <3>5. QED  BY <3>1, <3>2, <3>3, <3>4 DEF ChildrenAreDistinct
  <2>5. QED  BY <2>3, <2>4
<1>5. ASSUME NEW p \in Procs, UserTerminates(p) PROVE Goal
  BY <1>5, TerminateFollows DEF UserTerminates
<1>6. CASE Report
  BY <1>6, TerminateFollows DEF Report, FinalReads
<1>7. CASE ScanAlarm
  <2>1. \A p \in Procs : pid'[p] = NoPid
    BY <1>7 DEF ScanAlarm
  <2>2. open' = [q \in Pipes |-> open[q] /\ q \notin Pipes \ Separate]
    BY <1>7 DEF ScanAlarm, Close
  <2>3. \A p \in Procs : \A q \in PipesOf(p) : q \in Pipes \ Separate
    BY DEF PipesOf, Separate
  <2>4. QED  BY <2>1, <2>2, <2>3 DEF PipesFollowProcess, ChildrenAreDistinct
<1>8. CASE ReceiverReads
  <2>1. UNCHANGED open
    BY <1>8 DEF ReceiverReads, ReadData, ReadFails, ReadEOF, ReadAgain, ReadRefused
  <2>2. QED  BY <1>1, <1>8, <2>1 DEF ReceiverReads, procVars, childVars
<1>9. CASE MainThread /\ ~(ReceiverReads \/ Report \/ ScanAlarm)
  <2>1. UNCHANGED <<open, pid, kstate>>
    BY <1>9 DEF MainThread, Run, LeaveLoop, Select, ScanDone, NobodyReceives, ScanStranger,
       HandlerReturns, ScanDeath, ScanPipe, ScanUnknown, FinalRead, LastRead, LastReadDone,
       LastReadPipe, FirstReadAfterSelect, pipeVars, procVars, childVars
  <2>2. QED  BY <1>1, <2>1
<1>10. ASSUME NEW q \in Pipes, OtherSideWrites(q) \/ OtherSideCloses(q) PROVE Goal
  BY <1>1, <1>10
     DEF OtherSideWrites, OtherSideCloses, PeerWrite, PeerClose, procVars, childVars
<1>11. ASSUME NEW k \in Pids, NEW e \in Endings, ChildEnds(k, e) PROVE Goal
  BY <1>2, <1>11 DEF ChildEnds, pipeVars, procVars, TypeOK
<1>12. CASE SigChld
  BY <1>2, <1>12 DEF SigChld, pipeVars, procVars, TypeOK
<1>13. CASE SigTerm \/ UNCHANGED vars
  BY <1>1, <1>13 DEF SigTerm, vars, pipeVars, procVars, childVars
<1>14. QED
  BY <1>3, <1>4, <1>5, <1>6, <1>7, <1>8, <1>9, <1>10, <1>11, <1>12, <1>13
     DEF Next, User, World

(* A new message does not repeat one that is there.                        *)
LEMMA AppendKeepsDistinct ==
  ASSUME NEW S, NEW s \in Seq(S), NEW m \in S,
         \A i, j \in DOMAIN s : i # j => s[i] # s[j],
         \A i \in DOMAIN s : s[i] # m
  PROVE  \A i, j \in DOMAIN Append(s, m) : i # j => Append(s, m)[i] # Append(s, m)[j]
<1> DEFINE t == Append(s, m)
<1>1. Len(s) \in Nat /\ DOMAIN s = 1..Len(s) /\ DOMAIN t = 1..(Len(s) + 1)
  OBVIOUS
<1>2. t[Len(s) + 1] = m /\ \A i \in DOMAIN s : t[i] = s[i]
  OBVIOUS
<1>3. \A i \in DOMAIN t : i \in DOMAIN s \/ i = Len(s) + 1
  BY <1>1
<1> HIDE DEF t
<1>4. SUFFICES ASSUME NEW i \in DOMAIN t, NEW j \in DOMAIN t, i # j PROVE t[i] # t[j]
  BY DEF t
<1>5. QED  BY <1>2, <1>3, <1>4

LEMMA MessagesStep ==
  ASSUME Inv, [Next]_vars
  PROVE  MessagesAreDeaths'
<1> USE DEF Inv
<1>1. ASSUME UNCHANGED <<sigpipe, alarmed>>, SigFd \in ready' => SigFd \in ready,
             \A k \in Pids : kstate[k] = "reaped" => kstate'[k] = "reaped"
      PROVE  MessagesAreDeaths'
  <2>1. \A i \in DOMAIN sigpipe : sigpipe[i] # Alarm => sigpipe[i].pid \in Pids
    BY DEF TypeOK, Messages
  <2>2. QED  BY <1>1, <2>1 DEF MessagesAreDeaths, NoMessageTwice
<1>2. ASSUME sigpipe' = <<>>, ready' = ready \ {SigFd} PROVE MessagesAreDeaths'
  BY <1>2 DEF MessagesAreDeaths, NoMessageTwice
<1>3. ASSUME NEW p \in Procs, SetupPipes(p) \/ Fork(p) PROVE MessagesAreDeaths'
  <2>1. \A H \in Helpers(p) : H \subseteq Fresh
    BY DEF Helpers
  <2>2. \A k \in Pids : kstate[k] = "reaped" => kstate'[k] = "reaped"
    BY <1>3, <2>1 DEF SetupPipes, Fork, Fresh
  <2>3. SigFd \in ready' => SigFd \in ready
    BY <1>3 DEF SetupPipes, Fork, Inherited, PipesOf, mainVars
  <2>4. QED  BY <1>1, <1>3, <2>2, <2>3 DEF SetupPipes, Fork, sigVars
<1>4. ASSUME NEW p \in Procs, UserTerminates(p) PROVE MessagesAreDeaths'
  BY <1>1, <1>4 DEF UserTerminates, mainVars, sigVars
<1>5. CASE Select
  BY <1>5 DEF Select, Watched, Separate, PipesOf, childVars, sigVars,
              MessagesAreDeaths, NoMessageTwice
<1>6. CASE ScanAlarm \/ ScanStranger \/ \E p \in Procs : ScanDeath(p)
  BY <1>2, <1>6 DEF ScanAlarm, ScanStranger, ScanDeath, ReadSigPipe
<1>7. CASE MainThread /\ ~(Select \/ ScanAlarm \/ ScanStranger \/ \E p \in Procs : ScanDeath(p))
  <2>1. UNCHANGED <<sigpipe, alarmed, kstate>> /\ (SigFd \in ready' => SigFd \in ready)
    BY <1>7 DEF MainThread, Run, LeaveLoop, ScanDone, ReceiverReads, NobodyReceives, Report,
       HandlerReturns, ScanPipe, ScanUnknown, FinalRead, LastRead, LastReadDone,
       LastReadPipe, childVars, sigVars
  <2>2. QED  BY <1>1, <2>1
<1>8. ASSUME NEW q \in Pipes, OtherSideWrites(q) \/ OtherSideCloses(q) PROVE MessagesAreDeaths'
  BY <1>1, <1>8 DEF OtherSideWrites, OtherSideCloses, mainVars, childVars, sigVars
<1>9. ASSUME NEW k \in Pids, NEW e \in Endings, ChildEnds(k, e) PROVE MessagesAreDeaths'
  BY <1>1, <1>9 DEF ChildEnds, mainVars, TypeOK
<1>10. CASE SigChld
  <2>1. PICK k \in Pids : /\ kstate[k] = "zombie"
                          /\ kstate' = [kstate EXCEPT ![k] = "reaped"]
                          /\ sigpipe' = Append(sigpipe, [pid |-> k, end |-> kend[k]])
    BY <1>10 DEF SigChld
  <2> DEFINE m == [pid |-> k, end |-> kend[k]]
  <2>2. m \in Messages /\ m.pid = k
    BY DEF Messages, TypeOK
  <2>3. sigpipe \in Seq(Messages) /\ \A i \in DOMAIN sigpipe : sigpipe[i] \in Messages
    BY DEF TypeOK
  <2>4. \A i \in DOMAIN sigpipe : sigpipe[i] # Alarm => sigpipe[i].pid # k
    BY <2>1 DEF MessagesAreDeaths
  <2>5. m # Alarm
    BY DEF Endings, TypeOK, NamesAssumption
  <2>6. \A i \in DOMAIN sigpipe : sigpipe[i] # m
    BY <2>2, <2>4, <2>5
  <2>7. NoMessageTwice'
    BY <2>1, <2>2, <2>3, <2>6, AppendKeepsDistinct DEF MessagesAreDeaths, NoMessageTwice
  <2>8. \A i \in DOMAIN sigpipe' : (i \in DOMAIN sigpipe /\ sigpipe'[i] = sigpipe[i]) \/ sigpipe'[i] = m
    BY <2>1, <2>3
  <2>9. \A j \in Pids : kstate[j] = "reaped" => kstate'[j] = "reaped"
    BY <2>1 DEF TypeOK
  <2>10. \A i \in DOMAIN sigpipe : sigpipe[i] # Alarm => sigpipe[i].pid \in Pids
    BY <2>3 DEF Messages
  <2>11. \A i \in DOMAIN sigpipe' :
           IF sigpipe'[i] = Alarm THEN alarmed' ELSE kstate'[sigpipe'[i].pid] = "reaped"
    BY <1>10, <2>1, <2>2, <2>5, <2>8, <2>9, <2>10 DEF SigChld, MessagesAreDeaths, TypeOK
  <2>12. sigpipe' # <<>> \/ SigFd \notin ready'
    BY <2>1, <2>3
  <2>13. QED  BY <2>7, <2>11, <2>12 DEF MessagesAreDeaths
<1>11. CASE SigTerm
  <2>1. sigpipe' = Append(sigpipe, Alarm) /\ alarmed' /\ ~alarmed /\ UNCHANGED kstate
    BY <1>11 DEF SigTerm, childVars
  <2>2. sigpipe \in Seq(Messages) /\ Alarm \in Messages
    BY DEF TypeOK, Messages
  <2>3. \A i \in DOMAIN sigpipe : sigpipe[i] # Alarm
    BY <2>1 DEF MessagesAreDeaths
  <2>4. NoMessageTwice'
    BY <2>1, <2>2, <2>3, AppendKeepsDistinct DEF MessagesAreDeaths, NoMessageTwice
  <2>5. \A i \in DOMAIN sigpipe' : (i \in DOMAIN sigpipe /\ sigpipe'[i] = sigpipe[i]) \/ sigpipe'[i] = Alarm
    BY <2>1, <2>2
  <2>6. sigpipe' # <<>>
    BY <2>1, <2>2
  <2>7. QED  BY <2>1, <2>3, <2>4, <2>5, <2>6 DEF MessagesAreDeaths
<1>12. CASE UNCHANGED vars
  BY <1>1, <1>12 DEF vars, mainVars, childVars, sigVars
<1>13. QED
  BY <1>3, <1>4, <1>5, <1>6, <1>7, <1>8, <1>9, <1>10, <1>11, <1>12
     DEF Next, User, World

(* The final reads.  What a child has written can only shrink once it is   *)
(* dead, and a receiver leaves a pipe only when nothing is unread in it.   *)
LEMMA FinalStep ==
  ASSUME Inv, [Next]_vars
  PROVE  FinalReads' /\ OnlyTheDeadAreReported' /\ DrainedBeforeReport'
<1> USE DEF Inv
<1> DEFINE Goal == FinalReads' /\ OnlyTheDeadAreReported' /\ DrainedBeforeReport'
<1>1. ASSUME pc' # "final", pc' = "handler" => cur' = NoPipe PROVE Goal
  BY <1>1 DEF FinalReads, OnlyTheDeadAreReported, DrainedBeforeReport
<1>2. ASSUME UNCHANGED <<pc, victim, pid, todo, cur>>,
             pc = "final" /\ pid[victim] \notin Joined =>
                             /\ kstate'[pid[victim]] = kstate[pid[victim]]
                             /\ \A q \in PipesOf(victim) : inq'[q] = inq[q]
      PROVE  Goal
  BY <1>2 DEF FinalReads, OnlyTheDeadAreReported, DrainedBeforeReport
<1>3. CASE User
  <2>1. pc' = pc /\ cur' = cur /\ pc # "final"
    BY <1>3 DEF User, SetupPipes, Fork, UserTerminates, UserRuns, mainVars
  <2>2. QED  BY <1>1, <2>1 DEF FinalReads
<1>4. ASSUME NEW p \in Procs, ScanDeath(p) PROVE Goal
  <2>1. sigpipe # <<>> /\ sigpipe[1] # Alarm
    BY <1>4 DEF ScanDeath, ReadSigPipe, MessagesAreDeaths
  <2>2. PICK m \in Parsed(sigpipe) : pid[p] = m.pid /\ m.pid # NoPid
    BY <1>4 DEF ScanDeath, Named
  <2>3. 1 \in DOMAIN sigpipe
    BY <2>1 DEF TypeOK
  <2>4. pid[p] \in Joined \/ kstate[pid[p]] = "reaped"
    BY <2>1, <2>2, <2>3, ParsedType DEF MessagesAreDeaths
  <2>5. /\ pc' = "final" /\ victim' = p /\ todo' = PipesOf(p) /\ cur' = NoPipe
        /\ UNCHANGED <<pid, kstate>>
    BY <1>4 DEF ScanDeath, ReadSigPipe, Scanning, procVars, childVars
  <2>6. QED
    BY <2>2, <2>4, <2>5 DEF FinalReads, OnlyTheDeadAreReported, DrainedBeforeReport
<1>5. ASSUME NEW q \in Pipes, FinalRead(q) PROVE Goal
  <2>1. /\ pc = "final" /\ q \in PipesOf(victim) /\ victim \in Procs /\ cur = NoPipe
        /\ todo' = todo \ {q} /\ cur' = q
        /\ UNCHANGED <<pc, victim, pid, kstate, inq>>
    BY <1>5 DEF FinalRead, FinalReads, pipeVars, procVars, childVars
  <2>2. \A x : x \notin todo' \cup {cur'} => x \notin todo \cup {cur} \/ x = NoPipe
    BY <2>1
  <2>3. \A x \in PipesOf(victim) : x # NoPipe
    BY DEF PipesOf
  <2>4. DrainedBeforeReport'
    BY <2>1, <2>2, <2>3 DEF DrainedBeforeReport
  <2>5. QED  BY <2>1, <2>4 DEF FinalReads, OnlyTheDeadAreReported
<1>6. CASE ReceiverReads \/ NobodyReceives
  <2>1. CASE pc # "final"
    <3>1. pc' # "final" /\ (pc' = "handler" => cur' = NoPipe)
      BY <1>6, <2>1 DEF ReceiverReads, NobodyReceives, FinalReads
    <3>2. QED  BY <1>1, <3>1
  <2>2. CASE pc = "final"
    <3>1. /\ cur \in PipesOf(victim) /\ victim \in Procs
          /\ UNCHANGED <<pc, victim, pid, todo, kstate>>
      BY <1>6, <2>2 DEF ReceiverReads, NobodyReceives, FinalReads, procVars, childVars
    <3>2. cur \in Pipes /\ open[cur]
      BY <2>2, <3>1 DEF PipesFollowProcess, OnlyTheDeadAreReported, PipesOf
    <3>3. CASE NobodyReceives
      BY <2>2, <3>1, <3>3 DEF NobodyReceives, pipeVars,
         FinalReads, OnlyTheDeadAreReported, DrainedBeforeReport
    <3>4. CASE ReadData(cur) /\ UNCHANGED cur
      <4>1. \A q \in Pipes : q # cur => inq'[q] = inq[q]
        BY <3>4 DEF ReadData, TypeOK, PipeTypeOK
      <4>2. QED
        BY <2>2, <3>1, <3>4, <4>1 DEF PipesOf, FinalReads, OnlyTheDeadAreReported, DrainedBeforeReport
    <3>5. CASE ReadFails(cur) /\ cur' = NoPipe
      <4>1. inq' = inq /\ inq[cur] = 0
        BY <3>2, <3>5, ReadFailsInv DEF PipeInv, TypeOK
      <4>2. QED
        BY <2>2, <3>1, <3>5, <4>1 DEF FinalReads, OnlyTheDeadAreReported, DrainedBeforeReport
    <3>6. QED  BY <1>6, <3>3, <3>4, <3>5 DEF ReceiverReads
  <2>3. QED  BY <2>1, <2>2
<1>7. CASE Report
  BY <1>1, <1>7 DEF Report
<1>8. CASE \/ Run \/ LeaveLoop \/ Select \/ ScanDone \/ ScanAlarm \/ HandlerReturns
           \/ LastRead \/ LastReadDone
  BY <1>1, <1>8 DEF Run, LeaveLoop, Select, ScanDone, ScanAlarm, HandlerReturns, LastRead,
     LastReadDone
<1>9. CASE ScanStranger \/ \E q \in Pipes : ScanPipe(q) \/ ScanUnknown(q) \/ LastReadPipe(q)
  BY <1>1, <1>9 DEF ScanStranger, ReadSigPipe, ScanPipe, ScanUnknown, LastReadPipe, Scanning
<1>10. ASSUME NEW q \in Pipes, OtherSideWrites(q) \/ OtherSideCloses(q) PROVE Goal
  <2>1. UNCHANGED <<pc, victim, pid, todo, cur, kstate>> /\ Holds(q)
    BY <1>10 DEF OtherSideWrites, OtherSideCloses, mainVars, procVars, childVars
  <2>2. \A x \in Pipes : x # q => inq'[x] = inq[x]
    BY <1>10 DEF OtherSideWrites, OtherSideCloses, PeerWrite, PeerClose, TypeOK, PipeTypeOK
  <2>3. pc = "final" /\ pid[victim] \notin Joined => q \notin PipesOf(victim)
    BY <2>1 DEF Holds, PipesOf, FinalReads, OnlyTheDeadAreReported
  <2>4. QED  BY <1>2, <2>1, <2>2, <2>3 DEF PipesOf
<1>11. ASSUME NEW k \in Pids, NEW e \in Endings, ChildEnds(k, e) PROVE Goal
  BY <1>2, <1>11 DEF ChildEnds, OnlyTheDeadAreReported, TypeOK, pipeVars, mainVars, procVars
<1>12. CASE SigChld
  <2>1. PICK k \in Pids : kstate[k] = "zombie" /\ kstate' = [kstate EXCEPT ![k] = "reaped"]
    BY <1>12 DEF SigChld
  <2>2. QED
    BY <1>2, <1>12, <2>1 DEF SigChld, OnlyTheDeadAreReported, TypeOK, pipeVars, mainVars, procVars
<1>13. CASE SigTerm \/ UNCHANGED vars
  BY <1>2, <1>13 DEF SigTerm, vars, pipeVars, mainVars, procVars, childVars
<1>14. QED
  BY <1>3, <1>4, <1>5, <1>6, <1>7, <1>8, <1>9, <1>10, <1>11, <1>12, <1>13
     DEF Next, MainThread, World

-----------------------------------------------------------------------------
(* The inductive invariant of the loop: the types of all variables, the    *)
(* invariant of the pipes, the bond between process objects, children,     *)
(* pipes and messages, and what is true while a death is being handled.    *)
THEOREM InvHolds == Spec => []Inv
<1>1. Init => Inv
  BY InitInv
<1>2. Inv /\ [Next]_vars => Inv'
  BY PipesStep, TypeStep, ProcessStep, MessagesStep, FinalStep DEF Inv, PipeInv
<1>3. QED  BY <1>1, <1>2, PTL DEF Spec

(* Every variable of the loop keeps its type.                              *)
THEOREM TypesHold == Spec => []TypeOK
<1>1. Inv => TypeOK
  BY DEF Inv
<1>2. QED  BY <1>1, InvHolds, PTL

(* A pid_ leads to a running child or to a dead one, the pipes are open    *)
(* just as long, and fds_to_watch() gives select() no closed descriptor.   *)
THEOREM PipesFollow == Spec => [](PipesFollowProcess /\ UnbrokenIsOpen)
<1>1. Inv => PipesFollowProcess /\ UnbrokenIsOpen
  BY DEF Inv
<1>2. QED  BY <1>1, InvHolds, PTL

(* However the messages of several deaths and of SIGTERM run together, the *)
(* loop takes no running child for a dead one but those whose pid is the   *)
(* pids of others written one behind the other: where there is none, as    *)
(* when Joined is empty, only the dead are reported.                       *)
THEOREM OnlyTheDead == Spec => []OnlyTheDeadAreReported
<1>1. Inv => OnlyTheDeadAreReported
  BY DEF Inv
<1>2. QED  BY <1>1, InvHolds, PTL

(* process_died is emitted only when the receivers have been given         *)
(* everything that the child had written, unless it is not the child that  *)
(* died, see above.                                                        *)
THEOREM Drained == Spec => []DrainedBeforeReport
<1>1. Inv => DrainedBeforeReport
  BY DEF Inv
<1>2. QED  BY <1>1, InvHolds, PTL

(* The signal pipe never holds two messages about one child.               *)
THEOREM NeverTwice == Spec => []NoMessageTwice
<1>1. Inv => NoMessageTwice
  BY DEF Inv, MessagesAreDeaths
<1>2. QED  BY <1>1, InvHolds, PTL
=============================================================================
