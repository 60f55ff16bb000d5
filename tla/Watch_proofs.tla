----------------------------- MODULE Watch_proofs -----------------------------
(***************************************************************************)
(* What the loop promises its users, for every value of the constants.     *)
(* EventLoop implements Watch: each step of the loop, of a child, of a     *)
(* signal handler or of the user is a step of Watch or changes nothing     *)
(* that Watch can see.  And where children die one at a time, no death is  *)
(* lost and the exit codes are true.                                       *)
(***************************************************************************)
EXTENDS EventLoop_proofs

USE OwnerAssumption, NamesAssumption

(* The process objects as Watch sees them.                                 *)
St == [p \in Procs |-> Life(p)]
Twins == [p \in Procs |-> pid[p] \in Joined]

LEMMA InitRefines == Init => W!Init
<1> SUFFICES ASSUME Init PROVE W!Init
  OBVIOUS
<1>1. \A p \in Procs : (pid[p] \in Joined) = FALSE
  BY DEF Init
<1>2. [p \in Procs |-> pid[p] \in Joined] = [p \in Procs |-> FALSE]
  BY <1>1, Zenon
<1>3. [p \in Procs |-> Life(p)] = [p \in Procs |-> "idle"]
  BY DEF Init, Life
<1> QED
  BY <1>2, <1>3 DEF Init, PipeInit, W!Init

(* A step that Watch cannot see: the process objects keep their pids, no   *)
(* child stops running, nothing is written, read or thrown away.           *)
LEMMA Stutters ==
  ASSUME UNCHANGED <<pid, inq>>, (pc' = "exited") <=> (pc = "exited"),
         \A p \in Procs : pid[p] # NoPid =>
            (kstate'[pid[p]] = "run" <=> kstate[pid[p]] = "run")
  PROVE  UNCHANGED W!watchVars
<1>1. \A p \in Procs : Life(p)' = Life(p)
  BY DEF Life
<1>2. [p \in Procs |-> Life(p)]' = [p \in Procs |-> Life(p)]
  BY <1>1
<1>3. UNCHANGED [p \in Procs |-> pid[p] \in Joined]
  OBVIOUS
<1>4. QED  BY <1>2, <1>3 DEF W!watchVars

(* A step after which one process object, p, has changed its life to l.    *)
LEMMA OneLifeChanges ==
  ASSUME NEW p \in Procs, NEW l, Life(p)' = l,
         \A r \in Procs \ {p} : Life(r)' = Life(r)
  PROVE  St' = [St EXCEPT ![p] = l]
BY DEF St

(* Of the children of which p has one more or one less, only that of p is  *)
(* another one.                                                            *)
LEMMA OneTwinChanges ==
  ASSUME TypeOK, NEW p \in Procs, NEW k, pid' = [pid EXCEPT ![p] = k]
  PROVE  Twins' = [Twins EXCEPT ![p] = k \in Joined]
<1>1. \A r \in Procs : pid'[r] = IF r = p THEN k ELSE pid[r]
  BY DEF TypeOK
<1>2. \A r \in Procs : (pid'[r] \in Joined) = IF r = p THEN k \in Joined ELSE pid[r] \in Joined
  BY <1>1
<1> QED
  BY <1>2, Zenon DEF Twins

(* terminate() on p empties its pipes and makes it idle.                   *)
LEMMA TerminateSeen ==
  ASSUME Inv, NEW p \in Procs, NEW c, Terminate(p, c), UNCHANGED kstate
  PROVE  /\ St' = [St EXCEPT ![p] = "idle"] /\ inq' = W!Emptied(W!Of(p))
         /\ Twins' = [Twins EXCEPT ![p] = FALSE]
<1> USE DEF Inv
<1>1. pid' = [pid EXCEPT ![p] = NoPid]
  BY DEF Terminate
<1>2. Life(p)' = "idle" /\ \A r \in Procs \ {p} : Life(r)' = Life(r)
  BY <1>1 DEF Life, TypeOK
<1>3. inq' = W!Emptied(W!Of(p))
  BY DEF Terminate, Close, W!Emptied, W!Of, PipesOf
<1>4. Twins' = [Twins EXCEPT ![p] = FALSE]
  <2>1. (NoPid \in Joined) = FALSE
    OBVIOUS
  <2> QED
    BY <1>1, <2>1, OneTwinChanges, Zenon
<1>5. QED  BY <1>2, <1>3, <1>4, OneLifeChanges

LEMMA StepRefines ==
  ASSUME Inv, [Next]_vars
  PROVE  [W!Next]_(W!watchVars)
<1> USE DEF Inv
<1> DEFINE Goal == W!Next \/ UNCHANGED W!watchVars
<1>1. ASSUME NEW p \in Procs, SetupPipes(p) PROVE Goal
  <2>1. \A H \in Helpers(p) : H \subseteq Fresh
    BY DEF Helpers
  <2>2. \A k \in Pids : kstate[k] # "none" => kstate'[k] = kstate[k]
    BY <1>1, <2>1 DEF SetupPipes, Fresh
  <2>3. \A r \in Procs : pid[r] # NoPid => kstate'[pid[r]] = kstate[pid[r]]
    BY <2>2 DEF ChildrenAreDistinct, TypeOK
  <2>4. UNCHANGED <<pid, inq, pc>>
    BY <1>1 DEF SetupPipes, pipeVars, mainVars
  <2>5. QED  BY <2>3, <2>4, Stutters
<1>2. ASSUME NEW p \in Procs, Fork(p) PROVE Goal
  <2>1. PICK k \in Fresh, H \in Helpers(p) :
          /\ pid' = [pid EXCEPT ![p] = k]
          /\ kstate' = [j \in Pids |-> IF j \in H \cup {k} THEN "run" ELSE kstate[j]]
    BY ONLY <1>2 DEF Fork
  <2>2. k \in Pids /\ kstate[k] = "none" /\ \A h \in H : kstate[h] = "none"
    BY DEF Fresh, Helpers
  <2>3. Life(p) = "idle"
    BY <1>2 DEF Fork, Life
  <2>4. Life(p)' = "running"
    BY <2>1, <2>2 DEF Life, TypeOK, NamesAssumption
  <2>5. \A r \in Procs \ {p} : Life(r)' = Life(r)
    <3> SUFFICES ASSUME NEW r \in Procs \ {p} PROVE Life(r)' = Life(r)
      OBVIOUS
    <3>1. pid'[r] = pid[r]
      BY <2>1 DEF TypeOK
    <3>2. pid[r] # NoPid => kstate'[pid[r]] = kstate[pid[r]]
      BY <2>1, <2>2 DEF ChildrenAreDistinct, TypeOK
    <3>3. QED  BY <3>1, <3>2 DEF Life
  <2>6. St' = [St EXCEPT ![p] = "running"]
    BY <2>4, <2>5, OneLifeChanges
  <2>7. inq' = inq
    BY <1>2 DEF Fork, Open, ClosedIsEmpty, TypeOK, PipeTypeOK, PipesOf
  <2>8. pc' = pc
    BY <1>2 DEF Fork
  <2>9. W!Start(p)
    <3>1. Twins' = [Twins EXCEPT ![p] = k \in Joined]
      BY <2>1, OneTwinChanges
    <3>2. PICK b \in {FALSE, Joined # {}} : b = (k \in Joined)
      <4>1. (k \in Joined) = FALSE \/ (k \in Joined) = (Joined # {})
        OBVIOUS
      <4> QED
        BY <4>1
    <3>3. Twins' = [Twins EXCEPT ![p] = b]
      BY <3>1, <3>2, Zenon
    <3>4. \E c \in {FALSE, Joined # {}} : Twins' = [Twins EXCEPT ![p] = c]
      BY <3>3, Zenon
    <3> QED
      BY <2>3, <2>6, <2>7, <2>8, <3>4, Zenon DEF W!Start, St, Twins
  <2>10. QED  BY <2>9 DEF W!Next
<1>3. ASSUME NEW p \in Dropped, UserTerminates(p) PROVE Goal
  <2>1. p \in Procs
    BY DEF NamesAssumption
  <2>2. Terminate(p, 0) /\ kstate' = kstate /\ pc' = pc
    BY <1>3 DEF UserTerminates, mainVars
  <2>3. W!Drop(p)
    BY <2>1, <2>2, TerminateSeen DEF W!Drop, W!GivenUp, St, Twins
  <2>4. QED  BY <2>1, <2>3 DEF W!Next
<1>4. CASE Report
  <2>1. PICK v \in Procs :
          /\ v = victim /\ pid[v] # NoPid
          /\ Terminate(v, code) /\ kstate' = kstate
          /\ pc = "final" /\ pc' = "handler" /\ todo = {} /\ cur = NoPipe
    BY <1>4 DEF Report, FinalReads, OnlyTheDeadAreReported
  <2>2. W!GivenUp(v)
    BY <2>1, TerminateSeen DEF W!GivenUp, St, Twins
  <2>3. CASE pid[v] \in Joined
    <3>1. Life(v) # "idle"
      BY <2>1 DEF Life
    <3>2. W!Mistake(v)
      BY <2>1, <2>2, <2>3, <3>1 DEF W!Mistake
    <3> QED  BY <2>1, <3>2 DEF W!Next
  <2>4. CASE pid[v] \notin Joined
    <3>1. Life(v) = "dead"
      BY <2>1, <2>4 DEF Life, OnlyTheDeadAreReported
    <3>2. \A q \in W!Of(v) \ Deaf : inq[q] = 0
      BY <2>1, <2>4 DEF W!Of, PipesOf, DrainedBeforeReport, NamesAssumption
    <3>3. W!GiveBack(v)
      BY <2>1, <2>2, <3>1, <3>2 DEF W!GiveBack
    <3> QED  BY <2>1, <3>3 DEF W!Next
  <2>5. QED  BY <2>3, <2>4
<1>5. CASE ScanAlarm
  <2>1. \A p \in Procs : Life(p)' = "idle"
    BY <1>5 DEF ScanAlarm, Life
  <2>2. inq' = W!Emptied({q \in Pipes : Owner[q] # NoProc})
    BY <1>5 DEF ScanAlarm, Close, Separate, PipesOf, W!Emptied
  <2>3. \A p \in Procs : (pid'[p] \in Joined) = FALSE
    BY <1>5 DEF ScanAlarm
  <2>4. [p \in Procs |-> pid[p] \in Joined]' = [p \in Procs |-> FALSE]
    BY <2>3, Zenon
  <2>5. W!Leave
    BY <1>5, <2>1, <2>2, <2>4 DEF ScanAlarm, W!Leave
  <2>6. QED  BY <2>5 DEF W!Next
<1>6. CASE ReceiverReads
  <2>1. cur \in Pipes
    BY <1>6 DEF ReceiverReads, TypeOK
  <2>2. UNCHANGED <<pid, kstate, pc>>
    BY <1>6 DEF ReceiverReads, procVars, childVars
  <2>3. CASE ReadData(cur)
    <3>1. inq[cur] > 0 /\ inq' = [inq EXCEPT ![cur] = @ - 1]
      BY <2>3 DEF ReadData
    <3>2. St' = St /\ Twins' = Twins
      BY <2>2 DEF St, Twins, Life
    <3>3. W!HandOut(cur)
      BY <2>2, <3>1, <3>2 DEF W!HandOut, St, Twins
    <3>4. QED  BY <2>1, <3>3 DEF W!Next
  <2>4. CASE ReadFails(cur)
    <3>1. inq' = inq
      BY <2>1, <2>4, ReadFailsInv DEF PipeInv, TypeOK
    <3>2. QED  BY <2>2, <3>1, Stutters
  <2>5. QED  BY <1>6, <2>3, <2>4 DEF ReceiverReads
<1>7. CASE MainThread /\ ~(Report \/ ScanAlarm \/ ReceiverReads)
  <2>1. UNCHANGED <<pid, inq, kstate>>
    BY <1>7 DEF MainThread, Run, LeaveLoop, Select, ScanDone, NobodyReceives, ScanStranger,
       HandlerReturns, ScanDeath, ScanPipe, ScanUnknown, FinalRead, LastRead, LastReadDone,
       LastReadPipe, FirstReadAfterSelect, pipeVars, procVars, childVars
  <2>2. (pc # "exited" /\ pc' # "exited") \/ pc' = pc
    BY <1>7 DEF MainThread, Run, LeaveLoop, Select, ScanDone, NobodyReceives, ScanStranger,
       HandlerReturns, ScanDeath, ScanPipe, ScanUnknown, FinalRead, LastRead, LastReadDone,
       LastReadPipe, Scanning, ReadSigPipe
  <2>3. QED  BY <2>1, <2>2, Stutters
<1>8. ASSUME NEW q \in Pipes, OtherSideWrites(q) PROVE Goal
  <2>1. UNCHANGED <<pid, kstate, pc>> /\ PeerWrite(q) /\ Holds(q)
    BY <1>8 DEF OtherSideWrites, mainVars, procVars, childVars
  <2>2. CASE open[q]
    <3>1. inq[q] < Cap /\ inq' = [inq EXCEPT ![q] = @ + 1]
      BY <2>1, <2>2 DEF PeerWrite
    <3>2. Owner[q] # NoProc => Owner[q] \in Procs /\ Life(Owner[q]) = "running"
      BY <2>1 DEF Holds, Life, OwnerAssumption
    <3>3. St' = St /\ Twins' = Twins
      BY <2>1 DEF St, Twins, Life
    <3>4. W!Produce(q)
      BY <2>1, <3>1, <3>2, <3>3 DEF W!Produce, St, Twins
    <3>5. QED  BY <3>4 DEF W!Next
  <2>3. CASE ~open[q]
    <3>1. inq' = inq
      BY <2>1, <2>3 DEF PeerWrite, TypeOK, PipeTypeOK
    <3>2. QED  BY <2>1, <3>1, Stutters
  <2>4. QED  BY <2>2, <2>3
<1>9. ASSUME NEW q \in Pipes, OtherSideCloses(q) PROVE Goal
  BY <1>9, Stutters DEF OtherSideCloses, PeerClose, mainVars, procVars, childVars
<1>10. ASSUME NEW k \in Pids, NEW e \in Endings, ChildEnds(k, e) PROVE Goal
  <2>1. /\ UNCHANGED <<pid, inq, pc>>
        /\ kstate[k] = "run" /\ kstate' = [kstate EXCEPT ![k] = "zombie"]
    BY <1>10 DEF ChildEnds, pipeVars, mainVars, procVars
  <2>2. CASE \E p \in Procs : pid[p] = k
    <3>1. PICK p \in Procs : pid[p] = k
      BY <2>2
    <3>2. k # NoPid
      BY DEF NamesAssumption
    <3>3. Life(p) = "running" /\ Life(p)' = "dead"
      BY <2>1, <3>1, <3>2 DEF Life, TypeOK
    <3>4. \A r \in Procs \ {p} : Life(r)' = Life(r)
      BY <2>1, <3>1, <3>2 DEF Life, TypeOK, ChildrenAreDistinct
    <3>5. St' = [St EXCEPT ![p] = "dead"]
      BY <3>3, <3>4, OneLifeChanges
    <3>6. Twins' = Twins
      BY <2>1 DEF Twins
    <3>7. W!Die(p)
      BY <2>1, <3>3, <3>5, <3>6 DEF W!Die, St, Twins
    <3>8. QED  BY <3>7 DEF W!Next
  <2>3. CASE \A p \in Procs : pid[p] # k
    BY <2>1, <2>3, Stutters DEF TypeOK
  <2>4. QED  BY <2>2, <2>3
<1>11. CASE SigChld
  <2>1. PICK k \in Pids : kstate[k] = "zombie" /\ kstate' = [kstate EXCEPT ![k] = "reaped"]
    BY <1>11 DEF SigChld
  <2>2. \A j \in Pids : kstate'[j] = "run" <=> kstate[j] = "run"
    BY <2>1 DEF TypeOK
  <2>3. QED
    BY <1>11, <2>2, Stutters DEF SigChld, TypeOK, pipeVars, mainVars, procVars
<1>12. CASE SigTerm \/ UNCHANGED vars
  BY <1>12, Stutters DEF SigTerm, vars, pipeVars, mainVars, procVars, childVars
<1>13. QED
  BY <1>1, <1>2, <1>3, <1>4, <1>5, <1>6, <1>7, <1>8, <1>9, <1>10, <1>11, <1>12
     DEF Next, User, World

(* main and ext_process keep the promise of Watch, whatever children,      *)
(* signals and users do and in whatever order they do it.                  *)
THEOREM LoopImplementsWatch == Spec => WatchSpec
<1>1. Init => W!Init
  BY InitRefines
<1>2. Inv /\ [Next]_vars => [W!Next]_(W!watchVars)
  BY StepRefines
<1>3. QED  BY <1>1, <1>2, InvHolds, PTL DEF Spec, WatchSpec, W!Spec

-----------------------------------------------------------------------------
(* Messages are true; a zombie has a SIGCHLD pending; a process whose      *)
(* child is collected is announced or is the victim; the victim is dead.   *)
MessagesAreTrue ==
  \A i \in DOMAIN sigpipe : sigpipe[i] # Alarm => sigpipe[i].end = kend[sigpipe[i].pid]
DeathsAreKnown ==
  /\ pc # "exited" => \A k \in Pids : kstate[k] = "zombie" => sigchld
  /\ \A p \in Procs : pid[p] # NoPid /\ kstate[pid[p]] = "reaped" =>
       (pc = "final" /\ victim = p) \/ Announced(pid[p])
VictimIsDead == pc = "final" => kstate[pid[victim]] = "reaped"
DeathInv == MessagesAreTrue /\ DeathsAreKnown /\ VictimIsDead /\ ReportedCodeIsTrue

LEMMA DeathInvInit == Init => DeathInv
BY DEF Init, DeathInv, MessagesAreTrue, DeathsAreKnown, VictimIsDead, ReportedCodeIsTrue

(* With one death at a time the signal pipe holds at most one message      *)
(* about a child, and it is read as it was written.                        *)
LEMMA OneMessage ==
  ASSUME Inv, OneDeathAtATime, sigpipe # <<>>, sigpipe[1] # Alarm
  PROVE  /\ sigpipe[1] \in Messages /\ sigpipe[1].pid \in Pids
         /\ \A k \in Pids : Announced(k) => k = sigpipe[1].pid
         /\ MessagesAreTrue =>
              \A m \in Parsed(sigpipe) : m.pid = sigpipe[1].pid /\ m.code = CodeOf(sigpipe[1])
<1>1. sigpipe \in Seq(Messages) /\ Len(sigpipe) \in Nat /\ Len(sigpipe) >= 1 /\ 1 \in DOMAIN sigpipe
  BY DEF Inv, TypeOK
<1>2. \A m \in Messages : m # Alarm => m \in [pid : Pids, end : Endings]
  BY DEF Messages
<1>3. sigpipe[1] \in Messages /\ sigpipe[1].pid \in Pids
  BY <1>1, <1>2
<1>4. \A k \in Pids : Announced(k) => k = sigpipe[1].pid
  BY <1>1, <1>3 DEF OneDeathAtATime, Dying, Announced
<1>5. ASSUME MessagesAreTrue, Len(sigpipe) # 1, sigpipe[2] # Alarm PROVE FALSE
  <2>1. 2 \in DOMAIN sigpipe
    <3>1. \A n \in Nat : n >= 1 /\ n # 1 => 2 \in 1..n
      OBVIOUS
    <3>2. 2 \in 1..Len(sigpipe)
      BY <1>1, <1>5, <3>1
    <3> QED  BY <1>1, <3>2
  <2>2. sigpipe[2] \in [pid : Pids, end : Endings] /\ sigpipe[1] \in [pid : Pids, end : Endings]
    BY <1>1, <1>2, <1>5, <2>1
  <2>3. sigpipe[2].pid = sigpipe[1].pid
    BY <1>4, <1>5, <2>1, <2>2 DEF Announced
  <2>4. sigpipe[2].end = sigpipe[1].end
    BY <1>1, <1>5, <2>1, <2>3 DEF MessagesAreTrue
  <2>5. sigpipe[2] = sigpipe[1]
    BY <2>2, <2>3, <2>4
  <2> QED
    BY <1>1, <2>1, <2>5 DEF Inv, MessagesAreDeaths, NoMessageTwice
<1>6. ASSUME MessagesAreTrue, NEW m \in Parsed(sigpipe)
      PROVE  m.pid = sigpipe[1].pid /\ m.code = CodeOf(sigpipe[1])
  <2>1. Len(sigpipe) = 1 \/ sigpipe[2] = Alarm
    BY <1>5, <1>6
  <2>2. PICK n \in DOMAIN sigpipe : /\ \A i \in 1..(n - 1) : ~NumberEnds(sigpipe, i)
                                   /\ m \in [pid : PidsAt(sigpipe, n), code : {CodeAt(sigpipe, n)}]
    BY <1>6 DEF Parsed, FirstNumber
  <2>3. NumberEnds(sigpipe, 1)
    BY <2>1 DEF NumberEnds
  <2>4. n = 1
    <3>1. n \in Nat /\ n >= 1
      BY <1>1, <2>2
    <3>2. n # 1 => 1 \in 1..(n - 1)
      BY <3>1
    <3> QED
      BY <2>2, <2>3, <3>2
  <2>5. m.pid = sigpipe[1].pid
    BY <2>2, <2>4 DEF PidsAt
  <2>6. CodeAt(sigpipe, 1) = CodeOf(sigpipe[1])
    BY <2>1 DEF CodeAt, CodeOf, Bare
  <2> QED
    BY <2>2, <2>4, <2>5, <2>6
<1> QED
  BY <1>3, <1>4, <1>6

(* A step that leaves the signal pipe, the collected children, their ends  *)
(* and the death in hand alone.                                            *)
LEMMA DeathInvKept ==
  ASSUME Inv, DeathInv, UNCHANGED <<sigpipe, kend, sigchld>>, pc' = "exited" <=> pc = "exited",
         \A k \in Pids : kstate[k] = "none" \/ kstate'[k] = kstate[k],
         \A k \in Pids : kstate[k] = "none" => kstate'[k] \in {"none", "run"},
         \A p \in Procs : pid'[p] = pid[p] \/ pid'[p] = NoPid \/ kstate[pid'[p]] = "none",
         \A p \in Procs : pid'[p] \in Pids \cup {NoPid},
         pc = "final" => UNCHANGED <<pc, victim, code, pid>> \/ (pc' # "final" /\ pid'[victim] = NoPid),
         pc' = "final" => pc = "final"
  PROVE  DeathInv'
<1> USE DEF Inv, DeathInv
<1>1. \A k \in Pids : kstate'[k] = "zombie" <=> kstate[k] = "zombie"
  OBVIOUS
<1>2. \A k \in Pids : kstate'[k] = "reaped" <=> kstate[k] = "reaped"
  OBVIOUS
<1>3. MessagesAreTrue'
  BY DEF MessagesAreTrue
<1>4. DeathsAreKnown'
  <2>1. ASSUME NEW p \in Procs, pid'[p] # NoPid, kstate'[pid'[p]] = "reaped"
        PROVE  (pc' = "final" /\ victim' = p) \/ Announced(pid[p])'
    <3>1. pid'[p] = pid[p] /\ kstate[pid[p]] = "reaped"
      BY <1>2, <2>1
    <3> QED
      BY <2>1, <3>1 DEF DeathsAreKnown, Announced
  <2> QED
    BY <1>1, <2>1 DEF DeathsAreKnown
<1>5. ReportedCodeIsTrue'
  BY DEF ReportedCodeIsTrue, CodeOf
<1>6. VictimIsDead'
  BY DEF VictimIsDead, FinalReads, OnlyTheDeadAreReported, TypeOK
<1> QED
  BY <1>3, <1>4, <1>5, <1>6

LEMMA DeathInvStep ==
  ASSUME Inv, OneDeathAtATime, DeathInv, [Next]_vars
  PROVE  DeathInv'
<1> USE DEF Inv
<1>1. ASSUME NEW p \in Procs, SetupPipes(p) \/ Fork(p) PROVE DeathInv'
  <2>1. \A H \in Helpers(p) : H \subseteq Fresh
    BY DEF Helpers
  <2>2. \A k \in Pids : kstate[k] = "none" \/ kstate'[k] = kstate[k]
    BY <1>1, <2>1 DEF SetupPipes, Fork, Fresh, TypeOK
  <2>3. \A k \in Pids : kstate[k] = "none" => kstate'[k] \in {"none", "run"}
    BY <1>1, <2>1 DEF SetupPipes, Fork, Fresh, TypeOK
  <2>4. \A r \in Procs : pid'[r] \in Pids \cup {NoPid}
    BY TypeStep, <1>1 DEF TypeOK, Next, User
  <2>5. \A r \in Procs : pid'[r] = pid[r] \/ pid'[r] = NoPid \/ kstate[pid'[r]] = "none"
    BY <1>1 DEF SetupPipes, Fork, Fresh, TypeOK
  <2>6. UNCHANGED <<sigpipe, kend, sigchld, pc>> /\ pc # "final"
    BY <1>1 DEF SetupPipes, Fork, UserRuns, sigVars, mainVars
  <2> QED
    BY <2>2, <2>3, <2>4, <2>5, <2>6, DeathInvKept
<1>2. ASSUME NEW p \in Procs, UserTerminates(p) PROVE DeathInv'
  <2>1. /\ UNCHANGED <<sigpipe, kend, kstate, sigchld, pc>> /\ pc # "final"
        /\ pid' = [pid EXCEPT ![p] = NoPid]
    BY <1>2 DEF UserTerminates, Terminate, UserRuns, sigVars, mainVars
  <2> QED
    BY <2>1, DeathInvKept DEF TypeOK
<1>3. CASE Report
  <2>1. /\ UNCHANGED <<sigpipe, kend, kstate, sigchld>> /\ pc' = "handler" /\ victim \in Procs
        /\ pid' = [pid EXCEPT ![victim] = NoPid]
    BY <1>3 DEF Report, Terminate, FinalReads, sigVars
  <2> QED
    BY <1>3, <2>1, DeathInvKept DEF Report, TypeOK
<1>4. CASE ScanAlarm
  <2>1. /\ sigpipe' = <<>> /\ pc' = "exited" /\ \A p \in Procs : pid'[p] = NoPid
    BY <1>4 DEF ScanAlarm, ReadSigPipe
  <2> QED
    BY <2>1 DEF DeathInv, MessagesAreTrue, DeathsAreKnown, VictimIsDead, ReportedCodeIsTrue
<1>5. CASE ScanStranger \/ \E p \in Procs : ScanDeath(p)
  <2>1. /\ sigpipe # <<>> /\ sigpipe[1] # Alarm /\ sigpipe' = <<>> /\ pc # "final" /\ pc # "exited"
        /\ UNCHANGED <<pid, kstate, kend, sigchld>>
    BY <1>5 DEF ScanStranger, ScanDeath, ReadSigPipe, Scanning, MessagesAreDeaths, procVars, childVars
  <2> DEFINE m == sigpipe[1]
  <2>2. /\ m.pid \in Pids /\ \A k \in Pids : Announced(k) => k = m.pid
        /\ \A r \in Parsed(sigpipe) : r.pid = m.pid /\ r.code = CodeOf(m)
    BY <2>1, OneMessage DEF DeathInv
  <2>3. m.end = kend[m.pid]
    BY <2>1 DEF DeathInv, MessagesAreTrue, TypeOK
  <2> HIDE DEF m
  <2>4. \A p \in Procs, r \in Parsed(sigpipe) : p \in Named(r) <=> pid[p] = m.pid
    BY <2>2 DEF Named
  <2>5. ASSUME NEW p \in Procs, pid[p] # NoPid, kstate[pid[p]] = "reaped"
        PROVE  pid[p] = m.pid
    BY <2>1, <2>2, <2>5 DEF DeathInv, DeathsAreKnown, TypeOK
  <2>6. MessagesAreTrue'
    BY <2>1 DEF MessagesAreTrue
  <2>7. CASE ScanStranger
    <3>1. \A p \in Procs : pid[p] # m.pid /\ UNCHANGED pc
      BY <2>4, <2>7 DEF ScanStranger
    <3>2. DeathsAreKnown'
      BY <2>1, <2>5, <3>1 DEF DeathInv, DeathsAreKnown
    <3>3. pc' # "final"
      BY <2>1, <3>1, <2>7 DEF ScanStranger
    <3> QED
      BY <2>6, <3>2, <3>3 DEF DeathInv, VictimIsDead, ReportedCodeIsTrue
  <2>8. ASSUME NEW p \in Procs, ScanDeath(p) PROVE DeathInv'
    <3>1. pid[p] = m.pid /\ pc' = "final" /\ victim' = p /\ code' = CodeOf(m)
      BY <2>2, <2>4, <2>8 DEF ScanDeath
    <3>2. \A r \in Procs : pid[r] = m.pid => r = p
      BY <3>1, <2>2 DEF ChildrenAreDistinct
    <3>3. DeathsAreKnown'
      BY <2>1, <2>5, <3>1, <3>2 DEF DeathInv, DeathsAreKnown
    <3>4. ReportedCodeIsTrue'
      BY <2>1, <2>3, <3>1 DEF ReportedCodeIsTrue, CodeOf
    <3>5. VictimIsDead'
      <4>1. 1 \in DOMAIN sigpipe
        BY <2>1 DEF TypeOK
      <4> QED
        BY <2>1, <3>1, <4>1 DEF VictimIsDead, MessagesAreDeaths, m
    <3> QED
      BY <2>6, <3>3, <3>4, <3>5 DEF DeathInv
  <2> QED
    BY <1>5, <2>7, <2>8
<1>6. CASE MainThread /\ ~(Report \/ ScanAlarm \/ ScanStranger \/ \E p \in Procs : ScanDeath(p))
  <2>1. /\ UNCHANGED <<sigpipe, kend, kstate, sigchld, pid>>
        /\ (pc # "exited" /\ pc' # "exited") \/ pc' = pc
        /\ pc = "final" => UNCHANGED <<pc, victim, code>>
        /\ pc' = "final" => pc = "final"
    BY <1>6 DEF MainThread, Run, LeaveLoop, Select, ScanDone, ReceiverReads, NobodyReceives,
       HandlerReturns, ScanPipe, ScanUnknown, FinalRead, LastRead, LastReadDone, LastReadPipe,
       Scanning, procVars, childVars, sigVars
  <2> QED
    BY <2>1, DeathInvKept DEF TypeOK
<1>7. ASSUME NEW q \in Pipes, OtherSideWrites(q) \/ OtherSideCloses(q) PROVE DeathInv'
  BY <1>7, DeathInvKept DEF OtherSideWrites, OtherSideCloses, mainVars, procVars, childVars, sigVars, TypeOK
<1>8. ASSUME NEW k \in Pids, NEW e \in Endings, ChildEnds(k, e) PROVE DeathInv'
  <2>1. /\ UNCHANGED <<sigpipe, pid, pc, victim, code>> /\ sigchld' = TRUE
        /\ kstate[k] = "run" /\ kstate'[k] = "zombie"
        /\ \A j \in Pids : j # k => kstate'[j] = kstate[j] /\ kend'[j] = kend[j]
    BY <1>8 DEF ChildEnds, mainVars, procVars, TypeOK
  <2>2. MessagesAreTrue'
    <3>1. \A i \in DOMAIN sigpipe : sigpipe[i] # Alarm =>
             sigpipe[i].pid \in Pids /\ kstate[sigpipe[i].pid] = "reaped"
      BY DEF MessagesAreDeaths, TypeOK, Messages
    <3> QED
      BY <2>1, <3>1 DEF DeathInv, MessagesAreTrue
  <2>3. DeathsAreKnown'
    BY <2>1 DEF DeathInv, DeathsAreKnown, Announced, TypeOK
  <2>4. ReportedCodeIsTrue'
    BY <2>1 DEF DeathInv, ReportedCodeIsTrue, CodeOf, VictimIsDead, OnlyTheDeadAreReported, FinalReads, TypeOK
  <2>5. VictimIsDead'
    BY <2>1 DEF DeathInv, VictimIsDead, OnlyTheDeadAreReported, FinalReads, TypeOK
  <2> QED
    BY <2>2, <2>3, <2>4, <2>5 DEF DeathInv
<1>9. CASE SigChld
  <2>1. PICK k \in Pids : /\ kstate[k] = "zombie"
                          /\ kstate' = [kstate EXCEPT ![k] = "reaped"]
                          /\ sigpipe' = Append(sigpipe, [pid |-> k, end |-> kend[k]])
    BY <1>9 DEF SigChld
  <2>2. UNCHANGED <<pid, pc, victim, code, kend>> /\ pc # "exited"
    BY <1>9 DEF SigChld, mainVars, procVars
  <2>3. \A i \in DOMAIN sigpipe' : (i \in DOMAIN sigpipe /\ sigpipe'[i] = sigpipe[i])
                                   \/ sigpipe'[i] = [pid |-> k, end |-> kend[k]]
    BY <2>1 DEF TypeOK
  <2>4. MessagesAreTrue'
    BY <2>2, <2>3 DEF DeathInv, MessagesAreTrue
  <2>5. [pid |-> k, end |-> kend[k]] # Alarm
    BY DEF TypeOK, Endings
  <2>6. Announced(k)' /\ \A j : Announced(j) => Announced(j)'
    <3>1. Len(sigpipe) + 1 \in DOMAIN sigpipe' /\ sigpipe'[Len(sigpipe) + 1] = [pid |-> k, end |-> kend[k]]
      BY <2>1 DEF TypeOK
    <3>2. \A i \in DOMAIN sigpipe : i \in DOMAIN sigpipe' /\ sigpipe'[i] = sigpipe[i]
      BY <2>1 DEF TypeOK
    <3> QED
      BY <2>5, <3>1, <3>2 DEF Announced
  <2>7. \A j \in Pids : kstate'[j] # "zombie"
    BY <2>1 DEF OneDeathAtATime, Dying, TypeOK
  <2>8. DeathsAreKnown'
    BY <2>1, <2>2, <2>6, <2>7 DEF DeathInv, DeathsAreKnown, TypeOK
  <2>9. ReportedCodeIsTrue'
    BY <2>2 DEF DeathInv, ReportedCodeIsTrue, CodeOf
  <2>10. VictimIsDead'
    BY <2>1, <2>2 DEF DeathInv, VictimIsDead, TypeOK
  <2> QED
    BY <2>4, <2>8, <2>9, <2>10 DEF DeathInv
<1>10. CASE SigTerm
  <2>1. sigpipe' = Append(sigpipe, Alarm) /\ UNCHANGED <<pid, pc, victim, code, kstate, kend, sigchld>>
    BY <1>10 DEF SigTerm, mainVars, procVars, childVars
  <2>2. \A i \in DOMAIN sigpipe' : (i \in DOMAIN sigpipe /\ sigpipe'[i] = sigpipe[i]) \/ sigpipe'[i] = Alarm
    BY <2>1 DEF TypeOK
  <2>3. \A i \in DOMAIN sigpipe : i \in DOMAIN sigpipe' /\ sigpipe'[i] = sigpipe[i]
    BY <2>1 DEF TypeOK
  <2>4. MessagesAreTrue'
    BY <2>1, <2>2 DEF DeathInv, MessagesAreTrue
  <2>5. DeathsAreKnown'
    BY <2>1, <2>3 DEF DeathInv, DeathsAreKnown, Announced
  <2>6. ReportedCodeIsTrue'
    BY <2>1 DEF DeathInv, ReportedCodeIsTrue, CodeOf
  <2>7. VictimIsDead'
    BY <2>1 DEF DeathInv, VictimIsDead
  <2> QED
    BY <2>4, <2>5, <2>6, <2>7 DEF DeathInv
<1>11. CASE UNCHANGED vars
  BY <1>11, DeathInvKept DEF vars, mainVars, procVars, childVars, sigVars, TypeOK
<1> QED
  BY <1>1, <1>2, <1>3, <1>4, <1>5, <1>6, <1>7, <1>8, <1>9, <1>10, <1>11
     DEF Next, User, World

LEMMA DeathInvHolds == Spec /\ []OneDeathAtATime => []DeathInv
<1>1. Inv /\ OneDeathAtATime /\ DeathInv /\ [Next]_vars => DeathInv'
  BY DeathInvStep
<1> QED
  BY <1>1, DeathInvInit, InvHolds, PTL DEF Spec

(* The message of every child that is collected reaches the process it     *)
(* belongs to: select_callback() looks at one message of the signal pipe   *)
(* only, which loses nothing while children do not die together.           *)
THEOREM NoneIsLost == Spec /\ []OneDeathAtATime => []NoDeathIsLost
<1>1. Inv /\ DeathInv => NoDeathIsLost
  BY DEF Inv, TypeOK, DeathInv, DeathsAreKnown, NoDeathIsLost
<1> QED
  BY <1>1, DeathInvHolds, InvHolds, PTL

(* And the exit code that process_died hears is that child's own: sscanf() *)
(* has one message before it, not two run together.                        *)
THEOREM CodeIsTrue == Spec /\ []OneDeathAtATime => []ReportedCodeIsTrue
<1>1. DeathInv => ReportedCodeIsTrue
  BY DEF DeathInv
<1> QED
  BY <1>1, DeathInvHolds, PTL

-----------------------------------------------------------------------------
(* One process without helpers, which its user does not terminate(): the   *)
(* children follow one another, each known to the process until the loop   *)
(* has read of its death.                                                  *)
OneProcess == (\A p, r \in Procs : p = r) /\ Searched = {} /\ Dropped = {}

Busy(k) == kstate[k] \in {"run", "zombie"} \/ Announced(k)

OneChild ==
  /\ \A j, k \in Pids : Busy(j) /\ Busy(k) => j = k
  /\ pc # "exited" => \A k \in Pids : Busy(k) => \E p \in Procs : pid[p] = k
  /\ pc = "final" => ~Announced(pid[victim])

LEMMA OneChildInit == Init => OneChild
BY DEF Init, OneChild, Busy, Announced

(* A step after which no child is busy that was not, and the processes     *)
(* keep the busy ones.                                                     *)
LEMMA OneChildKept ==
  ASSUME Inv, OneChild, \A k \in Pids : Busy(k)' => Busy(k),
         pc' = "exited" \/ (pc # "exited" /\ UNCHANGED pid) \/ (\A k \in Pids : ~Busy(k)'),
         pc' = "final" => (pc = "final" /\ UNCHANGED <<victim, pid>> /\ (Announced(pid[victim])' => Announced(pid[victim]))) \/ sigpipe' = <<>>
  PROVE  OneChild'
<1>1. \A j, k \in Pids : Busy(j)' /\ Busy(k)' => j = k
  BY DEF OneChild
<1>2. pc' # "exited" => \A k \in Pids : Busy(k)' => \E p \in Procs : pid'[p] = k
  BY DEF OneChild
<1>3. pc' = "final" => ~Announced(pid[victim])'
  BY DEF OneChild, Announced
<1> QED
  BY <1>1, <1>2, <1>3 DEF OneChild

LEMMA OneChildStep ==
  ASSUME OneProcess, Inv, OneChild, VictimIsDead, [Next]_vars
  PROVE  OneChild'
<1> USE DEF Inv, OneProcess
<1>1. ASSUME NEW p \in Procs, SetupPipes(p) PROVE OneChild'
  <2>1. /\ kstate' = [k \in Pids |-> kstate[k]] /\ UNCHANGED <<pid, pc, sigpipe>> /\ pc \notin {"exited", "final"}
    BY <1>1 DEF SetupPipes, Helpers, UserRuns, mainVars, sigVars
  <2>2. \A k \in Pids : Busy(k)' => Busy(k)
    BY <2>1 DEF Busy, Announced
  <2> QED
    BY <2>1, <2>2, OneChildKept
<1>2. ASSUME NEW p \in Procs, Fork(p) PROVE OneChild'
  <2>1. PICK k \in Fresh : /\ pid' = [pid EXCEPT ![p] = k]
                           /\ kstate' = [j \in Pids |-> IF j = k THEN "run" ELSE kstate[j]]
    <3>1. Helpers(p) = {{}}
      BY DEF Helpers
    <3>2. PICK k \in Fresh, H \in Helpers(p) :
            /\ pid' = [pid EXCEPT ![p] = k]
            /\ kstate' = [j \in Pids |-> IF j \in H \cup {k} THEN "run" ELSE kstate[j]]
      BY ONLY <1>2 DEF Fork
    <3>3. H = {}
      BY <3>1
    <3>4. kstate' = [j \in Pids |-> IF j = k THEN "run" ELSE kstate[j]]
      BY <3>2, <3>3
    <3> QED
      BY <3>2, <3>4
  <2>2. pid[p] = NoPid /\ UNCHANGED <<pc, sigpipe>> /\ pc \notin {"exited", "final"} /\ k \in Pids
    BY <1>2 DEF Fork, UserRuns, sigVars, Fresh
  <2>3. \A j \in Pids : ~Busy(j)
    BY <2>2 DEF OneChild
  <2>4. \A j \in Pids : Busy(j)' => j = k
    BY <2>1, <2>2, <2>3 DEF Busy, Announced
  <2>5. pid'[p] = k
    BY <2>1 DEF TypeOK
  <2> QED
    BY <2>2, <2>4, <2>5 DEF OneChild
<1>3. ASSUME NEW p \in Procs, p \in Dropped PROVE FALSE
  BY <1>3
<1>4. CASE Report
  <2>1. /\ UNCHANGED <<sigpipe, kstate>> /\ pc = "final" /\ pc' = "handler" /\ victim \in Procs
        /\ pid[victim] # NoPid /\ kstate[pid[victim]] = "reaped"
    BY <1>4 DEF Report, FinalReads, OnlyTheDeadAreReported, VictimIsDead, sigVars
  <2>2. \A k \in Pids : Busy(k)' <=> Busy(k)
    BY <2>1 DEF Busy, Announced
  <2>3. \A k \in Pids : Busy(k) => k = pid[victim]
    BY <2>1 DEF OneChild
  <2>4. ~Busy(pid[victim])
    BY <2>1 DEF OneChild, Busy
  <2>5. \A k \in Pids : ~Busy(k)'
    BY <2>2, <2>3, <2>4
  <2> QED
    BY <2>1, <2>2, <2>5, OneChildKept
<1>5. CASE ScanAlarm \/ ScanStranger \/ \E p \in Procs : ScanDeath(p)
  <2>1. /\ sigpipe' = <<>> /\ UNCHANGED kstate /\ pc # "exited" /\ (pc' = "exited" \/ UNCHANGED pid)
    BY <1>5 DEF ScanAlarm, ScanStranger, ScanDeath, ReadSigPipe, Scanning, procVars, childVars
  <2>2. \A k \in Pids : Busy(k)' => Busy(k)
    BY <2>1 DEF Busy, Announced
  <2> QED
    BY <2>1, <2>2, OneChildKept
<1>6. CASE MainThread /\ ~(Report \/ ScanAlarm \/ ScanStranger \/ \E p \in Procs : ScanDeath(p))
  <2>1. /\ UNCHANGED <<sigpipe, kstate, pid>>
        /\ (pc # "exited" /\ pc' # "exited") \/ pc' = pc
        /\ pc' = "final" => pc = "final" /\ UNCHANGED victim
    BY <1>6 DEF MainThread, Run, LeaveLoop, Select, ScanDone, ReceiverReads, NobodyReceives,
       HandlerReturns, ScanPipe, ScanUnknown, FinalRead, LastRead, LastReadDone, LastReadPipe,
       Scanning, procVars, childVars, sigVars
  <2>2. \A k : (Busy(k)' <=> Busy(k)) /\ (Announced(k)' <=> Announced(k))
    BY <2>1 DEF Busy, Announced
  <2>3. pc' = "final" => (Announced(pid[victim])' <=> Announced(pid[victim]))
    BY <2>1 DEF Announced
  <2> QED
    BY <2>1, <2>2, <2>3, OneChildKept
<1>7. CASE UNCHANGED <<pc, victim, pid, sigpipe, kstate>>
  BY <1>7 DEF OneChild, Busy, Announced
<1>8. ASSUME NEW q \in Pipes, OtherSideWrites(q) \/ OtherSideCloses(q) PROVE OneChild'
  BY <1>7, <1>8 DEF OtherSideWrites, OtherSideCloses, mainVars, procVars, childVars, sigVars
<1>9. ASSUME NEW k \in Pids, NEW e \in Endings, ChildEnds(k, e) PROVE OneChild'
  <2>1. /\ UNCHANGED <<sigpipe, pid, pc, victim>>
        /\ kstate[k] = "run" /\ kstate' = [kstate EXCEPT ![k] = "zombie"]
    BY <1>9 DEF ChildEnds, mainVars, procVars
  <2>2. \A j \in Pids : Busy(j)' <=> Busy(j)
    BY <2>1 DEF Busy, Announced, TypeOK
  <2> QED
    BY <2>1, <2>2 DEF OneChild, Announced
<1>10. CASE SigChld
  <2>1. PICK k \in Pids : /\ kstate[k] = "zombie"
                          /\ kstate' = [kstate EXCEPT ![k] = "reaped"]
                          /\ sigpipe' = Append(sigpipe, [pid |-> k, end |-> kend[k]])
    BY <1>10 DEF SigChld
  <2>2. UNCHANGED <<pid, pc, victim>>
    BY <1>10 DEF SigChld, mainVars, procVars
  <2>3. \A i \in DOMAIN sigpipe' : (i \in DOMAIN sigpipe /\ sigpipe'[i] = sigpipe[i])
                                   \/ sigpipe'[i] = [pid |-> k, end |-> kend[k]]
    BY <2>1 DEF TypeOK
  <2>4. \A j : Announced(j)' => Announced(j) \/ j = k
    BY <2>3 DEF Announced
  <2>5. \A j \in Pids : Busy(j)' => Busy(j)
    BY <2>1, <2>4 DEF Busy, TypeOK
  <2>6. pc = "final" => pid[victim] # k
    BY <2>1 DEF VictimIsDead
  <2> QED
    BY <2>2, <2>4, <2>5, <2>6 DEF OneChild
<1>11. CASE SigTerm
  <2>1. sigpipe' = Append(sigpipe, Alarm) /\ UNCHANGED <<pid, pc, victim, kstate>>
    BY <1>11 DEF SigTerm, mainVars, procVars, childVars
  <2>2. \A i \in DOMAIN sigpipe' : (i \in DOMAIN sigpipe /\ sigpipe'[i] = sigpipe[i]) \/ sigpipe'[i] = Alarm
    BY <2>1 DEF TypeOK
  <2>3. \A j : Announced(j)' => Announced(j)
    BY <2>2 DEF Announced
  <2> QED
    BY <2>1, <2>3 DEF OneChild, Busy
<1>12. CASE UNCHANGED vars
  BY <1>7, <1>12 DEF vars, mainVars, procVars, childVars, sigVars
<1> QED
  BY <1>1, <1>2, <1>3, <1>4, <1>5, <1>6, <1>8, <1>9, <1>10, <1>11, <1>12
     DEF Next, User, World

(* One process with one child at a time: every death reaches the loop, and *)
(* with its true exit code, whatever signals and data come in between.     *)
THEOREM OneProcessIsServed ==
  ASSUME OneProcess PROVE Spec => [](NoDeathIsLost /\ ReportedCodeIsTrue)
<1>1. Inv /\ OneChild => OneDeathAtATime
  BY DEF OneChild, OneDeathAtATime, Dying, Busy
<1>2. Inv /\ OneChild /\ DeathInv /\ [Next]_vars => OneChild' /\ DeathInv'
  BY <1>1, OneChildStep, DeathInvStep DEF DeathInv
<1>3. Spec => []OneDeathAtATime
  BY <1>1, <1>2, OneChildInit, DeathInvInit, InvHolds, PTL DEF Spec
<1> QED
  BY <1>3, NoneIsLost, CodeIsTrue, PTL
=============================================================================
