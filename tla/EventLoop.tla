------------------------------ MODULE EventLoop ------------------------------
(***************************************************************************)
(* modglue::main (src/src/main.cc) driving modglue::ext_process            *)
(* (src/src/ext_process.cc): the select loop, the SIGCHLD and SIGTERM      *)
(* handlers and the pipe through which they talk to the loop, the children *)
(* and the pipes to them.                                                  *)
(*                                                                         *)
(* There is one thread, interrupted by signal handlers; children run       *)
(* beside it.  A read(), a select(), a handler and a child's system call   *)
(* are one step each.                                                      *)
(***************************************************************************)
EXTENDS Pipe, Integers, Sequences

CONSTANTS
  Procs,        \* the ext_process objects given to main::add()
  Owner,        \* Owner[q]: the process of pipe q, NoProc for a separate pipe
  Searched,     \* processes whose setup_pipes() runs helpers (which, --list-pipes)
  Dropped,      \* processes that the user may terminate() himself
  Deaf,         \* pipes whose receiver signal has no slot connected
  Pids,         \* the children that can be created: bounds the forks
  Joined,       \* children whose pid is also what other pids make, cut to a
                \* pid_t, when they are written one behind the other
  Codes,        \* exit codes
  NoProc, NoPid, NoPipe,
  SigFd,        \* sig_chld_pipe_[0], as a member of an fd_set
  Signalled,    \* how a child ended: not by exit() but by a signal
  Garbled,      \* two numbers run together by sscanf
  Alarm         \* the "T" that sig_term_ writes

ASSUME OwnerAssumption == Owner \in [Pipes -> Procs \cup {NoProc}]
ASSUME NamesAssumption ==
  /\ NoProc \notin Procs /\ NoPid \notin Pids /\ NoPipe \notin Pipes
  /\ SigFd \notin Pipes
  /\ Alarm \notin [pid : Pids, end : Codes \cup {Signalled}]
  /\ Joined \subseteq Pids /\ Searched \subseteq Procs /\ Dropped \subseteq Procs /\ Deaf \subseteq Pipes
  /\ 0 \in Codes /\ Signalled \notin Codes /\ Garbled \notin Codes

VARIABLES
  pc,           \* where the thread is: "setup", "loop", "scan", "final",
                \* "handler", "returned", "last", "finished", "exited"
  cur,          \* the pipe whose receiver is running, or NoPipe
  ready,        \* bits of rfds not yet passed on to select_callback
  victim,       \* the process whose death is being handled, or NoProc
  todo,         \* its pipes not yet read for the last time (or last_read's)
  code,         \* exit_code as parsed from the message
  stop,         \* terminate_main_loop_
  pid,          \* pid_ of each process, NoPid for 0
  exitCode,     \* exit_code_ of each process
  done,         \* pipes_done_ of each process
  kstate,       \* the kernel's view of each child
  kend,         \* how each child ended
  termed,       \* children to which a SIGTERM was delivered
  sigchld,      \* SIGCHLD is pending: a bit, not a count
  sigpipe,      \* messages in sig_chld_pipe_
  alarmed       \* SIGTERM has reached the program (at most one is modelled)

mainVars  == <<pc, cur, ready, victim, todo, code, stop>>
procVars  == <<pid, exitCode, done>>
childVars == <<kstate, kend, termed>>
sigVars   == <<sigchld, sigpipe, alarmed>>
vars      == <<pipeVars, mainVars, procVars, childVars, sigVars>>

PipesOf(p) == {q \in Pipes : Owner[q] = p}
Separate   == PipesOf(NoProc)
Endings    == Codes \cup {Signalled}
Messages   == [pid : Pids, end : Endings] \cup {Alarm}

TypeOK ==
  /\ PipeTypeOK
  /\ pc \in {"setup", "loop", "scan", "final", "handler",
             "returned", "last", "finished", "exited"}
  /\ cur \in Pipes \cup {NoPipe}
  /\ ready \subseteq Pipes \cup {SigFd}
  /\ victim \in Procs \cup {NoProc}
  /\ todo \subseteq Pipes
  /\ code \in Codes \cup {Garbled}
  /\ stop \in BOOLEAN
  /\ pid \in [Procs -> Pids \cup {NoPid}]
  /\ exitCode \in [Procs -> Codes \cup {Garbled}]
  /\ done \in [Procs -> BOOLEAN]
  /\ kstate \in [Pids -> {"none", "run", "zombie", "reaped"}]
  /\ kend \in [Pids -> Endings]
  /\ termed \subseteq Pids
  /\ sigchld \in BOOLEAN
  /\ sigpipe \in Seq(Messages)
  /\ alarmed \in BOOLEAN

(* After the constructor of main and main::add() of every separate pipe    *)
(* and every process; nothing has been forked.                             *)
Init ==
  /\ PipeInit(Separate)
  /\ pc = "setup" /\ cur = NoPipe /\ ready = {}
  /\ victim = NoProc /\ todo = {} /\ code = 0 /\ stop = FALSE
  /\ pid = [p \in Procs |-> NoPid]
  /\ exitCode = [p \in Procs |-> 0]
  /\ done = [p \in Procs |-> FALSE]
  /\ kstate = [k \in Pids |-> "none"]
  /\ kend = [k \in Pids |-> 0]
  /\ termed = {}
  /\ sigchld = FALSE /\ sigpipe = <<>> /\ alarmed = FALSE

-----------------------------------------------------------------------------
(* Children are created by the user, before run() and in a handler of      *)
(* process_died.                                                           *)
Fresh == {k \in Pids : kstate[k] = "none"}
UserRuns == pc \in {"setup", "handler"}

(* The children that setup_pipes() needs first, one or two: which, for a   *)
(* name without a slash, and the program itself with --list-pipes, for a   *)
(* modglue program.  child_process::call() returns when the helper has     *)
(* closed its output, sends it a SIGTERM and does not wait for it.         *)
Helpers(p) == IF done[p] \/ p \notin Searched THEN {{}} ELSE {{j, k} : j, k \in Fresh}

SetupPipes(p) ==
  /\ UserRuns
  /\ ~done[p]
  /\ \E H \in Helpers(p) :
       kstate' = [k \in Pids |-> IF k \in H THEN "run" ELSE kstate[k]]
  /\ done' = [done EXCEPT ![p] = TRUE]
  /\ UNCHANGED <<pipeVars, mainVars, pid, exitCode, kend, termed, sigVars>>

(* The descriptors of a fork in the handler have the numbers of pipes      *)
(* closed earlier in the same scan: a bit of rfds that is still set for    *)
(* one of those now stands for any of the new ones, or for none.           *)
Stale == {q \in ready \ {SigFd} : ~open[q]}
Inherited(p) == IF Stale = {} THEN {{}} ELSE SUBSET PipesOf(p)

(* ext_process::fork() *)
Fork(p) ==
  /\ UserRuns
  /\ pid[p] = NoPid                                     \* assert(pid_==0)
  /\ Open(PipesOf(p))
  /\ \E k \in Fresh, H \in Helpers(p), old \in Inherited(p) :
       /\ k \notin H
       /\ pid' = [pid EXCEPT ![p] = k]
       /\ kstate' = [j \in Pids |-> IF j \in H \cup {k} THEN "run" ELSE kstate[j]]
       /\ ready' = (ready \ (Stale \cap PipesOf(p))) \cup old
  /\ done' = [done EXCEPT ![p] = TRUE]
  /\ UNCHANGED <<pc, cur, victim, todo, code, stop, exitCode, kend, termed, sigVars>>

(* main::run(), with no --list-pipes *)
Run ==
  /\ pc = "setup"
  /\ pc' = "loop"
  /\ UNCHANGED <<pipeVars, cur, ready, victim, todo, code, stop,
                 procVars, childVars, sigVars>>

-----------------------------------------------------------------------------
WatchedButTheLast ==                       \* mutant: i+1<processes_.size()
  {q \in Separate : ~broken[q] /\ open[q]}
    \cup UNION {PipesOf(p) : p \in {p \in Procs \ {CHOOSE p \in Procs : TRUE} :
                                      \A q \in PipesOf(p) : ~broken[q]}}

(* main::fds_to_watch(), without the signal pipe that is always watched:   *)
(* no pipe of a process one of whose pipes is broken.                      *)
Watched ==
  {q \in Separate : ~broken[q] /\ open[q]}
    \cup UNION {PipesOf(p) : p \in {p \in Procs : \A q \in PipesOf(p) : ~broken[q]}}

(* select_loop_(): leave when only the signal pipe is left, otherwise wait *)
(* until something is readable.                                            *)
LeaveLoop ==
  /\ pc = "loop"
  /\ Watched = {}
  /\ pc' = "returned"
  /\ UNCHANGED <<pipeVars, cur, ready, victim, todo, code, stop,
                 procVars, childVars, sigVars>>

SelectData ==                              \* mutant: the signal pipe is not in rfds
  /\ pc = "loop"
  /\ Watched # {}
  /\ ready' = {q \in Watched : Readable(q)}
  /\ ready' # {}
  /\ pc' = "scan"
  /\ UNCHANGED <<pipeVars, cur, victim, todo, code, stop, procVars, childVars, sigVars>>

Select ==
  /\ pc = "loop"
  /\ Watched # {}
  /\ ready' = {q \in Watched : Readable(q)} \cup (IF sigpipe = <<>> THEN {} ELSE {SigFd})
  /\ ready' # {}
  /\ pc' = "scan"
  /\ UNCHANGED <<pipeVars, cur, victim, todo, code, stop, procVars, childVars, sigVars>>

-----------------------------------------------------------------------------
(* select_callback() for a pipe: announce the select and emit receiver.    *)
Scanning == pc = "scan" /\ cur = NoPipe

ScanPipe(q) ==
  /\ Scanning
  /\ q \in ready /\ ~broken[q]
  /\ FirstReadAfterSelect(q)
  /\ ready' = ready \ {q}
  /\ cur' = q
  /\ UNCHANGED <<pc, victim, todo, code, stop, procVars, childVars, sigVars>>

(* A bit for a pipe that has been closed since the select: no pipe has     *)
(* that descriptor any more.                                               *)
ScanUnknown(q) ==
  /\ Scanning
  /\ q \in ready /\ broken[q]
  /\ ready' = ready \ {q}
  /\ UNCHANGED <<pipeVars, pc, cur, victim, todo, code, stop,
                 procVars, childVars, sigVars>>

ScanDone ==
  /\ Scanning
  /\ ready = {}
  /\ pc' = IF stop THEN "returned" ELSE "loop"
  /\ UNCHANGED <<pipeVars, cur, ready, victim, todo, code, stop,
                 procVars, childVars, sigVars>>

(* The receiver of pipe cur: reads until a read fails, as every receiver   *)
(* of the tests and examples does, then clears the stream and returns.     *)
ReceiverReads ==
  /\ cur # NoPipe /\ cur \notin Deaf
  /\ \/ ReadData(cur) /\ UNCHANGED cur
     \/ ReadFails(cur) /\ cur' = NoPipe
  /\ UNCHANGED <<pc, ready, victim, todo, code, stop, procVars, childVars, sigVars>>

(* Emitting a signal without slots does nothing. *)
NobodyReceives ==
  /\ cur \in Deaf
  /\ cur' = NoPipe
  /\ UNCHANGED <<pipeVars, pc, ready, victim, todo, code, stop,
                 procVars, childVars, sigVars>>

-----------------------------------------------------------------------------
(* What sscanf(buffer, "%ld %d") makes of the whole content of the pipe.   *)
(* Messages are "<pid> <code>", "<pid>" or "T", with nothing between them: *)
(* the first number goes on over the pids of children that a signal ended  *)
(* and stops behind message n.  A pid that several messages have made is   *)
(* that of no child or of one in Joined.                                   *)
Bare(m) == m # Alarm /\ m.end = Signalled
CodeOf(m) == IF m.end = Signalled THEN 0 ELSE m.end

NumberEnds(ms, n) == n = Len(ms) \/ ms[n + 1] = Alarm \/ ~Bare(ms[n])
FirstNumber(ms) ==
  {n \in DOMAIN ms : NumberEnds(ms, n) /\ \A i \in 1..(n - 1) : ~NumberEnds(ms, i)}

PidsAt(ms, n) == IF n = 1 THEN {ms[1].pid} ELSE Joined \cup {NoPid}
CodeAt(ms, n) ==
  IF Bare(ms[n]) THEN 0
  ELSE IF n = Len(ms) \/ ms[n + 1] = Alarm THEN ms[n].end ELSE Garbled

ParsedStrictly(ms) ==                      \* mutant: "T" is read as part of the code
  UNION {[pid : PidsAt(ms, n),
          code : {IF n = Len(ms) THEN CodeOf(ms[n]) ELSE Garbled}] : n \in FirstNumber(ms)}

(* The outcomes, as a set. *)
Parsed(ms) ==
  UNION {[pid : PidsAt(ms, n), code : {CodeAt(ms, n)}] : n \in FirstNumber(ms)}

NamedIdle(m) == {p \in Procs : pid[p] = m.pid}   \* mutant: pid_ 0 matches a failed parse

(* The first process with that pid_, as a set of at most one. *)
Named(m) == {p \in Procs : pid[p] = m.pid /\ m.pid # NoPid}

ReadSigPipe ==
  /\ Scanning
  /\ SigFd \in ready
  /\ ready' = ready \ {SigFd}
  /\ sigpipe' = <<>>

(* kill(k, 0) returns 0 as long as there is a process to signal.           *)
Kill0(k) == IF kstate[k] \in {"run", "zombie"} THEN 0 ELSE -1

(* ext_process::terminate(): the children of S, known by their pid_, to    *)
(* which SIGTERM is delivered: kill(pid_, SIGTERM) when kill(pid_, 0) is   *)
(* not 0.                                                                  *)
Hit(S) == {k \in S \ {NoPid} : Kill0(k) # 0 /\ kstate[k] = "run"}

(* "T": terminate() every process and exit. *)
ScanAlarm ==
  /\ ReadSigPipe
  /\ sigpipe[1] = Alarm
  /\ Close(Pipes \ Separate)
  /\ exitCode' = [p \in Procs |-> 0]
  /\ termed' = termed \cup Hit({pid[p] : p \in Procs})
  /\ pid' = [p \in Procs |-> NoPid]
  /\ pc' = "exited"
  /\ UNCHANGED <<cur, victim, todo, code, stop, done, kstate, kend, sigchld, alarmed>>

(* No process has that pid_: the message is dropped. *)
ScanStranger ==
  /\ ReadSigPipe
  /\ sigpipe[1] # Alarm
  /\ \E m \in Parsed(sigpipe) : Named(m) = {}
  /\ UNCHANGED <<pipeVars, pc, cur, victim, todo, code, stop,
                 procVars, childVars, sigchld, alarmed>>

DeathUnread(p) ==                          \* mutant: no final read
  /\ ReadSigPipe
  /\ sigpipe[1] # Alarm
  /\ \E m \in Parsed(sigpipe) : p \in Named(m) /\ code' = m.code
  /\ pc' = "final"
  /\ victim' = p
  /\ todo' = {}
  /\ UNCHANGED <<pipeVars, cur, stop, procVars, childVars, sigchld, alarmed>>

DeathReadsBroken(p) ==                     \* mutant: is_broken() where last_read() has its negation
  /\ ReadSigPipe
  /\ sigpipe[1] # Alarm
  /\ \E m \in Parsed(sigpipe) : p \in Named(m) /\ code' = m.code
  /\ pc' = "final"
  /\ victim' = p
  /\ todo' = {q \in PipesOf(p) : broken[q]}
  /\ UNCHANGED <<pipeVars, cur, stop, procVars, childVars, sigchld, alarmed>>

(* The death of p: its pipes are read once more, in any order; there was   *)
(* no select, so first_read_after_select() is not called.                  *)
ScanDeath(p) ==
  /\ ReadSigPipe
  /\ sigpipe[1] # Alarm
  /\ \E m \in Parsed(sigpipe) : p \in Named(m) /\ code' = m.code
  /\ pc' = "final"
  /\ victim' = p
  /\ todo' = PipesOf(p)
  /\ UNCHANGED <<pipeVars, cur, stop, procVars, childVars, sigchld, alarmed>>

FinalRead(q) ==
  /\ pc = "final" /\ cur = NoPipe
  /\ q \in todo
  /\ todo' = todo \ {q}
  /\ cur' = q
  /\ UNCHANGED <<pipeVars, pc, ready, victim, code, stop, procVars, childVars, sigVars>>

TerminateOpen(p, c) ==                     \* mutant: the pipes stay open
  /\ exitCode' = [exitCode EXCEPT ![p] = c]
  /\ termed' = termed \cup Hit({pid[p]})
  /\ pid' = [pid EXCEPT ![p] = NoPid]
  /\ UNCHANGED pipeVars

(* ext_process::terminate(exit_code) on p. *)
Terminate(p, c) ==
  /\ Close(PipesOf(p))
  /\ exitCode' = [exitCode EXCEPT ![p] = c]
  /\ termed' = termed \cup Hit({pid[p]})
  /\ pid' = [pid EXCEPT ![p] = NoPid]

(* terminate(exit_code), then process_died is emitted. *)
Report ==
  /\ pc = "final" /\ cur = NoPipe
  /\ todo = {}
  /\ Terminate(victim, code)
  /\ pc' = "handler"
  /\ UNCHANGED <<cur, ready, victim, todo, code, stop, done, kstate, kend, sigVars>>

HandlerReturns ==
  /\ pc = "handler"
  /\ stop' \in {stop, TRUE}
  /\ pc' = "scan"
  /\ victim' = NoProc
  /\ UNCHANGED <<pipeVars, cur, ready, todo, code, procVars, childVars, sigVars>>

(* terminate() called by the user. *)
UserTerminates(p) ==
  /\ UserRuns
  /\ Terminate(p, 0)
  /\ UNCHANGED <<mainVars, done, kstate, kend, sigVars>>

-----------------------------------------------------------------------------
(* main::last_read(), called by the user once run() has returned.          *)
LastRead ==
  /\ pc = "returned"
  /\ pc' = "last"
  /\ todo' = {q \in Pipes : ~broken[q]}
  /\ UNCHANGED <<pipeVars, cur, ready, victim, code, stop, procVars, childVars, sigVars>>

LastReadPipe(q) ==
  /\ pc = "last" /\ cur = NoPipe
  /\ q \in todo
  /\ todo' = todo \ {q}
  /\ FirstReadAfterSelect(q)
  /\ cur' = q
  /\ UNCHANGED <<pc, ready, victim, code, stop, procVars, childVars, sigVars>>

LastReadDone ==
  /\ pc = "last" /\ cur = NoPipe
  /\ todo = {}
  /\ pc' = "finished"
  /\ UNCHANGED <<pipeVars, cur, ready, victim, todo, code, stop,
                 procVars, childVars, sigVars>>

-----------------------------------------------------------------------------
(* The world: children, the other ends of the separate pipes, signals.     *)
Holds(q) == IF Owner[q] = NoProc THEN TRUE
            ELSE pid[Owner[q]] # NoPid /\ kstate[pid[Owner[q]]] = "run"

OtherSideWrites(q) ==
  /\ Holds(q)
  /\ PeerWrite(q)
  /\ UNCHANGED <<mainVars, procVars, childVars, sigVars>>

OtherSideCloses(q) ==
  /\ Holds(q)
  /\ PeerClose(q)
  /\ UNCHANGED <<mainVars, procVars, childVars, sigVars>>

(* The kernel closes the descriptors of a child before it tells the        *)
(* parent.  Signals of the same kind do not queue.                         *)
ChildEnds(k, e) ==
  /\ kstate[k] = "run"
  /\ \A q \in Pipes \ Separate : pid[Owner[q]] = k => ~wopen[q]
  /\ kstate' = [kstate EXCEPT ![k] = "zombie"]
  /\ kend' = [kend EXCEPT ![k] = e]
  /\ sigchld' = TRUE
  /\ UNCHANGED <<pipeVars, mainVars, procVars, termed, sigpipe, alarmed>>

SigChldQuiet ==                            \* mutant: no message for WIFSIGNALED
  /\ sigchld /\ pc # "exited"
  /\ sigchld' = FALSE
  /\ \E k \in {k \in Pids : kstate[k] = "zombie"} :
       /\ kstate' = [kstate EXCEPT ![k] = "reaped"]
       /\ sigpipe' = IF kend[k] = Signalled THEN sigpipe
                     ELSE Append(sigpipe, [pid |-> k, end |-> kend[k]])
  /\ UNCHANGED <<pipeVars, mainVars, procVars, kend, termed, alarmed>>

SigChldLooks ==                            \* mutant: waitid(..., WNOWAIT): the child is not collected
  /\ sigchld /\ pc # "exited"
  /\ sigchld' = FALSE
  /\ \E k \in {k \in Pids : kstate[k] = "zombie"} :
       sigpipe' = Append(sigpipe, [pid |-> k, end |-> kend[k]])
  /\ UNCHANGED <<pipeVars, mainVars, procVars, childVars, alarmed>>

(* main::sig_chld_(): one waitpid() per signal that is delivered. *)
SigChld ==
  /\ sigchld /\ pc # "exited"
  /\ sigchld' = FALSE
  /\ \E k \in {k \in Pids : kstate[k] = "zombie"} :
       /\ kstate' = [kstate EXCEPT ![k] = "reaped"]
       /\ sigpipe' = Append(sigpipe, [pid |-> k, end |-> kend[k]])
  /\ UNCHANGED <<pipeVars, mainVars, procVars, kend, termed, alarmed>>

(* main::sig_term_() *)
SigTerm ==
  /\ ~alarmed /\ pc # "exited"
  /\ alarmed' = TRUE
  /\ sigpipe' = Append(sigpipe, Alarm)
  /\ UNCHANGED <<pipeVars, mainVars, procVars, childVars, sigchld>>

-----------------------------------------------------------------------------
User ==
  \E p \in Procs : SetupPipes(p) \/ Fork(p) \/ (p \in Dropped /\ UserTerminates(p))

MainThread ==
  \/ Run \/ LeaveLoop \/ Select \/ ScanDone
  \/ ReceiverReads \/ NobodyReceives
  \/ ScanAlarm \/ ScanStranger \/ Report \/ HandlerReturns
  \/ \E p \in Procs : ScanDeath(p)
  \/ \E q \in Pipes : ScanPipe(q) \/ ScanUnknown(q) \/ FinalRead(q)
  \/ LastRead \/ LastReadDone
  \/ \E q \in Pipes : LastReadPipe(q)

World ==
  \/ \E q \in Pipes : OtherSideWrites(q) \/ OtherSideCloses(q)
  \/ \E k \in Pids, e \in Endings : ChildEnds(k, e)

Next == User \/ MainThread \/ World \/ SigChld \/ SigTerm

Spec == Init /\ [][Next]_vars

(* The kernel runs the thread and delivers a pending signal; the user      *)
(* calls run() and his callbacks return.  Nothing is asked of a child or   *)
(* of whoever holds the other end of a separate pipe.                      *)
Fairness == WF_vars(MainThread) /\ WF_vars(SigChld)
FairSpec == Spec /\ Fairness

-----------------------------------------------------------------------------
(* Safety.                                                                 *)

(* The pipes of a process are open exactly while the object holds a pid,   *)
(* through every fork, death, refork and terminate(): fds_to_watch() never *)
(* hands select() a descriptor that is not there, fork() never finds       *)
(* a pipe already open (pipe.cc throws), and no dead child keeps a pipe.   *)
PipesFollowProcess ==
  \A p \in Procs : \A q \in PipesOf(p) : open[q] <=> pid[p] # NoPid

(* select_callback() acts on a death only when the process is dead and its *)
(* status collected: whatever sscanf made of the messages that had piled   *)
(* up in the signal pipe, the process it picks is not running, so its      *)
(* pid_ is not forgotten while the child lives.  The exception is a child  *)
(* whose pid is what the pids of others make when two deaths, the first by *)
(* a signal, are read in one go: main.cc compares numbers only.            *)
OnlyTheDeadAreReported ==
  pc = "final" => /\ pid[victim] # NoPid
                  /\ pid[victim] \in Joined \/ kstate[pid[victim]] = "reaped"

(* "Process all unprocessed data from this process": when process_died is  *)
(* emitted the receivers have been given every chunk the child ever wrote, *)
(* whichever pipes had reached end of file, been read or been left out of  *)
(* select() before.  A child reported by mistake (see above) may go on     *)
(* writing behind the receivers.                                           *)
DrainedBeforeReport ==
  pc = "final" /\ pid[victim] \notin Joined =>
    \A q \in PipesOf(victim) \ (todo \cup {cur} \cup Deaf) : inq[q] = 0

(* A child is announced to the loop once, however its signals coalesce     *)
(* with others: the signal pipe never holds the same message twice.        *)
NoMessageTwice ==
  \A i, j \in DOMAIN sigpipe : i # j => sigpipe[i] # sigpipe[j]

(* A message is about a child that is dead and collected, and each process *)
(* object holds a child of its own: a bit of the signal pipe in rfds finds *)
(* a message to parse, and no message can be taken for one about a child   *)
(* that is still running or has just been forked.                          *)
MessagesAreDeaths ==
  /\ \A i \in DOMAIN sigpipe :
       IF sigpipe[i] = Alarm THEN alarmed ELSE kstate[sigpipe[i].pid] = "reaped"
  /\ NoMessageTwice
  /\ SigFd \in ready => sigpipe # <<>>

ChildrenAreDistinct ==
  /\ \A p \in Procs : pid[p] # NoPid => kstate[pid[p]] # "none"
  /\ \A p, r \in Procs : pid[p] = pid[r] /\ pid[p] # NoPid => p = r

(* In the final reads the loop stays with the pipes of one process.        *)
FinalReads ==
  /\ pc = "handler" => cur = NoPipe
  /\ pc = "final" => /\ victim \in Procs
                     /\ todo \subseteq PipesOf(victim)
                     /\ cur \in PipesOf(victim) \cup {NoPipe}

(* All of it is inductive.                                                 *)
Inv ==
  /\ TypeOK
  /\ BrokenMeansEOF /\ UnbrokenIsOpen /\ ClosedIsEmpty
  /\ PipesFollowProcess /\ ChildrenAreDistinct
  /\ MessagesAreDeaths
  /\ FinalReads /\ OnlyTheDeadAreReported /\ DrainedBeforeReport

(* At most one child is on its way from the kernel to the loop: dead and   *)
(* not collected, or announced in the signal pipe.  SIGCHLD does not queue *)
(* and messages have nothing between them, so that the next two properties *)
(* depend on it; with one process, and no helpers of its setup_pipes(), it *)
(* is so by itself.                                                        *)
Announced(k) == \E i \in DOMAIN sigpipe : sigpipe[i] # Alarm /\ sigpipe[i].pid = k
Dying(k) == kstate[k] = "zombie" \/ Announced(k)
OneDeathAtATime == \A j, k \in Pids : Dying(j) /\ Dying(k) => j = k

(* The exit code that process_died's handlers read in exit_code() is the   *)
(* one the child left with, 0 if a signal ended it.  Holds while at most   *)
(* one child is dying at a time.                                           *)
ReportedCodeIsTrue ==
  pc = "final" => code = CodeOf([pid |-> pid[victim], end |-> kend[pid[victim]]])

(* With one death at a time none is lost between the kernel and the        *)
(* loop: a child that is gone and whose process still holds its pid is     *)
(* known to a pending SIGCHLD, then to a message, then to the loop.        *)
NoDeathIsLost ==
  pc # "exited" =>
    \A p \in Procs : pid[p] # NoPid =>
      /\ kstate[pid[p]] = "zombie" => sigchld
      /\ kstate[pid[p]] = "reaped" =>
           victim = p \/ Announced(pid[p])

(* The comment in sig_term_(): only SIGKILL leaves processes behind.  A    *)
(* child that is running when SIGTERM makes the program exit has been sent *)
(* a SIGTERM.                                                              *)
ChildrenAreTerminated ==
  [][pc' = "exited" /\ pc # "exited" =>
       \A p \in Procs : pid[p] # NoPid /\ kstate[pid[p]] = "run" => pid[p] \in termed']_vars

-----------------------------------------------------------------------------
(* Liveness.                                                               *)

Left == pc \in {"returned", "last", "finished", "exited"}

(* Whoever writes eventually stops: a receiver reads until a read fails,   *)
(* and does not come back while its pipe is fed faster than it reads.      *)
Writes == \E q \in Pipes : OtherSideWrites(q)
Quiet == <>[][~Writes]_vars

HoldsDead(p) == pid[p] # NoPid /\ kstate[pid[p]] \in {"zombie", "reaped"}

(* A child that dies while the loop runs is reported with process_died.    *)
DeathIsReported == Quiet => \A p \in Procs : HoldsDead(p) ~> (~HoldsDead(p) \/ Left)

(* "If one of the pipes is broken, the process is going away, and we do    *)
(* not have to select anymore": what arrives on a pipe is still passed to  *)
(* its receiver while the loop runs.  It is not: a process may close one   *)
(* pipe and live on, writing to another.                                   *)
OutputIsRead ==
  Quiet => \A q \in Pipes \ Deaf : (inq[q] > 0) ~> (inq[q] = 0 \/ Left)

(* The process of q runs on although another of its pipes has ended.       *)
HeldBack(q) ==
  /\ Owner[q] # NoProc /\ kstate[pid[Owner[q]]] = "run"
  /\ \E r \in PipesOf(Owner[q]) : broken[r]

(* What arrives on a pipe is passed to its receiver while the loop runs,   *)
(* except that the output of a process one of whose pipes has ended waits  *)
(* for the process to die; it is passed on then.                           *)
OutputIsReadOrHeld ==
  Quiet => \A q \in Pipes \ Deaf : (inq[q] > 0) ~> (inq[q] = 0 \/ HeldBack(q) \/ Left)

-----------------------------------------------------------------------------
(* The loop implements Watch.                                              *)
Life(p) == IF pid[p] = NoPid THEN "idle"
           ELSE IF kstate[pid[p]] = "run" THEN "running" ELSE "dead"

W == INSTANCE Watch WITH
       st <- [p \in Procs |-> Life(p)], unread <- inq, over <- (pc = "exited"),
       alike <- [p \in Procs |-> pid[p] \in Joined], Alike <- (Joined # {})

(* main and ext_process together keep the promise of Watch: a process is   *)
(* let go of only when it is dead and drained, by its user, by the end of  *)
(* the program, or by mistake if its pid can be read out of the pids of    *)
(* others, in every interleaving of children, signals and loop.            *)
WatchSpec == W!Spec
=============================================================================
