----------------------------- MODULE ExtProcess -----------------------------
(***************************************************************************)
(* ext_process (src/src/ext_process.cc): finding out what a program is and *)
(* which pipes it has, starting it on fresh socket pairs, and giving it    *)
(* up; and who holds which end of which socket in the meantime.            *)
(*                                                                         *)
(* The parent is one thread; a child runs beside it from ::fork() on, with *)
(* a copy of all descriptors.  What the loop does with the pipes and the   *)
(* deaths is the matter of EventLoop.                                      *)
(***************************************************************************)
EXTENDS Handshake

CONSTANTS
  Procs,      \* the ext_process objects
  Program,    \* Program[p]: its file: found, image, its pipes, and the arguments it gets
  MaxForks,   \* bound: calls of ::fork()
  Closed,     \* names of pipes that the user closes himself
  Pausable,   \* processes that the user pauses
  Images,     \* files to try the search on
  NoProc

(* The names that pipes have. *)
Names == {"startup_args", "stdin", "stdout", "stderr"}
         \cup UNION {{q.name : q \in ToSet(Program[p].pipes)} : p \in Procs}
PipeTypes == [name : Names, type : {"input", "output"}]

ASSUME ProgramAssumption ==
  \A p \in Procs : /\ Program[p].found \in BOOLEAN
                   /\ Program[p].pipes \in Seq(PipeTypes)
                   /\ Program[p].args \in Seq({Word, Flag})
ASSUME ForksAssumption == MaxForks \in Nat /\ NoProc \notin Procs
ASSUME ImagesAssumption == \A image \in Images : image \in Seq(ToSet(image))

Forks == 1..MaxForks                 \* the calls of ::fork(), in their order
NoPid == 0
Failed == -1                         \* pid_ after a failed ::fork()
Main == 0                            \* the parent, as a holder of descriptors

VARIABLES
  pc,         \* the parent: "user", "forked" (before close_childside_()) or "ended"
  setup,      \* setup_pipes(): "none", "half" (it threw after a push_back) or "done"
  pipes,      \* input_pipes_ and output_pipes_
  pid,        \* pid_
  paused,     \* paused_
  forks,      \* calls of ::fork() so far, failed ones included
  of,         \* the process of each
  kid,        \* "none", "born", "run", "ended"
  conn,       \* the descriptor of each of a modglue child's own pipes
  held,       \* the ends of sockets that each process holds
  spoilt      \* processes whose fork() has thrown

objVars == <<setup, pipes, pid, paused, spoilt>>
kidVars == <<forks, of, kid, conn>>
vars == <<pc, objVars, kidVars, held>>

(* An end of the socket pair of the i-th pipe of a fork's process: the     *)
(* near one is fd_, the far one fd_external_.                              *)
Ends == [fork : Forks, pipe : Nat \ {0}, side : {"near", "far"}]
Near(e, p) == of[e.fork] = p /\ e.side = "near"
Far(e, p) == of[e.fork] = p /\ e.side = "far"

ExtTypeOK ==
  /\ pc \in {"user", "forked", "ended"}
  /\ setup \in [Procs -> {"none", "half", "done"}]
  /\ \A p \in Procs : pipes[p] \in Seq(PipeTypes)
  /\ pid \in [Procs -> Forks \cup {NoPid, Failed}]
  /\ paused \in [Procs -> BOOLEAN]
  /\ forks \in 0..MaxForks
  /\ of \in [Forks -> Procs \cup {NoProc}]
  /\ kid \in [Forks -> {"none", "born", "run", "ended"}]
  /\ held \in [Forks \cup {Main} -> SUBSET Ends]
  /\ spoilt \subseteq Procs
  /\ \A p \in Procs : pid[p] \in Forks => of[pid[p]] = p /\ kid[pid[p]] # "none"

Init ==
  /\ pc = "user"
  /\ setup = [p \in Procs |-> "none"] /\ pipes = [p \in Procs |-> <<>>]
  /\ pid = [p \in Procs |-> NoPid] /\ paused = [p \in Procs |-> FALSE]
  /\ forks = 0 /\ of = [f \in Forks |-> NoProc] /\ kid = [f \in Forks |-> "none"]
  /\ conn = [f \in Forks |-> <<>>]
  /\ held = [h \in Forks \cup {Main} |-> {}] /\ spoilt = {}

-----------------------------------------------------------------------------
(* setup_pipes().  fork() calls it when the user has not.                  *)
StartupArgs == <<[name |-> "startup_args", type |-> "output"]>>
UnixPipes == <<[name |-> "stdout", type |-> "input"], [name |-> "stderr", type |-> "input"]>>
             \o StartupArgs \o <<[name |-> "stdin", type |-> "output"]>>

IsModglue == [p \in Procs |-> modglue_binary_(Program[p].image)]

(* What the program prints for --list-pipes: nothing when add() throws. *)
Listing(p) ==
  LET own == Program[p].pipes
  IN IF \E i \in DOMAIN own : Refused(<<>>, own[i]) THEN <<>> ELSE build_pipe_list(own)

Learnt == [p \in Procs |-> setup_pipes_from_string_(Listing(p))]

(* determine_path_() throws before anything has changed. *)
NotFound(p) ==
  /\ setup[p] = "none" /\ ~Program[p].found
  /\ UNCHANGED vars

SetupUnix(p) ==
  /\ setup[p] = "none" /\ Program[p].found /\ ~IsModglue[p]
  /\ setup' = [setup EXCEPT ![p] = "done"]
  /\ pipes' = [pipes EXCEPT ![p] = UnixPipes]
  /\ UNCHANGED <<pc, pid, paused, spoilt, kidVars, held>>

(* startup_args comes before the output pipes that are learnt; a program   *)
(* without pipes leaves it behind.                                         *)
SetupModglue(p) ==
  /\ setup[p] = "none" /\ Program[p].found /\ IsModglue[p]
  /\ setup' = [setup EXCEPT ![p] = IF Learnt[p] = <<>> THEN "half" ELSE "done"]
  /\ pipes' = [pipes EXCEPT ![p] = build_pipe_list(StartupArgs \o Learnt[p])]
  /\ UNCHANGED <<pc, pid, paused, spoilt, kidVars, held>>

(* The parent is gone: it has left main(), was killed, or has called        *)
(* setup_pipes() a second time (which is what fork() does after it threw)   *)
(* or fork() with a pid_, against the assertions there.                     *)
ParentEnds ==
  /\ pc' = "ended"
  /\ held' = [held EXCEPT ![Main] = {}]
  /\ UNCHANGED <<objVars, kidVars>>

-----------------------------------------------------------------------------
(* fork()                                                                  *)
MayFork(p) == setup[p] = "done" /\ pid[p] = NoPid /\ forks < MaxForks
NextFork == forks + 1
Try(p) == forks' = NextFork /\ of' = [of EXCEPT ![NextFork] = p]
Sockets(n) == [fork : {NextFork}, pipe : 1..n, side : {"near", "far"}]

(* pipe::open() throws when either descriptor is left from an earlier try. *)
AlreadyOpen(p) == \E e \in held[Main] : of[e.fork] = p

ForkRefused(p) ==
  /\ MayFork(p) /\ AlreadyOpen(p)
  /\ spoilt' = spoilt \cup {p}
  /\ UNCHANGED <<pc, setup, pipes, pid, paused, kidVars, held>>

(* socketpair() fails for the pipe after the first n. *)
OpenFails(p, n) ==
  /\ MayFork(p) /\ ~AlreadyOpen(p)
  /\ spoilt' = spoilt \cup {p}
  /\ Try(p)
  /\ held' = [held EXCEPT ![Main] = @ \cup Sockets(n)]
  /\ UNCHANGED <<pc, setup, pipes, pid, paused, kid, conn>>

(* ::fork() fails *)
FailureUnseen(p) ==                        \* mutant: no case -1
  /\ MayFork(p) /\ ~AlreadyOpen(p)
  /\ pid' = [pid EXCEPT ![p] = NextFork] /\ paused' = [paused EXCEPT ![p] = FALSE]
  /\ Try(p)
  /\ held' = [held EXCEPT ![Main] = @ \cup Sockets(Len(pipes[p]))]
  /\ UNCHANGED <<pc, setup, pipes, spoilt, kid, conn>>

ForkFails(p) ==
  /\ MayFork(p) /\ ~AlreadyOpen(p)
  /\ spoilt' = spoilt \cup {p}
  /\ pid' = [pid EXCEPT ![p] = Failed] /\ paused' = [paused EXCEPT ![p] = FALSE]
  /\ Try(p)
  /\ held' = [held EXCEPT ![Main] = @ \cup Sockets(Len(pipes[p]))]
  /\ UNCHANGED <<pc, setup, pipes, kid, conn>>

Fork(p) ==
  /\ MayFork(p) /\ ~AlreadyOpen(p)
  /\ pc' = "forked"
  /\ pid' = [pid EXCEPT ![p] = NextFork] /\ paused' = [paused EXCEPT ![p] = FALSE]
  /\ Try(p) /\ kid' = [kid EXCEPT ![NextFork] = "born"]
  /\ held' = [h \in DOMAIN held |->
                IF h \in {Main, NextFork} THEN held[Main] \cup Sockets(Len(pipes[p]))
                                          ELSE held[h]]
  /\ UNCHANGED <<setup, pipes, spoilt, conn>>

(* close_childside_() *)
CloseOutputsOnly ==                        \* mutant: input pipes keep fd_external_
  /\ pc = "forked"
  /\ pc' = "user"
  /\ held' = [held EXCEPT ![Main] =
       {e \in @ : ~Far(e, of[forks]) \/ pipes[of[forks]][e.pipe].type = "input"}]
  /\ UNCHANGED <<objVars, kidVars>>

close_childside_ ==
  /\ pc = "forked"
  /\ pc' = "user"
  /\ held' = [held EXCEPT ![Main] = {e \in @ : ~Far(e, of[forks])}]
  /\ UNCHANGED <<objVars, kidVars>>

-----------------------------------------------------------------------------
(* terminate(): both descriptors are closed on this side; kill(pid_, 0) is *)
(* zero for a child that can be signalled, so that no signal is sent.      *)
TerminateInputsOnly(p) ==                  \* mutant: output pipes stay open
  /\ held' = [held EXCEPT ![Main] =
       {e \in @ : ~Near(e, p) \/ pipes[p][e.pipe].type = "output"}]
  /\ pid' = [pid EXCEPT ![p] = NoPid]
  /\ UNCHANGED <<pc, setup, pipes, paused, spoilt, kidVars>>

Terminate(p) ==
  /\ held' = [held EXCEPT ![Main] = {e \in @ : ~Near(e, p)}]
  /\ pid' = [pid EXCEPT ![p] = NoPid]
  /\ UNCHANGED <<pc, setup, pipes, paused, spoilt, kidVars>>

(* pause() and restart(): for the same reason only paused_ changes. *)
PauseOrRestart(p) ==
  /\ p \in Pausable /\ pid[p] # NoPid
  /\ paused' = [paused EXCEPT ![p] = ~@]
  /\ UNCHANGED <<pc, setup, pipes, pid, spoilt, kidVars, held>>

(* The user closes a pipe to the program, which is how it learns of the    *)
(* end of its input.                                                       *)
ClosePipe(p, i) ==
  /\ pipes[p][i].name \in Closed
  /\ \E e \in held[Main] : Near(e, p) /\ e.pipe = i
  /\ held' = [held EXCEPT ![Main] = {e \in @ : ~(Near(e, p) /\ e.pipe = i)}]
  /\ UNCHANGED <<pc, objVars, kidVars>>

-----------------------------------------------------------------------------
(* The child.  close_parentside_() closes fd_ of its own process only;     *)
(* a unix program gets the far ends by dup2() and keeps the one of         *)
(* startup_args.                                                           *)
KeepsParentside(f) == held[f]              \* mutant: close_parentside_() does nothing

close_parentside_(f) == {e \in held[f] : ~Near(e, of[f])}

(* Descriptor numbers of the far ends: above 0, 1 and 2. *)
FarFd(i) == i + 2

Fds(f) == pipe_fds_(realargs(Program[of[f]].args, pipes[of[f]],
                             [i \in DOMAIN pipes[of[f]] |-> FarFd(i)]))

(* execvp(); a modglue program opens its pipes in main::add(). *)
Exec(f) ==
  /\ kid[f] = "born"
  /\ kid' = [kid EXCEPT ![f] = "run"]
  /\ held' = [held EXCEPT ![f] = close_parentside_(f)]
  /\ conn' = [conn EXCEPT ![f] = IF ~IsModglue[of[f]] THEN <<>>
                ELSE [i \in DOMAIN Program[of[f]].pipes |-> add(Fds(f), Program[of[f]].pipes[i])]]
  /\ UNCHANGED <<pc, objVars, forks, of>>

End(f) ==
  /\ kid' = [kid EXCEPT ![f] = "ended"]
  /\ held' = [held EXCEPT ![f] = {}]
  /\ UNCHANGED <<pc, objVars, forks, of, conn>>

(* execvp() fails, and fork() throws in the child. *)
ExecFails(f) == kid[f] = "born" /\ End(f)

Exits(f) == kid[f] = "run" /\ End(f)

(* The socket that a child reads: its first input pipe. *)
Reads(f) ==
  IF ~IsModglue[of[f]] THEN {i \in DOMAIN pipes[of[f]] : pipes[of[f]][i].name = "stdin"}
  ELSE {i \in DOMAIN pipes[of[f]] :
          \E j \in DOMAIN conn[f] : conn[f][j] = FarFd(i) /\ Program[of[f]].pipes[j].type = "input"}

NearHeld(f, i) == \E h \in DOMAIN held : [fork |-> f, pipe |-> i, side |-> "near"] \in held[h]

(* A program like cat, which ends at the end of its input. *)
ReadsEOF(f) ==
  /\ kid[f] = "run"
  /\ Reads(f) # {} /\ \A i \in Reads(f) : ~NearHeld(f, i)
  /\ End(f)

-----------------------------------------------------------------------------
User ==
  \E p \in Procs :
    \/ NotFound(p) \/ SetupUnix(p) \/ SetupModglue(p)
    \/ ForkRefused(p) \/ ForkFails(p) \/ Fork(p)
    \/ \E n \in 0..(Len(pipes[p]) - 1) : OpenFails(p, n)
    \/ Terminate(p) \/ PauseOrRestart(p)
    \/ \E i \in DOMAIN pipes[p] : ClosePipe(p, i)

Next ==
  \/ pc = "user" /\ User
  \/ close_childside_
  \/ pc # "ended" /\ ParentEnds
  \/ \E f \in Forks : Exec(f) \/ ExecFails(f) \/ Exits(f) \/ ReadsEOF(f)

Fairness ==
  /\ WF_vars(close_childside_)
  /\ \A f \in Forks : WF_vars(ExecFails(f) \/ Exec(f)) /\ WF_vars(ReadsEOF(f))

Spec == Init /\ [][Next]_vars /\ Fairness

-----------------------------------------------------------------------------
(* The search finds comp exactly where it is, except that it misses it     *)
(* directly behind a part of comp: there its first byte is the mismatch.   *)
(* Any of the files may be there when the first process is set up.         *)
BeginsAt(image, s) == {i \in DOMAIN image : IsPrefix(s, SubSeq(image, i, Len(image)))}
FalseStart(image) ==
  \E k \in 1..(Len(Sought) - 1) :
    BeginsAt(image, Append(SubSeq(Sought, 1, k), Sought[1])) # {}

SearchIsRight ==
  (\A p \in Procs : setup[p] = "none") => \A image \in Images :
    /\ modglue_binary_(image) => BeginsAt(image, Sought) # {}
    /\ BeginsAt(image, Sought) # {} /\ ~FalseStart(image) => modglue_binary_(image)

(* Listing, parsing, the options and add() fit together: a modglue child   *)
(* has each of its pipes on the far end of the parent's pipe of that name  *)
(* and the other type.  Not so when it gets an argument without '-', which *)
(* hides all the options behind it.  Nor of a pipe whose name has a blank  *)
(* or more than 97 bytes, and is not read in the listing; has a comma, and *)
(* is cut in the option; is that of a second pipe; or is what stands       *)
(* before the comma in the name of another, whose option may come later.   *)
Alone(own, j) ==
  /\ own[j].name \notin Unread \cup DOMAIN Misread \cup {"startup_args"}
  /\ \A i \in DOMAIN own : Cut(own[i].name, NoFd).name = own[j].name => i = j

FindsItsPipes ==
  \A f \in Forks :
    kid[f] = "run" /\ IsModglue[of[f]] /\ Word \notin ToSet(Program[of[f]].args) =>
      LET own == Program[of[f]].pipes
      IN \A j \in DOMAIN own : Alone(own, j) =>
           \E i \in DOMAIN pipes[of[f]] :
             /\ conn[f][j] = FarFd(i)
             /\ pipes[of[f]][i] = [name |-> own[j].name, type |-> Flipped(own[j].type)]

(* Death shows: when a child has ended nobody holds its ends of the        *)
(* sockets, so that the parent reads an end of file on each of them,       *)
(* whoever was forked before and after it.                                 *)
DeathIsEOF ==
  \A f \in Forks, h \in Forks \cup {Main} :
    kid[f] = "ended" /\ (pc = "forked" => f # forks) =>
      \A e \in held[h] : e.fork = f => e.side = "near"

(* The parent's ends leak, but only into children forked later: no two     *)
(* children hold each other's input open.                                  *)
LeaksGoForward ==
  \A f, h \in Forks : kid[h] = "run" => \A e \in held[h] : e.side = "near" => e.fork < h

(* A process that has been given up holds no descriptor and can be started *)
(* again, unless a fork() of it has thrown: what open_pipes_() had opened  *)
(* then is never closed, and every later fork() throws.                    *)
GivenUpIsClean ==
  \A p \in Procs \ spoilt :
    pc = "user" /\ pid[p] = NoPid => \A e \in held[Main] : of[e.fork] # p

(* terminate() signals nobody, yet once all are given up, or the parent is *)
(* gone, every program that reads its input to the end does end, provided  *)
(* that those forked after it do.                                          *)
GivenUp == pc = "ended" \/ \A p \in Procs : pid[p] = NoPid
Deaf(f) == kid[f] = "run" /\ Reads(f) = {}

InputEnds ==
  \A f \in Forks :
    <>[](GivenUp /\ \A g \in Forks : g > f => ~Deaf(g)) => <>[](kid[f] = "run" => Deaf(f))
=============================================================================
