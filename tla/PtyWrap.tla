-------------------------------- MODULE PtyWrap --------------------------------
(***************************************************************************)
(* The ptywrap tool (src/src/ptywrap.cc): a program runs on three pseudo   *)
(* terminals, ptywrap copies its own stdin to one of them and the other    *)
(* two to its stdout and stderr, until the SIGCHLD handler tells the loop  *)
(* that the program is gone.  read(), write(), select() and the handlers   *)
(* are one step each; a write() that blocks is a step that has to wait.    *)
(* Data are counted in chunks.                                             *)
(***************************************************************************)
EXTENDS Integers, Sequences

CONSTANTS
  Cap,        \* chunks that fit in a pipe or a pseudo terminal
  InMax,      \* chunks of input: bounds the instance
  OutMax,     \* chunks the program may write to each output: bounds the instance
  Codes,      \* exit codes
  Signalled   \* how a program ended: not by exit() but by a signal

ASSUME PtyAssumption ==
  /\ Cap \in Nat \ {0} /\ InMax \in Nat /\ OutMax \in Nat
  /\ Codes \subseteq 0..255 /\ 0 \in Codes
  /\ Signalled \notin Int

VARIABLES
  pc,         \* "start", "ready", "loop", "scan", "drainout", "drainerr",
              \* "exited" (from main) or "killed" (by or in a signal handler)
  rfds,       \* bits of rfds not yet looked at
  held,       \* the stream whose chunk is in buffer, waiting for write()
  retcode,
  src,        \* unread chunks: stdin of ptywrap, the program's two outputs
  dst,        \* written and not read: the program's stdin, ptywrap's outputs
  passed,     \* chunks ptywrap has written to its own stdout and stderr
  sigpipe,    \* bytes in sig_chld_pipe
  child,      \* "none", "boot", "exec", "run", "stray", "stuck", "zombie", "reaped"
  end,        \* how the program ended
  termed,     \* sig_kill has sent SIGTERM to the child
  wrote,      \* chunks the program has written
  toFeed,     \* input not yet written by whoever feeds ptywrap
  inOpen,     \* ptywrap's stdin has not ended
  readers,    \* the outputs of ptywrap that somebody still reads
  prog        \* the program and the way ptywrap is called

wrapVars  == <<pc, rfds, held, retcode, passed, termed>>
childVars == <<child, end, wrote>>
userVars  == <<toFeed, inOpen, readers>>
ptyVars   == <<wrapVars, childVars, userVars, src, dst, sigpipe, prog>>

Outputs == {"out", "err"}
Streams == Outputs \cup {"in"}
Go      == 71                            \* 'G'
Gone    == pc \in {"exited", "killed"}

(* exists: execvp() finds the program; tty: ptywrap's descriptors 0, 1 and *)
(* 2 are one open terminal; size: how much input there will be.            *)
Programs == [size : 0..InMax, exists : BOOLEAN, tty : BOOLEAN]

PtyTypeOK ==
  /\ pc \in {"start", "ready", "loop", "scan", "drainout", "drainerr", "exited", "killed"}
  /\ rfds \subseteq Streams \cup {"sig"}
  /\ held \in Streams \cup {"none"}
  /\ retcode \in -128..127
  /\ src \in [Streams -> 0..Cap] /\ dst \in [Streams -> 0..Cap]
  /\ passed \in [Outputs -> Nat] /\ wrote \in [Outputs -> Nat]
  /\ sigpipe \in Seq(0..255)
  /\ child \in {"none", "boot", "exec", "run", "stray", "stuck", "zombie", "reaped"}
  /\ end \in Codes \cup {Signalled}
  /\ termed \in BOOLEAN
  /\ toFeed \in 0..InMax /\ inOpen \in BOOLEAN /\ readers \subseteq Outputs
  /\ prog \in Programs

(* After openpty() and sigaction(). *)
PtyInit ==
  /\ pc = "start" /\ rfds = {} /\ held = "none" /\ retcode = 0
  /\ src = [s \in Streams |-> 0] /\ dst = [s \in Streams |-> 0]
  /\ passed = [s \in Outputs |-> 0] /\ wrote = [s \in Outputs |-> 0]
  /\ sigpipe = <<>> /\ child = "none" /\ end = 0 /\ termed = FALSE
  /\ prog \in Programs /\ toFeed = prog.size
  /\ inOpen = TRUE /\ readers = Outputs

-----------------------------------------------------------------------------
ForkChild ==
  /\ pc = "start"
  /\ pc' = "ready"
  /\ child' = "boot"
  /\ UNCHANGED <<rfds, held, retcode, passed, termed, end, wrote, userVars,
                 src, dst, sigpipe, prog>>

(* read(): "wait until child is ready" *)
WaitReady ==
  /\ pc = "ready"
  /\ sigpipe # <<>>
  /\ sigpipe' = Tail(sigpipe)
  /\ pc' = "loop"
  /\ UNCHANGED <<rfds, held, retcode, passed, termed, childVars, userVars, src, dst, prog>>

(* The slave ends stay open in ptywrap: the outputs of the program never   *)
(* come to an end.                                                         *)
Readable(s) == src[s] > 0 \/ (s = "in" /\ ~inOpen)

SelectStreams ==                           \* mutant: FD_SET(sig_chld_pipe[0]) left out
  /\ pc = "loop"
  /\ rfds' = {s \in Streams : Readable(s)}
  /\ rfds' # {}
  /\ pc' = "scan"
  /\ UNCHANGED <<held, retcode, passed, termed, childVars, userVars, src, dst, sigpipe, prog>>

Select ==
  /\ pc = "loop"
  /\ rfds' = {s \in Streams : Readable(s)} \cup (IF sigpipe # <<>> THEN {"sig"} ELSE {})
  /\ rfds' # {}
  /\ pc' = "scan"
  /\ UNCHANGED <<held, retcode, passed, termed, childVars, userVars, src, dst, sigpipe, prog>>

AsUnsigned(b) == b                         \* mutant: unsigned char buffer[1024]

(* buffer[0] is a char, and -1 the mark of a program ended by a signal.    *)
AsChar(b) == IF b > 127 THEN b - 256 ELSE b

SeenAtOnce ==                              \* mutant: exit() where the loop is left
  /\ pc = "scan" /\ held = "none"
  /\ "sig" \in rfds
  /\ retcode' = AsChar(Head(sigpipe))
  /\ sigpipe' = Tail(sigpipe)
  /\ pc' = "exited"
  /\ rfds' = {}
  /\ UNCHANGED <<held, passed, termed, childVars, userVars, src, dst, prog>>

ScanSig ==
  /\ pc = "scan" /\ held = "none"
  /\ "sig" \in rfds
  /\ retcode' = AsChar(Head(sigpipe))
  /\ sigpipe' = Tail(sigpipe)
  /\ pc' = IF retcode' = -1 THEN "exited" ELSE "drainout"
  /\ rfds' = {}
  /\ UNCHANGED <<held, passed, termed, childVars, userVars, src, dst, prog>>

(* The rest of the fd_set, in the order of the code.                       *)
Turn(s) ==
  /\ pc = "scan" /\ held = "none"
  /\ s \in rfds /\ "sig" \notin rfds
  /\ s \in Outputs => "in" \notin rfds
  /\ s = "err" => "out" \notin rfds
  /\ rfds' = rfds \ {s}

Take(s) ==
  /\ src[s] > 0
  /\ src' = [src EXCEPT ![s] = @ - 1]
  /\ held' = s

(* At the end of stdin read() returns 0 and nothing is done. *)
ScanStream(s) ==
  /\ Turn(s)
  /\ Take(s) \/ (src[s] = 0 /\ UNCHANGED <<src, held>>)
  /\ UNCHANGED <<pc, retcode, passed, termed, childVars, userVars, dst, sigpipe, prog>>

ScanDone ==
  /\ pc = "scan" /\ held = "none"
  /\ rfds = {}
  /\ pc' = "loop"
  /\ UNCHANGED <<rfds, held, retcode, passed, termed, childVars, userVars,
                 src, dst, sigpipe, prog>>

-----------------------------------------------------------------------------
(* write() of what is in buffer.                                           *)
WriteIn ==
  /\ held = "in" /\ ~Gone
  /\ dst["in"] < Cap
  /\ dst' = [dst EXCEPT !["in"] = @ + 1]
  /\ held' = "none"
  /\ UNCHANGED <<pc, rfds, retcode, passed, termed, childVars, userVars, src, sigpipe, prog>>

WriteOut(s) ==
  /\ held = s /\ ~Gone
  /\ s \in readers /\ dst[s] < Cap
  /\ dst' = [dst EXCEPT ![s] = @ + 1]
  /\ passed' = [passed EXCEPT ![s] = @ + 1]
  /\ held' = "none"
  /\ UNCHANGED <<pc, rfds, retcode, termed, childVars, userVars, src, sigpipe, prog>>

(* O_NONBLOCK on descriptor 0 holds for all three if they are one open     *)
(* terminal: write() returns -1, which ends the loop and is not looked at  *)
(* after it.                                                               *)
WriteAgain(s) ==
  /\ held = s /\ ~Gone
  /\ prog.tty /\ s \in readers /\ dst[s] = Cap
  /\ held' = "none"
  /\ pc' = IF pc = "scan" THEN "drainout" ELSE pc
  /\ rfds' = {}
  /\ UNCHANGED <<retcode, passed, termed, childVars, userVars, src, dst, sigpipe, prog>>

(* SIGPIPE is not ignored. *)
WritePipe(s) ==
  /\ held = s /\ ~Gone
  /\ s \notin readers
  /\ pc' = "killed"
  /\ UNCHANGED <<rfds, held, retcode, passed, termed, childVars, userVars,
                 src, dst, sigpipe, prog>>

(* After the loop: what is left of stdout, then of stderr.                 *)
DrainTake ==
  /\ held = "none"
  /\ (pc = "drainout" /\ Take("out")) \/ (pc = "drainerr" /\ Take("err"))
  /\ UNCHANGED <<pc, rfds, retcode, passed, termed, childVars, userVars, dst, sigpipe, prog>>

DrainEnd ==
  /\ held = "none"
  /\ \/ pc = "drainout" /\ src["out"] = 0 /\ pc' = "drainerr"
     \/ pc = "drainerr" /\ src["err"] = 0 /\ pc' = "exited"
  /\ UNCHANGED <<rfds, held, retcode, passed, termed, childVars, userVars,
                 src, dst, sigpipe, prog>>

-----------------------------------------------------------------------------
(* The handlers.                                                           *)
SigChldAll ==                              \* mutant: exit codes and signals not told apart
  /\ child = "zombie" /\ ~Gone
  /\ child' = "reaped"
  /\ sigpipe' = Append(sigpipe, IF end = Signalled THEN 15 ELSE end)
  /\ UNCHANGED <<wrapVars, end, wrote, userVars, src, dst, prog>>

SigChld ==
  /\ child = "zombie" /\ ~Gone
  /\ child' = "reaped"
  /\ sigpipe' = Append(sigpipe, IF end = Signalled THEN 255 ELSE end)
  /\ UNCHANGED <<wrapVars, end, wrote, userVars, src, dst, prog>>

SigKillAlone ==                            \* mutant: exit() before kill()
  /\ ~Gone
  /\ pc' = "killed"
  /\ UNCHANGED <<rfds, held, retcode, passed, termed, childVars, userVars, src, dst, sigpipe, prog>>

(* sig_kill(): before fork() has returned childpid_ is 0, and the whole    *)
(* process group is signalled; the outcome for the child is the same.      *)
SigKill ==
  /\ ~Gone
  /\ termed' = (child \notin {"none", "zombie", "reaped"})
  /\ pc' = "killed"
  /\ UNCHANGED <<rfds, held, retcode, passed, childVars, userVars, src, dst, sigpipe, prog>>

-----------------------------------------------------------------------------
(* The child, from fork() to the end of the program.                       *)
Boot ==
  /\ child = "boot"
  /\ sigpipe' = Append(sigpipe, Go)
  /\ child' = "exec"
  /\ UNCHANGED <<wrapVars, end, wrote, userVars, src, dst, prog>>

(* When execvp() fails the child falls through to the code of the parent.  *)
Exec ==
  /\ child = "exec"
  /\ child' = IF prog.exists THEN "run" ELSE "stray"
  /\ UNCHANGED <<wrapVars, end, wrote, userVars, src, dst, sigpipe, prog>>

(* There it waits to be ready; then select() fails on closed descriptors   *)
(* and leaves rfds full, and it waits for a SIGCHLD of a child of its own. *)
StrayReads ==
  /\ child = "stray"
  /\ sigpipe # <<>>
  /\ sigpipe' = Tail(sigpipe)
  /\ child' = "stuck"
  /\ UNCHANGED <<wrapVars, end, wrote, userVars, src, dst, prog>>

ChildReads ==
  /\ child = "run"
  /\ dst["in"] > 0
  /\ dst' = [dst EXCEPT !["in"] = @ - 1]
  /\ UNCHANGED <<wrapVars, childVars, userVars, src, sigpipe, prog>>

ChildWrites(s) ==
  /\ child = "run" /\ ~Gone
  /\ wrote[s] < OutMax /\ src[s] < Cap
  /\ src' = [src EXCEPT ![s] = @ + 1]
  /\ wrote' = [wrote EXCEPT ![s] = @ + 1]
  /\ UNCHANGED <<wrapVars, child, end, userVars, dst, sigpipe, prog>>

ChildExits ==
  /\ child = "run"
  /\ child' = "zombie"
  /\ end' \in Codes
  /\ UNCHANGED <<wrapVars, wrote, userVars, src, dst, sigpipe, prog>>

ChildKilled ==
  /\ child \notin {"none", "zombie", "reaped"}
  /\ child' = "zombie"
  /\ end' = Signalled
  /\ UNCHANGED <<wrapVars, wrote, userVars, src, dst, sigpipe, prog>>

-----------------------------------------------------------------------------
(* Whoever uses ptywrap.                                                   *)
Feeds ==
  /\ toFeed > 0 /\ src["in"] < Cap
  /\ toFeed' = toFeed - 1
  /\ src' = [src EXCEPT !["in"] = @ + 1]
  /\ UNCHANGED <<wrapVars, childVars, inOpen, readers, dst, sigpipe, prog>>

EndsInput ==
  /\ toFeed = 0 /\ inOpen
  /\ inOpen' = FALSE
  /\ UNCHANGED <<wrapVars, childVars, toFeed, readers, src, dst, sigpipe, prog>>

Consumes(s) ==
  /\ s \in readers /\ dst[s] > 0
  /\ dst' = [dst EXCEPT ![s] = @ - 1]
  /\ UNCHANGED <<wrapVars, childVars, userVars, src, sigpipe, prog>>

StopsReading(s) ==
  /\ s \in readers
  /\ readers' = readers \ {s}
  /\ UNCHANGED <<wrapVars, childVars, toFeed, inOpen, src, dst, sigpipe, prog>>

-----------------------------------------------------------------------------
Wrapper ==
  \/ ForkChild \/ WaitReady \/ Select \/ ScanSig \/ ScanDone
  \/ \E s \in Streams : ScanStream(s)
  \/ WriteIn
  \/ \E s \in Outputs : WriteOut(s) \/ WriteAgain(s) \/ WritePipe(s)
  \/ DrainTake \/ DrainEnd

ChildStarts == Boot \/ Exec \/ StrayReads
ChildWorks  == ChildReads \/ ChildExits \/ \E s \in Outputs : ChildWrites(s)

UserWorks == Feeds \/ EndsInput

PtyNext ==
  \/ Wrapper \/ SigChld \/ SigKill \/ ChildStarts \/ ChildWorks \/ ChildKilled \/ UserWorks
  \/ \E s \in Outputs : Consumes(s) \/ StopsReading(s)

PtySpec == PtyInit /\ [][PtyNext]_ptyVars

(* The kernel runs ptywrap and its child until there is a program in it,   *)
(* and delivers signals; an output that is read at all is read on.  The    *)
(* program, and whoever feeds ptywrap, owe nothing.                        *)
PtyFairSpec ==
  /\ PtySpec
  /\ WF_ptyVars(Wrapper) /\ WF_ptyVars(SigChld)
  /\ WF_ptyVars(ChildStarts)
  /\ \A s \in Outputs : WF_ptyVars(Consumes(s))

-----------------------------------------------------------------------------
(* When ptywrap exits with the exit code of its program, all that the      *)
(* program ever wrote has been written to ptywrap's own outputs, although  *)
(* the loop was left in the middle of it.  (Not on one shared terminal,    *)
(* where a write() may fail.)                                              *)
OutputIsPassed == pc = "exited" /\ retcode # -1 /\ ~prog.tty => passed = wrote

(* ptywrap exits by itself only when its program is dead and collected,    *)
(* and with the program's status; 255 if a signal ended it.                *)
StatusIsChilds ==
  pc = "exited" /\ ~prog.tty =>
    /\ child = "reaped"
    /\ retcode % 256 = IF end = Signalled THEN 255 ELSE end

(* Whatever ends ptywrap, at whatever point, its program is dead or has    *)
(* been sent SIGTERM, unless a write() to ptywrap's own outputs failed:    *)
(* nobody reads them, or they do not block.  ("This does of course not     *)
(* catch SIGKILL", says sig_kill.)                                         *)
NobodyIsLeftBehind ==
  Gone /\ readers = Outputs /\ ~prog.tty =>
    termed \/ child \in {"none", "zombie", "reaped"}

(* The comment at the read() before the loop: ptywrap waits until the      *)
(* child is ready.  The wait ends.                                         *)
WaitForChildEnds == (pc = "ready") ~> (pc # "ready")

(* ptywrap ends when its program ends, in whatever state the copying is,   *)
(* if the input fits in the pseudo terminal.                               *)
EndIsSeen ==
  [](child = "run" /\ prog.size <= Cap => [](child # "run" => <>Gone))
=============================================================================
