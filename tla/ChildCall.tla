------------------------------ MODULE ChildCall ------------------------------
(***************************************************************************)
(* modglue::child_process::call() (src/src/process.cc): run a program,     *)
(* give it a text on stdin, collect stdout and then stderr, with blocking  *)
(* reads and writes on three pipes of limited size.  The program is any    *)
(* one whose output is bounded: it reads its input or not, waits for the   *)
(* end of it or not, writes in any order, closes descriptors, dies.        *)
(***************************************************************************)
EXTENDS Naturals

CONSTANTS
  Cap,        \* chunks that fit in a pipe
  InMax,      \* chunks of input given to call(): bounds the instance
  OutMax      \* chunks the program writes to each output: bounds the instance

ASSUME CallAssumption == Cap \in Nat \ {0} /\ InMax \in Nat /\ OutMax \in Nat

VARIABLES
  pc,         \* "idle", "write", "out", "err", "close", "kill" or "done"
  left,       \* input not yet written
  queue,      \* what is in each pipe
  ours,       \* parent_fd that are open
  theirs,     \* child_fd that are open
  got,        \* outp and outerr
  child,      \* "none", "run" or "zombie"
  prog,       \* the call and the program: input size, what it does and writes
  wrote,      \* what the program has written
  eof,        \* the program has seen the end of its input
  termed      \* SIGTERM was sent to a running child

parentVars == <<pc, left, ours, got, termed>>
childVars  == <<theirs, child, wrote, eof>>
callVars   == <<parentVars, childVars, queue, prog>>

Outputs == {"stdout", "stderr"}
Streams == Outputs \cup {"stdin"}

Programs == [size : 0..InMax, reads : BOOLEAN, waits : BOOLEAN, text : BOOLEAN,
             stdout : 0..OutMax, stderr : 0..OutMax]

(* The caller holds its ends from fork() to close() and none after it.     *)
CallTypeOK ==
  /\ pc \in {"idle", "write", "out", "err", "close", "kill", "done"}
  /\ left \in 0..InMax
  /\ queue \in [Streams -> 0..Cap]
  /\ ours = IF pc \in {"idle", "kill", "done"} THEN {} ELSE Streams
  /\ theirs \subseteq Streams
  /\ got \in [Outputs -> Nat] /\ wrote \in [Outputs -> Nat]
  /\ child \in {"none", "run", "zombie"}
  /\ prog \in Programs
  /\ eof \in BOOLEAN /\ termed \in BOOLEAN

CallInit ==
  /\ pc = "idle" /\ left = 0 /\ ours = {} /\ theirs = {}
  /\ queue = [s \in Streams |-> 0]
  /\ got = [s \in Outputs |-> 0] /\ wrote = [s \in Outputs |-> 0]
  /\ child = "none" /\ eof = FALSE /\ termed = FALSE
  /\ prog \in Programs

-----------------------------------------------------------------------------
(* standard_pipes() and fork(): after both sides have closed what is not   *)
(* theirs, each holds one end of each pipe.                                *)
StandardFork ==
  /\ pc = "idle"
  /\ ours' = Streams /\ theirs' = Streams
  /\ child' = "run"
  /\ left' = prog.size
  /\ pc' = IF prog.size > 0 THEN "write" ELSE "out"
  /\ UNCHANGED <<queue, got, termed, wrote, eof, prog>>

(* One write() of the whole input: it blocks while the pipe is full.       *)
WriteInput ==
  /\ pc = "write"
  /\ "stdin" \in theirs /\ queue["stdin"] < Cap
  /\ queue' = [queue EXCEPT !["stdin"] = @ + 1]
  /\ left' = left - 1
  /\ pc' = IF left = 1 THEN "out" ELSE "write"
  /\ UNCHANGED <<ours, got, termed, childVars, prog>>

(* The result of write() is not looked at, whatever is left of the input:  *)
(* nobody reads any more (main has SIGPIPE ignored), or a signal has ended  *)
(* a write() that was blocked.                                             *)
GiveUpInput ==
  /\ pc = "write"
  /\ pc' = "out"
  /\ UNCHANGED <<left, ours, got, termed, childVars, queue, prog>>

WriteFails       == "stdin" \notin theirs /\ GiveUpInput
WriteInterrupted == queue["stdin"] = Cap /\ GiveUpInput

(* while((pos=read(...))>0) outp+=buffer: blocks while the pipe is empty    *)
(* and open; a chunk that is not text is cut off at its first NUL.         *)
ReadChunk(s) ==
  /\ queue[s] > 0
  /\ queue' = [queue EXCEPT ![s] = @ - 1]
  /\ got' \in {[got EXCEPT ![s] = @ + n] : n \in IF prog.text THEN {1} ELSE {0, 1}}
  /\ UNCHANGED pc

ReadEnd(s, next) ==
  /\ queue[s] = 0 /\ s \notin theirs
  /\ pc' = next
  /\ UNCHANGED <<queue, got>>

ReadEmpty(s, next) == queue[s] = 0 /\ pc' = next /\ UNCHANGED <<queue, got>>

OutUntilEmpty ==                           \* mutant: an empty pipe taken for a closed one
  /\ pc = "out"
  /\ ReadChunk("stdout") \/ ReadEmpty("stdout", "err")
  /\ UNCHANGED <<left, ours, termed, childVars, prog>>

ErrFirst ==                                \* mutant: stderr drained before stdout
  /\ pc = "out"
  /\ ReadChunk("stderr") \/ ReadEnd("stderr", "err")
  /\ UNCHANGED <<left, ours, termed, childVars, prog>>

ReadOut ==
  /\ pc = "out"
  /\ ReadChunk("stdout") \/ ReadEnd("stdout", "err")
  /\ UNCHANGED <<left, ours, termed, childVars, prog>>

ErrUntilEmpty ==                           \* mutant: as OutUntilEmpty
  /\ pc = "err"
  /\ ReadChunk("stderr") \/ ReadEmpty("stderr", "close")
  /\ UNCHANGED <<left, ours, termed, childVars, prog>>

ReadErr ==
  /\ pc = "err"
  /\ ReadChunk("stderr") \/ ReadEnd("stderr", "close")
  /\ UNCHANGED <<left, ours, termed, childVars, prog>>

CloseOutputs ==                            \* mutant: close() goes over the pipes from 1
  /\ pc = "close"
  /\ ours' = {"stdin"}
  /\ pc' = "kill"
  /\ UNCHANGED <<left, got, termed, childVars, queue, prog>>

(* close() *)
CloseAll ==
  /\ pc = "close"
  /\ ours' = {}
  /\ pc' = "kill"
  /\ UNCHANGED <<left, got, termed, childVars, queue, prog>>

(* terminate(): the child is signalled, not waited for.                    *)
Kill ==
  /\ pc = "kill"
  /\ termed' = (child = "run")
  /\ pc' = "done"
  /\ UNCHANGED <<left, ours, got, childVars, queue, prog>>

-----------------------------------------------------------------------------
(* The program.                                                            *)
Reads ==
  /\ child = "run" /\ prog.reads
  /\ "stdin" \in theirs
  /\ \/ /\ queue["stdin"] > 0
        /\ queue' = [queue EXCEPT !["stdin"] = @ - 1]
        /\ UNCHANGED eof
     \/ /\ queue["stdin"] = 0 /\ "stdin" \notin ours /\ ~eof
        /\ eof' = TRUE
        /\ UNCHANGED queue
  /\ UNCHANGED <<parentVars, theirs, child, wrote, prog>>

Writes(s) ==
  /\ child = "run" /\ s \in theirs \cap ours
  /\ wrote[s] < prog[s] /\ queue[s] < Cap
  /\ queue' = [queue EXCEPT ![s] = @ + 1]
  /\ wrote' = [wrote EXCEPT ![s] = @ + 1]
  /\ UNCHANGED <<parentVars, theirs, child, eof, prog>>

Exits ==
  /\ child = "run"
  /\ \A s \in Outputs : wrote[s] = prog[s]
  /\ prog.waits => eof
  /\ child' = "zombie" /\ theirs' = {}
  /\ UNCHANGED <<parentVars, wrote, eof, queue, prog>>

Closes(s) ==
  /\ child = "run" /\ s \in theirs
  /\ s \in Outputs => wrote[s] = prog[s]
  /\ theirs' = theirs \ {s}
  /\ UNCHANGED <<parentVars, child, wrote, eof, queue, prog>>

IsKilled ==
  /\ child = "run"
  /\ child' = "zombie" /\ theirs' = {}
  /\ UNCHANGED <<parentVars, wrote, eof, queue, prog>>

-----------------------------------------------------------------------------
Caller == StandardFork \/ WriteInput \/ WriteFails \/ ReadOut \/ ReadErr \/ CloseAll \/ Kill
Works  == Reads \/ Exits \/ \E s \in Outputs : Writes(s)
CallNext == Caller \/ WriteInterrupted \/ Works \/ IsKilled \/ \E s \in Streams : Closes(s)

CallSpec == CallInit /\ [][CallNext]_callVars

(* The caller's thread runs; the program goes on as long as it can.        *)
CallFairSpec == CallSpec /\ WF_callVars(Caller) /\ WF_callVars(Works)

-----------------------------------------------------------------------------
(* What the program wrote on both outputs is in outp and outerr when call() *)
(* closes its pipes, if it is text, although the outputs are drained one   *)
(* after the other and the program writes, closes and dies in between.     *)
OutputIsComplete == pc \in {"close", "kill", "done"} /\ prog.text => got = wrote

(* terminate() does not cut the program off: when it is signalled it has   *)
(* closed both outputs itself.                                             *)
NotCutOff == termed => theirs \cap Outputs = {}

(* call() returns for a program that does not wait for the end of its      *)
(* input, when the input and what it writes to stderr fit in a pipe.       *)
Tame == prog.size <= Cap /\ prog.stderr <= Cap /\ ~prog.waits
CallReturns == Tame ~> pc = "done"
=============================================================================
