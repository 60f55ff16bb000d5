# Verification of modglue

modglue is a small C++ library (`src/src/`, `src/include/modglue/`) for programs
that start other programs and talk to them through pipes, with a few tools
built around it.  This directory holds TLA+ models of its parts, the TLC
configurations that check them on small instances, and TLAPS proofs of the
properties that matter most.

## 1. The system

| Component | State it keeps | Operations | Talks to |
|---|---|---|---|
| `pipe`, `ipipe`, `opipe`, `pipebuf` (`pipe.cc`) | a descriptor `fd_`, `broken_`, `first_read_after_select_`, a put area and a get area with putback; in the kernel a queue of unread data | `open`, `close`, `read_with_ack`, `send_with_ack`, `underflow`, `overflow`, `sync` | the process at the other end; the receivers of its signal |
| `main` (`main.cc`) | the lists of separate pipes and of processes, `terminate_main_loop_`, the signal pipe `sig_chld_pipe_`, the descriptors from the command line | constructor, `add`, `check`, `run`, `fds_to_watch`, `select_loop_`, `select_callback`, `last_read`, handlers of SIGCHLD and SIGTERM | every pipe and process given to `add`; the kernel; the user's receivers and handlers of `process_died` |
| `ext_process` (`ext_process.cc`) | `pid_`, `exit_code_`, `pipes_done_`, `paused_`, its pipes | `setup_pipes`, `fork`, `terminate`, `pause`, `restart` | its child; a helper child that it asks for its pipe list; `main` |
| `child_process` (`process.cc`) | `pid_`, a list of descriptor pairs | `call` (write, read all, close, terminate), `fork`, `read`, `write`, `wait` | its child, with blocking reads and writes |
| `ptywrap` (`ptywrap.cc`) | three pseudo terminals, a signal pipe, `childpid_` | one copying loop, handlers of SIGCHLD, SIGTERM and SIGINT | its child; whoever is at its stdin, stdout and stderr |
| `prompt` (`prompt.cc`) | a line and a cursor, a history, a key decoder, the terminal's modes, a child | line editing in front of an `ext_process`, redrawing, handlers of SIGINT, SIGTSTP and SIGCONT | a terminal, `main` |
| `loader` (`shell.cc`, `modshell.cc`, `load/`, `moving/`) | a stack of parser states, the command being read | `accept_commands`, `parse_` | whoever types commands; not built by `src/src/Makefile.in` |
| `mid`, `isatty` | a serial number; none | trivial | nobody |
| `modwrap.cc`, `gtk*.cc` | | for earlier interfaces of the library; no rule of `src/src/Makefile.in` builds them | |

How they interact.  A program owns one `main` object, gives it pipes and
processes, and calls `run()`.  The loop selects on the signal pipe, on the
separate pipes and on the pipes of every process none of whose pipes is broken.
A readable pipe has its `receiver` signal emitted; the receiver reads the stream.
When a child dies the SIGCHLD handler collects one child and writes
`<pid> <code>` into the signal pipe; the loop reads the signal pipe, parses one
message, reads the pipes of that process a last time, calls
`ext_process::terminate(exit_code)`, which closes them, and emits
`process_died`.  A handler may fork the same object again.  `ext_process` looks
into an executable for a signature; if it is there it runs the program with
`--list-pipes`, creates a pipe for each line of the answer, and passes the
descriptors to the child as `--pipe=name,fd`, from which the `main` of the child
takes them.

What is hard here:

* signals of one kind coalesce, the handler collects one child per signal, and
  the messages in the signal pipe have no delimiter;
* the set of ready descriptors is taken before callbacks that close and open
  descriptors;
* a child writes, closes and dies at any point of a scan, and its pipes leave
  `select()` at the first end of file;
* every child inherits all descriptors of its parent at that moment, and an end
  of a socket that is held too long hides an end of file;
* blocking reads and writes wait on programs that wait in turn
  (`send_blocking_`, `child_process::call`, `ptywrap`, descriptor 0);
* exit codes, signals and "ready" share one small channel, and the byte 0xFF and
  the end of file one `char`;
* what stands in a buffer outlives the process it was meant for;
* input comes in pieces that cut escape sequences and commands in two, and the
  program behind `prompt` edits the line, too.

What correctness means: all output of a child is handed out before its death is
reported; every death is reported, once, with the true exit code; no child that
runs is taken for a dead one; descriptors follow processes, and an end of file
reaches whoever waits for it; bytes arrive once, in order, and are not lost while
both ends are there; what is readable is read; nothing is left running behind;
`call()` returns, with all of the output; `ptywrap` is transparent; the line on
the screen is the line that is sent, and the terminal gets its modes back.
`PROJECT.json` lists the hazards line by line, with the properties that cover each.

## 2. The modules

    Pipe  <-  EventLoop  -> implements ->  Watch        Stream
                 ^  MCEventLoop (instances)
    Handshake <- ExtProcess <- MCExtProcess (instances)
    ChildCall      PtyWrap      Prompt      Loader

    EventLoop_proofs (with Pipe) <- Watch_proofs
    Stream_proofs  ExtProcess_proofs (with Handshake)  ChildCall_proofs
    PtyWrap_proofs  Prompt_proofs  Loader_proofs

* **`Pipe`**: the reading side of a pipe, in chunks.  `open`, `broken`, `first` are
  `fd_ != -1`, `broken_`, `first_read_after_select_`; `inq` and `wopen` are the
  kernel's side.  `read_with_ack` is split by the outcome of its `read()`: `ReadData`,
  `ReadEOF`, `ReadAgain`, `ReadRefused`.  Each operator is a fragment that another
  module makes part of a larger step; `PipeSpec` lets pipes be called in any order.
* **`EventLoop`**: `main` driving `ext_process`es, with their children, the signals and
  the user's callbacks.  One action per handler, system call or stretch of code
  between two of them; `pc` and `cur` say where the one thread is (`cur` is the pipe
  whose receiver is running).  `Select` and `LeaveLoop` are `select_loop_`, `Watched`
  is `fds_to_watch`, the `Scan*` actions are the branches of `select_callback`,
  `FinalRead`, `Report` and `HandlerReturns` its handling of a death, `SigChld` and
  `SigTerm` the handlers, `Fork`, `SetupPipes` and `Terminate` the operations of
  `ext_process`.  `Parsed` is the set of outcomes of `sscanf("%ld %d")` on messages that
  stand next to each other: the first number goes on over the pids of children that a
  signal ended, and what several pids make is the pid of nobody or of a child in `Joined`.
* **`Watch`**: what `main` promises, with no loop, signal or message in it: a process
  starts, produces, dies, and is given back only when it is dead and drained; the
  other ways out are the user's own `terminate()`, the end of the program and, for a
  process whose pid others' pids can make (`alike`), the mistake of taking it for dead.
  `EventLoop` implements it under the mapping `W` at its end (`st` from `pid_` and the
  kernel's state of the child, `unread` from `inq`, `alike` from `Joined`).
* **`Stream`**: one `opipe` and the `ipipe` at the other end of its socket, byte by byte.
  `obuf`, `sending`, `len` are the put area and the place inside `send_blocking_`;
  `mem`, `eback`, `gptr`, `egptr` the get area with its putback part.  `Put`,
  `Flush`, `Write`, `WriteFails` are `overflow`, `sync` and the outcomes of one
  `write()`; `Underflow` and `UnderflowFails` are `underflow`, the copy of the
  putback area and the end-of-file byte included.  The reader answers each byte on a
  pipe of its own, so that two programs can wait for each other.
* **`Handshake`**: pure operators: `determine_binary_type_`, `build_pipe_list`,
  `setup_pipes_from_string_`, the parsing of `--pipe` options and `add()`.  The loops
  are recursive functions of the number of turns (`hits`, `Taking`).  Names are
  values; what happens to them on the way depends on which they are: `Unread` are those that
  `sscanf("{ %99s , ")` does not get over, `Misread` says what is left of a name with a comma
  when `main()` cuts the option there, and what `atoi()` makes of the rest.
* **`ExtProcess`**: `ext_process` on top of them: which process holds which end of which
  socket (`held`), from `setup_pipes()` on, through `fork()` with each of its failures
  (`socketpair()`, `::fork()`, `execvp()`), to `terminate()`.  What is inherited by
  whom follows from `held`.  It is separate from `EventLoop` because the loop does not
  ask where a descriptor came from, and this module not how a death was noticed.
* **`ChildCall`**: `child_process::call()` and any program it may meet.  One action per
  blocking system call.
* **`PtyWrap`**: `ptywrap`: the start of the child, the loop, the reads after it and the
  handlers, with a child whose `execvp()` fails and runs on in the parent's code.
* **`Prompt`**: `prompt`: the start, the decoder of `process_stdin` (one action per
  key), the history, `receive_stdout` and `receive_stderr`, the signal handlers and
  the modes of the terminal.  `term` is the row of the terminal as the escape
  sequences of `redraw_line` leave it, followed (`Draw`) while the program is `quiet` and
  the row does not reach its `Width`; `filled` records that the program has filled the line.
  `sigstp_handler` is two steps, its two system calls, and `sigcont_handler` may come
  between them (`crossed`) or at any other time; `nonblock` is `O_NONBLOCK` of what
  descriptor 0 is open on, which `ShellReads` may take back while prompt is stopped.
* **`Loader`**: the parser of the shell: a turn of the loop of `parse_` is a step, the
  top of `status_` selects the action, and `Accept`, `Report` are `accept_commands`.
* **`MCEventLoop`** and **`MCExtProcess`** give the owner of each pipe, and five programs:
  a unix program, a modglue program with a pipe that has a blank in its name and one
  that has a comma, one that is given a file name, one without pipes, and one that does not exist.

Operators marked "mutant" are faulty variants of the definition that follows
them, kept to show that each property can fail: replacing the definition by the
variant makes TLC report the property named in `PROJECT.json`.

### Choices in the models

* In `EventLoop` and `PtyWrap` data are counted, not named: a chunk is what one
  `read()` returns.  `Cap` is the size of the kernel's buffer in chunks.
* A receiver reads until a read fails and then clears the stream and returns, as the
  receivers of the tests and examples do.  It does not call `terminate()`; handlers of
  `process_died` and the code before `run()` do (`UserTerminates`).
* The order in which a scan meets ready descriptors is left open: it depends on
  descriptor numbers.  So is the order of the final reads.
* A fork in a handler can reuse descriptor numbers whose bits are still set in
  `rfds`; `Inherited` makes that an open choice.
* A handler is one step: the thread does nothing while it runs, and SIGCHLD and
  SIGTERM touch only the signal pipe and the child's state.  `select()` interrupted
  by a handler goes round again with a message to read.
* An exit code that has run into the next message is `Garbled`, and none of the codes.  A pid
  that has may be that of a child in `Joined`: the digits of pids are not modelled, nor
  that `sscanf` gives the largest `long` for a number beyond it, nor that `%ld` writes
  eight bytes where `childpid` has four; the lower four, which are compared, are those
  of the number.
* Whether `char` is signed is the build's choice.  `AsChar` in `PtyWrap` takes it as signed, and so
  does `Returned` in `Stream`, where the byte 0xFF is the end of file.
* `SigTerm` happens at most once.
* In `PtyWrap` the slave ends stay open in ptywrap, so the program's outputs never
  end, and a `write()` to a program that is dead blocks when the terminal is full.
  SIGPIPE has its default action there; in `ChildCall` and `Stream` it is ignored,
  which holds in a program with a `main` object.
* In `Stream` the reader takes back bytes (`unget`) only as far as no failed `read()` has
  moved them; the readers of this repository take back the last byte only.
* In `Prompt` signals come between two bytes or inside `sigstp_handler`, not inside the
  handling of a byte; the handlers for SIGTSTP and SIGCONT are there from the end of
  `raw_terminal` on, and until then these signals have their default action, which
  changes nothing.  A signal that ends prompt by its default action is a behaviour that
  goes no further.
* The row of the terminal in `Prompt` wraps at `Width`; it is not followed after that until
  the next newline the user types.
* `prompt`, `Loader` and `Handshake` have letters that stand for text and the control
  characters the code tells apart, no more.

## 3. Runs

| Run | Checks | Shows |
|---|---|---|
| `loop_one` | `BrokenMeansEOF`, `PipesFollowProcess`, `DrainedBeforeReport`, `ReportedCodeIsTrue`, `NoDeathIsLost`, `DeathIsReported`, `OutputIsReadOrHeld` | one process with two pipes, forked up to twice, a separate pipe, SIGTERM: with one child at a time nothing is lost; while the loop runs every death is reported, and what arrives is read, at the latest when the process is dead |
| `loop_two` | `Inv`, `OnlyTheDeadAreReported`, `WatchSpec` | two processes, helpers, three children, one of them in `Joined`: deaths may be lost, but no running child other than that one is reported, and the loop implements `Watch` |
| `stream` | `StreamTypeOK`, `NothingIsLost`, `PutbackIsTrue`, `NothingIsStuck`, `SendReturns` | which bytes arrive over partial writes, dead readers and a second child; what `unget` gives back; when `send_blocking_` returns |
| `ext_process` | `ExtTypeOK`, `SearchIsRight`, `FindsItsPipes`, `DeathIsEOF`, `LeaksGoForward`, `GivenUpIsClean`, `InputEnds` | the handshake gives a child its pipes; a dead child's outputs end; a program whose input is given up ends |
| `child_call` | `CallTypeOK`, `OutputIsComplete`, `NotCutOff`, `CallReturns` | what `call()` returns and when it returns |
| `ptywrap` | `PtyTypeOK`, `OutputIsPassed`, `StatusIsChilds`, `NobodyIsLeftBehind`, `EndIsSeen` | no output is lost between the program and ptywrap's outputs; the exit status is the program's; the program is not left behind; ptywrap ends after its program |
| `prompt` | `PromptTypeOK`, `CursorInLine`, `ScreenShowsLine`, `TerminalIsRestored`, `HistoryIsKept`, `TextBehindCursorIsKept` | the cursor stays in the line, the screen shows the line, the history is kept, the terminal gets its modes back |
| `loader` | `CommandIsFirstWord`, `AbortsAfterErrorOnly`, `AllIsTaken` | what is parsed does not depend on how the input was cut; the assertion fails only after an error |

Runs that show the code doing something else than a comment or document says:

| Run | Violates | What happens |
|---|---|---|
| `lost_death` | `DeathIsReported` | two deaths close together: one is never reported |
| `output_held` | `OutputIsRead` | a process closes one output and lives on: what it writes to the other is not read (`main.cc:361`), although the comment at `main.cc:357` takes such a process to be going away |
| `orphan_on_term` | `ChildrenAreTerminated` | the test of `kill(pid_, 0)` is the wrong way round: no child is ever sent SIGTERM |
| `pty_never_ready` | `WaitForChildEnds` | a child that cannot exec steals its own "ready" |

Where a property of a passing run names an exception, the code behaves otherwise there:

* The loop may end at the last end of file, before the death is read: `Left` in the
  liveness properties of `EventLoop` includes that exit.
* `OnlyTheDeadAreReported` and `DrainedBeforeReport` leave out the children in `Joined`.  When a
  child ended by a signal and a second one die close together, `main.cc:296` reads
  their pids as one number, and `main.cc:300` gives up and reports the process that has
  this pid, though it runs, against the comment at `main.cc:357` (`final read ... when the
  process really dies`).  Without the exception TLC shows just that in `loop_two`.
* `OutputIsReadOrHeld` leaves out a process that runs on after the end of file of one of its
  pipes, see `output_held`.  It also needs `Blocking` to be empty: a receiver on descriptor
  0, which stays blocking, waits in `read()` while the other pipes are not served.
* `NothingIsLost` says nothing of a broken pipe or a dead reader: what is written then is
  dropped without an exception, and what was left in `o_buf` is counted as input of the
  next child, which gets it first.
* `NothingIsStuck` leaves out a chunk that begins with 0xFF: `underflow` returns it as
  end of file, and the receiver goes away with the chunk unread.
* `SendReturns` needs what is under way to fit in the two sockets and the hands of the
  reader; beyond it both programs wait for ever.
* `SearchIsRight` leaves out a signature directly behind a beginning of itself.
  (The text the search looks for, `ext_process.cc:301`, is also not the one in
  `main.hh:40`.)
* `FindsItsPipes` leaves out an argument that does not begin with `-`, which hides all
  `--pipe` options behind it; names with a blank or of more than 97 bytes, which with their
  quotation marks `%99s` does not read (`ext_process.cc:323`); names with a comma, which
  `main.cc:143` cuts; the name that is left of such a one; and two pipes of one name.
  A name with a comma directly behind a blank or behind its 98th byte is not modelled:
  its line matches, and `setup_pipes()` throws.
* `GivenUpIsClean` leaves out an object whose `fork()` has thrown: the descriptors opened
  until then stay, and every later `fork()` throws.
* `InputEnds` needs the programs forked later to end, too: they have inherited the
  parent's end of the socket.
* `OutputIsPassed` leaves out exit code 255: read into a `char` it is -1, the mark of a
  program ended by a signal, and the reads after the loop are skipped.
* `OutputIsPassed`, `StatusIsChilds` and `NobodyIsLeftBehind` leave out a terminal
  that is stdin, stdout and stderr at once: `O_NONBLOCK` on descriptor 0 makes `write()`
  to the others fail, which loses a chunk and ends the loop.
* `NobodyIsLeftBehind` leaves out outputs that nobody reads: SIGPIPE ends ptywrap alone.
* `EndIsSeen` leaves out input that does not fit in the pseudo terminal: a program that
  dies without reading it leaves ptywrap in `write()`.
* The end of stdin never reaches ptywrap's program; the loop spins on it (`ScanStream`).
* `CallReturns` needs input and stderr to fit in a pipe and a program that does not
  wait for the end of its input.
* `CursorInLine` leaves out a line the program has filled: the cursor stays where it was,
  and a backspace on the empty line it may leave throws.
* `TextBehindCursorIsKept` leaves out the backspace just before the last byte, which takes
  that byte, too.
* `ScreenShowsLine` leaves out a row that is full: the terminal goes on in the next one, and
  the relative movements of `prompt.cc:127-145` stop at its first column.
* `TextBehindCursorIsKept` says nothing of `^K`, which deletes that text on purpose.
* `TerminalIsRestored` leaves out signals without a handler (SIGQUIT, SIGHUP); a
  SIGINT before `fork()` has returned, after which prompt signals itself for ever
  (`looping`); a SIGCONT between the two calls of `sigstp_handler`, after which prompt is
  stopped with the terminal raw (`crossed`); and `O_NONBLOCK`, which is set on what
  descriptor 0 is open on (`prompt.cc:90`, `prompt.cc:414`) and which nothing takes back.
* `CommandIsFirstWord` speaks of the first program only, and of none in a group.  The grammar
  above `accept_commands_old()` (`shell.cc:183-235`) has more: `{ ls, grep } ^` starts both
  programs, and a pipe symbol starts a new program group.  The parser has no such
  thing: `s_groupscan` and `s_arg_or_control` swallow what follows and are never left, so
  that the programs in a group and those behind a `|` never become processes.  The property
  states what the code does.  It also leaves out a superfluous `}`, `AbortsAfterErrorOnly` input after an
  error, which no longer starts with blanks skipped.

### Bounds

* `Pids` bounds the forks in `EventLoop`.  Two children per object are a first life and a
  life after a refork, which is where stale descriptors, stale messages and old flags
  could meet a new child; three children with two processes add a helper and let two
  deaths and a live child meet; one of the three is in `Joined`, and the others are
  symmetric.
* `MaxForks = 2` in `ExtProcess`: one child inherits from another, or one object is
  forked again, failures included.  With no more than two the proofs below cover the rest.
* `Cap = 1` in most runs: a buffer is empty, then full; the second write blocks.
* `Stream`: `OSize = 3` and `Chunk = 2` make a full buffer take two writes, `Cap = 2`
  makes them partial; `Back = Room = 2` lets the copy in `underflow` overlap, and two
  bytes, one of them 0xFF, tell places apart.  `MaxPut = 5` fills the buffer once and
  lets some bytes follow; `Lives = 2` is one reopening.
* `Codes` has two codes where a code is compared, one otherwise.  `PtyWrap` has 0 and 255,
  both ends of the byte.
* `InMax` and `OutMax` are above `Cap`, so that writers block and programs lie on both sides of
  the conditions of `CallReturns` and `EndIsSeen`.
* `Prompt`: one byte that can be typed and one that the program can write; lines of three bytes have a place in front of, at and behind the cursor; two
  entered lines and an unfinished one make a history to walk about in.  `MaxLen` bounds
  both the line and the cursor, which a fill can leave behind the end.  `Width = 4` lets a
  row with one byte of output and a line be full, or just not.
* `Loader`: five characters are a command, a blank, a control character and an error in
  any order; after the first command the parser stays in one state.
* `Images`: all files of up to five bytes over the three of the signature and one other,
  which have every mismatch and every repeated beginning.
* One process, with two pipes, in `loop_one`: its properties are about one child at a time, and
  `lost_death` shows that they fail with two.

`CHECK_DEADLOCK FALSE` everywhere: programs end, and `select()`, `read()` and `write()`
may wait for ever.

### Fairness

`EventLoop`: weak fairness of the main thread (`MainThread`) and of a pending signal
(`SigChld`): the kernel runs a runnable thread and delivers signals, the user calls
`run()` and his callbacks return.  Nothing is asked of children or of the other ends of
separate pipes.  The liveness properties have `Quiet` as antecedent, since a receiver that reads
until a read fails stays with a pipe that is fed faster than it reads.
`Stream`: the writer inside `send_blocking_` or its loop, and the reader, each as long as
it can do something; nobody owes bytes, and a reader that takes bytes back for ever is
excluded (`SendReturns`).  `ExtProcess`: the parent returns from `fork()`, a child gets to its
`execvp()`, and a program that finds the end of its input ends; no program ends by itself
and the user gives nothing up.  `ChildCall`: the caller's thread, and the program as long as
it can do something; no signal and no close is owed.  `PtyWrap`: ptywrap, the start of its
child, the delivery of SIGCHLD, and readers that read on unless they stop altogether; the
program and its input owe nothing.  `Loader`: the parser, when there is input.

## 4. Proofs

Every safety property of section 3, the type invariants and the action properties
included, is a theorem, for any sets of pipes, processes, children, bytes, programs and
codes and any capacities and lengths, under the named assumptions on the constants
(`CapAssumption`, `BlockingAssumption`, `OwnerAssumption`, `NamesAssumption`,
`StreamAssumption`, `ProgramAssumption`, `ForksAssumption`, `ImagesAssumption`,
`SoughtAssumption`, `MisreadAssumption`, `PromptAssumption`, `CallAssumption`, `PtyAssumption`, `LoaderAssumption`).  Most say that
values are told apart and that programs, files and bounds are of their types; the rest
that the signature is not empty, that `startup_args` has no comma, that buffers hold something, that exit codes are bytes
and 0 is one, and that a byte typed for the sake of its text is none of the control
characters that `prompt` looks for.

* `EventLoop_proofs` `PipeIsSafe`: the three pipe properties.  The lemmas `OpenInv`, `CloseInv`,
  ... say that each fragment preserves `PipeInv`; the proofs about the loop cite them, so that a
  step of the loop is proved to respect pipes without opening their definitions.
* `EventLoop_proofs` `InvHolds`: `Inv` is inductive, and `PipesFollow`, `OnlyTheDead`,
  `Drained` (with `TypesHold`, `NeverTwice`) follow from it.  `DrainedBeforeReport` needs
  `BrokenMeansEOF` (a final read of a broken pipe is refused, so there must be nothing left),
  `OnlyTheDeadAreReported` (no writer is left to add output behind the read) and
  `FinalReads`.  `OnlyTheDeadAreReported` needs `MessagesAreDeaths` (a pid in the signal
  pipe is that of a collected child, so that a first number that is one pid is that of
  one, and a longer one that of a child in `Joined` or of nobody) and `ChildrenAreDistinct`; `PipesFollowProcess` makes
  `Open` in `Fork` and `Close` in `Terminate` meet the pipes they expect.
* `Watch_proofs` `LoopImplementsWatch`: initial states map to initial states and each step to
  one of `Watch` or a stutter, by the actions of `Next` under `Inv`.
* `Watch_proofs` `NoneIsLost`, `CodeIsTrue`: what `lost_death` refutes in general holds as long
  as no two children are dying at once (`OneDeathAtATime`: no second zombie or unread
  message), with any number of processes.  `DeathInv` follows a death from the kernel
  (a zombie has its SIGCHLD pending) into a message with the true code
  and on to the loop.  `OneProcessIsServed` discharges the condition for one process that has no
  helper and is not given up by its user: `OneChild` says that the child that runs, is a
  zombie or has a message unread is the one whose pid the process holds, so that the next
  cannot be forked before.
* `Stream_proofs` `AllArrives`, `PutbackHolds`, `NothingStays`, from `StreamInv`: the
  get area lies in `i_buf` (`Area`); what was put is what has gone through (`Flow`)
  and a rest, which is that in `o_buf` unless something was lost, and when something was
  lost nothing more can be written (`Queues`).  `PutbackIsTrue` is part of the induction:
  only because the byte below `gptr` is the last one read does `Unget` leave `Flow` as
  it is.  The lemmas on sequences (`CutInTwo`, `HandOver`, `TakeOne`) move one byte
  or a piece from one queue to the next.  `StreamTypesHold` adds the sizes: outside
  `send_blocking_` the put area is never full, inside it there is a rest to be sent.
* `ExtProcess_proofs`, first part, the handshake.  Its loops are brought in by `Loop` (a loop
  of a given number of turns has an outcome) and `Induct` (what holds before the first
  turn and after each holds at the end), both from `Least`, that a set of natural numbers has a
  least element, which the library's theorem on strict inclusion of finite sets
  gives without induction over a predicate.  `TakenIs`, `ListIs`, `LearntIs` say which pipes
  the loops keep.  `SearchHolds`: after n bytes `hit` counts how many of the last ones begin
  the signature, or it has been met (`Searched`); conversely, when it begins behind a
  `hit` of 0 it is counted through, and otherwise the bytes counted and its first one
  make a false start.
* `PipesAreFound`: the invariant `Handed` says that a setup that is done has kept what
  was learnt from the listing, that a child belongs to such a process, and that a modglue
  child that runs has opened its pipes by the options made from that list.
  `PipesMeet` is the argument: what was learnt is the other end of each of the child's own
  pipes (`LearntFromListing`), each has an option, and the last option of a name is one of a
  pipe of that name (`OptionsReach`), which is the right one if the name is not used twice,
  not cut, and not what another is cut to.
* `ExtProcess_proofs` `DeathShows`, `NoCycleOfLeaks`, `CanBeForkedAgain`, from `ExtInv`:
  `AtFork` says that just after `fork()` the last child exists, `Inherits` that a child
  holds nothing that was opened after it, `FarEnds` that the parent has far ends only of
  the child it is forking (or of a fork that threw), `Clean` that a process that is given
  up has left nothing open, whatever the parent is doing.  The lemma
  `ParentClosesInv` covers every action that closes ends in the parent,
  `ChildInv` every one in a child.  `ExtTypesHold` follows with `Types`.
* `Prompt_proofs` `CursorStays`, `HistoryStays`, `TerminalIsGivenBack`, `TextStays`: `LineInv` is
  the types of the line and the history with `CursorInLine`; the row of the terminal plays
  no part in it.  `ScreenIsRight` adds `TermInv`: while the program is quiet the row is
  some text with the line behind it and the cursor at its place in the line (`Shows`),
  whatever its width, since `Draw` ends the quiet when the row is full, and
  lemmas say what each escape sequence makes of such a row; a redraw goes back to where
  the old line began, whatever its length.
* `Loader_proofs` `KeepsFirstWord`, `AssertionHolds`: `ParserInv` says for each state on top
  of the stack, and for the one below `s_skipwhite`, what of the text taken has become a
  command, and which characters can come next.  It needs both: `s_initial` puts its character back for
  `s_scan`, which puts it back for `s_command`.
* `ChildCall_proofs` `NothingIsMissed`, `NobodyIsCutOff`: the invariant says that written = got + queued,
  and that an output that has been drained is closed by the program and empty.
* `PtyWrap_proofs` `NoOutputIsLost`, `StatusIsTrue`, `NobodyIsLeft`: `SigInv` follows the "G" and the status byte
  through the signal pipe (with a stray reader), `FlowInv` is conservation of chunks, `HeldInv` and
  `EndInv` tie both to the place in the code; `KillInv` lists the ways to end in a signal.

Only model-checked is what is temporal beyond safety (`DeathIsReported`, `OutputIsReadOrHeld`,
`SendReturns`, `InputEnds`, `CallReturns`, `EndIsSeen`, `AllIsTaken`): liveness under
fairness is out of the prover's reach.  Of these `NoneIsLost` and `NothingStays` prove the
safety part: nothing that the liveness would wait for is lost.

## 5. Not modelled, and what is left

* `main`: its destructor; a user's own event loop around `fds_to_watch` and
  `select_callback`; `terminate()` called from a receiver.
* `ext_process`: `receive_output_` and `output()`, which nothing uses; pids that the kernel uses again;
  grandchildren that keep a pipe open.
* `pipe`: the branches for sockets with acknowledgement, which no call can reach; the
  destruction of a stream.
* `child_process`: the byte-wise `read` and `write` and `wait()`, which nothing in the
  repository calls; `call()` beside a `main` object that collects its child first.
* `ptywrap`: terminal modes, and `kill(0)` reaching the process group.
* `prompt`: what is sent to the program; the rows above the cursor's; a signal inside the handling of a byte, with the
  line half changed, which the handlers read.
* `modwrap.cc`, `gtkshell.cc`, `gtkshell2.cc`, `gtkiowin.cc` and the socket streams: not
  built, written for interfaces the library no longer has, so that there is no
  behaviour to check them against.  Of the shell the parser is modelled; its jobs and bonds are
  never filled by the code that is there.
* `mid` and `isatty` have no behaviour to check; tests and examples were read for how the
  library is called.

Next would come: abstract specifications of `ChildCall` (one atomic call) and `PtyWrap`
(a pair of channels) with the refinements; signals inside the handling of a byte in
`Prompt`.
