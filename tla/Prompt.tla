------------------------------- MODULE Prompt -------------------------------
(***************************************************************************)
(* prompt (src/src/prompt.cc): a line editor between a terminal and a      *)
(* program.  The decoder of process_stdin, the line and its history, what  *)
(* receive_stdout does with the program's output, and the row of the       *)
(* terminal as the escape sequences of prompt leave it.                    *)
(*                                                                         *)
(* A byte from the terminal is a step, with a flag for the last byte of a  *)
(* read().  Signals are delivered between such steps.  What is sent to the *)
(* program is not kept.                                                    *)
(***************************************************************************)
EXTENDS Integers, Sequences, SequencesExt

CONSTANTS
  Typed,      \* bytes the user types for the sake of the text
  Shown,      \* bytes of the program's output
  Width,      \* columns of the terminal
  MaxLen,     \* bound: bytes in the line, and pos when a byte is typed
  MaxOut,     \* bound: bytes in last_output_line
  MaxLines,   \* bound: lines entered
  MaxEntered  \* bound: bytes in a line that is entered

Special == {"^A", "^E", "^K", "^L", "DEL", "ESC", "NL"}

(* What is typed for the sake of the text is a byte that no case of the    *)
(* switch in process_stdin() is for.                                       *)
ASSUME PromptAssumption ==
  /\ {Width, MaxLen, MaxOut, MaxLines, MaxEntered} \subseteq Nat
  /\ Typed \cap Special = {}

Keys == Special \cup Typed \cup {"[", "5", "A", "B", "C", "D"}
Text == Keys \ Special

VARIABLES
  state,      \* state: "initial", "escape_read", "movement_escape_read", "eat_one_char"
  combine, pos, history, hispos, moving,
  wmode,      \* "w_normal" or "w_fill"
  last_output_line,
  term,       \* the terminal's current row and the column of its cursor, while quiet
  pc,         \* where main() is, "stopping" in sigstp_handler, "stopped", "threw"
              \* (std::out_of_range), "looping" in sigc_handler, or "ended"
  tty,        \* the terminal's modes: "saved" or "raw"
  nonblock,   \* O_NONBLOCK of what descriptor 0 is open on
  crossed,    \* SIGCONT has come inside sigstp_handler, before prompt stops
  filled,     \* the program has filled the line and pos has not been set since
  quiet       \* the program has written nothing into the line being edited, which has
              \* never come to the end of its row

lineVars == <<combine, pos, history, hispos>>
screenVars == <<term, quiet>>
termVars == <<screenVars, last_output_line>>
modeVars == <<moving, wmode, filled>>
editVars == <<lineVars, termVars, modeVars, state>>
ttyVars == <<tty, nonblock, crossed>>
vars == <<editVars, pc, ttyVars>>

PromptTypeOK ==
  /\ state \in {"initial", "escape_read", "movement_escape_read", "eat_one_char"}
  /\ combine \in Seq(Text \cup Shown) /\ pos \in Nat
  /\ history \in Seq(Seq(Text \cup Shown))
  /\ hispos \in 0..(Len(history) - 1)
  /\ moving \in BOOLEAN /\ wmode \in {"w_normal", "w_fill"}
  /\ last_output_line \in Seq(Shown)
  /\ term.row \in Seq(Text \cup Shown) /\ term.col \in 0..Len(term.row)
  /\ pc \in {"starting", "armed", "forked", "raw", "running", "stopping", "stopped",
             "threw", "looping", "ended"}
  /\ tty \in {"saved", "raw"} /\ nonblock \in BOOLEAN /\ crossed \in BOOLEAN
  /\ filled \in BOOLEAN /\ quiet \in BOOLEAN

NewRow == [row |-> <<>>, col |-> 0]

(* main(), with the one empty entry that the history has when run() begins. *)
Init ==
  /\ state = "initial" /\ combine = <<>> /\ pos = 0
  /\ history = <<<<>>>> /\ hispos = 0 /\ moving = FALSE /\ wmode = "w_normal"
  /\ last_output_line = <<>> /\ term = NewRow
  /\ pc = "starting" /\ tty = "saved" /\ nonblock = FALSE /\ crossed = FALSE
  /\ filled = FALSE /\ quiet = TRUE

-----------------------------------------------------------------------------
(* The terminal.                                                           *)
Before(s, n) == SubSeq(s, 1, n)
After(s, n) == SubSeq(s, n + 1, Len(s))

Put(t, s) ==
  [row |-> Before(t.row, t.col) \o s \o After(t.row, t.col + Len(s)), col |-> t.col + Len(s)]

MoveLeft(t, n) == [t EXCEPT !.col = IF n > @ THEN 0 ELSE @ - n]
MoveRight(t) == [t EXCEPT !.col = Min({@ + 1, Len(t.row)})]
EraseLine(t) == [t EXCEPT !.row = Before(@, t.col)]

(* redraw_line(); all numbers are unsigned: a nextpos behind the end moves *)
(* to column 0, and -1 one further than the length.                        *)
Redraw(t0, str, curpos, nextpos) ==
  LET t == Put(EraseLine(MoveLeft(t0, curpos)), str)
  IN MoveLeft(t, IF nextpos > Len(str) THEN t.col ELSE Len(str) - nextpos)

(* The row is followed as long as it shows the line and nothing else, and  *)
(* does not reach the last column: the terminal goes on in the next row    *)
(* then, from which MoveLeft does not lead back.                           *)
Draw(t) ==
  /\ quiet' = (quiet /\ Len(t.row) < Width)
  /\ term' = IF quiet' THEN t ELSE NewRow

redraw_line(str, curpos, nextpos) == Draw(Redraw(term, str, curpos, nextpos))

-----------------------------------------------------------------------------
(* process_stdin() in the initial state.                                   *)

(* ^A and ^E *)
MoveTo(p) ==
  /\ redraw_line(combine, pos, p)
  /\ pos' = p /\ filled' = FALSE
  /\ UNCHANGED <<combine, history, hispos, moving, wmode, last_output_line, state, pc>>

(* ^K *)
Kill ==
  /\ IF pos < Len(combine)
     THEN /\ combine' = Before(combine, pos)
          /\ redraw_line(combine', pos, pos)
     ELSE UNCHANGED <<combine, screenVars>>
  /\ UNCHANGED <<pos, history, hispos, modeVars, last_output_line, state, pc>>

(* ^L *)
Refresh ==
  /\ redraw_line(combine, pos, pos)
  /\ UNCHANGED <<lineVars, modeVars, last_output_line, state, pc>>

(* The text kept behind a deleted byte: pos<combine.size()-1, so that the  *)
(* last byte goes too when the cursor is just before it.                   *)
Tail2 == IF pos < Len(combine) - 1 THEN After(combine, pos) ELSE <<>>

(* DEL and ^H.  combine.size()-1 wraps around for an empty line, and       *)
(* substr(pos) throws.                                                     *)
Delete ==
  /\ IF pos = 0 THEN UNCHANGED <<lineVars, screenVars, pc>>
     ELSE IF combine = <<>> THEN pc' = "threw" /\ UNCHANGED <<lineVars, screenVars>>
     ELSE /\ combine' = Before(combine, Min({pos - 1, Len(combine)})) \o Tail2
          /\ redraw_line(combine', pos, pos - 1)
          /\ pos' = pos - 1
          /\ UNCHANGED <<history, hispos, pc>>
  /\ UNCHANGED <<modeVars, last_output_line, state>>

(* ESC; as the last byte of a read() it is looked at again in the state    *)
(* escape_read, and was the escape key.                                    *)
Escape(last) ==
  /\ state' = IF last THEN "initial" ELSE "escape_read"
  /\ UNCHANGED <<lineVars, termVars, modeVars, pc>>

NewlineBehind ==                           \* mutant: hispos=history.size()
  /\ Len(history) <= MaxLines /\ Len(combine) <= MaxEntered
  /\ history' = Append(Append(Front(history), combine), <<>>)
  /\ hispos' = Len(history')
  /\ combine' = <<>> /\ pos' = 0 /\ filled' = FALSE
  /\ term' = NewRow /\ quiet' = TRUE
  /\ UNCHANGED <<moving, wmode, last_output_line, state, pc>>

(* NL: the line goes to the program and to the history.                    *)
Newline ==
  /\ Len(history) <= MaxLines /\ Len(combine) <= MaxEntered
  /\ history' = Append(Append(Front(history), combine), <<>>)
  /\ hispos' = Len(history') - 1
  /\ combine' = <<>> /\ pos' = 0 /\ filled' = FALSE
  /\ term' = NewRow /\ quiet' = TRUE
  /\ UNCHANGED <<moving, wmode, last_output_line, state, pc>>

InsertOver(c) ==                           \* mutant: the byte at the cursor is overwritten
  /\ IF moving THEN UNCHANGED <<combine, pos, screenVars>>
     ELSE /\ Len(combine) < MaxLen /\ pos < MaxLen
          /\ pos' = pos + 1
          /\ combine' = Before(combine, Min({pos, Len(combine)})) \o <<c>>
                          \o After(combine, pos + 1)
          /\ redraw_line(combine', pos, pos + 1)
  /\ UNCHANGED <<history, hispos, modeVars, last_output_line, state, pc>>

(* Any other byte: into the line, or, when moving, to the program.         *)
Insert(c) ==
  /\ IF moving THEN UNCHANGED <<combine, pos, screenVars>>
     ELSE /\ Len(combine) < MaxLen /\ pos < MaxLen
          /\ pos' = pos + 1
          /\ IF pos < Len(combine)
             THEN /\ combine' = Before(combine, pos) \o <<c>> \o After(combine, pos)
                  /\ redraw_line(combine', pos, pos + 1)
             ELSE /\ combine' = Append(combine, c)
                  /\ Draw(Put(term, <<c>>))
  /\ UNCHANGED <<history, hispos, modeVars, last_output_line, state, pc>>

InitialByte(k, last) ==
  /\ state = "initial"
  /\ \/ k = "^A" /\ MoveTo(0)
     \/ k = "^E" /\ MoveTo(Len(combine))
     \/ k = "^K" /\ Kill
     \/ k = "^L" /\ Refresh
     \/ k = "DEL" /\ Delete
     \/ k = "ESC" /\ Escape(last)
     \/ k = "NL" /\ Newline
     \/ k \in Typed /\ Insert(k)

-----------------------------------------------------------------------------
(* process_stdin() inside an escape sequence.                              *)

(* escape_read: a second ESC goes to the program as "\esc".                *)
EscapeByte(k) ==
  /\ state = "escape_read"
  /\ state' = IF k = "[" THEN "movement_escape_read" ELSE "initial"
  /\ UNCHANGED <<lineVars, termVars, modeVars, pc>>

(* The bytes of an arrow key when moving, and of other keys.               *)
Ignored(k) == moving \/ k \notin {"A", "B", "C", "D"}

UpAlwaysSaves ==                           \* mutant: hispos+1==history.size() is not asked
  /\ IF hispos > 0
     THEN /\ history' = Append(Front(history), combine)
          /\ hispos' = hispos - 1
          /\ combine' = history'[hispos' + 1]
          /\ redraw_line(combine', pos, Len(combine'))
          /\ pos' = Len(combine') /\ filled' = FALSE
     ELSE UNCHANGED <<lineVars, screenVars, filled>>

(* A: the line being edited is kept at the end of the history when the     *)
(* user leaves it.                                                         *)
Up ==
  /\ IF hispos > 0
     THEN /\ history' = IF hispos + 1 = Len(history)
                        THEN Append(Front(history), combine) ELSE history
          /\ hispos' = hispos - 1
          /\ combine' = history'[hispos' + 1]
          /\ redraw_line(combine', pos, Len(combine'))
          /\ pos' = Len(combine') /\ filled' = FALSE
     ELSE UNCHANGED <<lineVars, screenVars, filled>>

(* B *)
Down ==
  /\ IF hispos + 1 < Len(history)
     THEN /\ hispos' = hispos + 1
          /\ combine' = history[hispos' + 1]
          /\ redraw_line(combine', pos, Len(combine'))
          /\ pos' = Len(combine') /\ filled' = FALSE
     ELSE UNCHANGED <<combine, pos, hispos, screenVars, filled>>
  /\ UNCHANGED history

RightUnbound ==                            \* mutant: pos<=combine.size()
  /\ IF pos <= Len(combine)
     THEN pos' = pos + 1 /\ Draw(MoveRight(term))
     ELSE UNCHANGED <<pos, screenVars>>
  /\ UNCHANGED <<combine, history, hispos, filled>>

(* C and D *)
Right ==
  /\ IF pos < Len(combine)
     THEN pos' = pos + 1 /\ Draw(MoveRight(term))
     ELSE UNCHANGED <<pos, screenVars>>
  /\ UNCHANGED <<combine, history, hispos, filled>>

Left ==
  /\ IF pos > 0
     THEN pos' = pos - 1 /\ Draw(MoveLeft(term, 1))
     ELSE UNCHANGED <<pos, screenVars>>
  /\ UNCHANGED <<combine, history, hispos, filled>>

(* movement_escape_read: 5 and 6 are page keys, which end in one more byte. *)
MovementByte(k) ==
  /\ state = "movement_escape_read"
  /\ state' = IF k = "5" THEN "eat_one_char" ELSE "initial"
  /\ \/ Ignored(k) /\ UNCHANGED <<lineVars, screenVars, filled>>
     \/ ~Ignored(k) /\ \/ k = "A" /\ Up
                       \/ k = "B" /\ Down
                       \/ k = "C" /\ Right
                       \/ k = "D" /\ Left
  /\ UNCHANGED <<moving, wmode, last_output_line, pc>>

EatenByte ==
  /\ state = "eat_one_char"
  /\ state' = "initial"
  /\ UNCHANGED <<lineVars, termVars, modeVars, pc>>

process_stdin ==
  \/ \E k \in Keys, last \in BOOLEAN : InitialByte(k, last)
  \/ \E k \in Keys : EscapeByte(k) \/ MovementByte(k)
  \/ EatenByte

-----------------------------------------------------------------------------
(* receive_stdout()                                                        *)

(* A byte of output; c is a member of Shown or the end of a line.          *)
Output(c) ==
  /\ wmode = "w_normal"
  /\ IF c = "NL" THEN last_output_line' = <<>>
     ELSE /\ Len(last_output_line) < MaxOut
          /\ last_output_line' = Append(last_output_line, c)
  /\ IF combine = <<>> /\ pos = 0
     THEN Draw(IF c = "NL" THEN NewRow ELSE Put(term, <<c>>))
     ELSE quiet' = FALSE /\ term' = NewRow
  /\ UNCHANGED <<lineVars, modeVars, state, pc>>

(* ESC [ u at the end of a read(): from now on keys go to the program.  It *)
(* moves the cursor, too.                                                  *)
StartMoving ==
  /\ ~moving
  /\ moving' = TRUE /\ quiet' = FALSE /\ term' = NewRow
  /\ UNCHANGED <<lineVars, wmode, filled, last_output_line, state, pc>>

(* ESC $ text $, which may come in several read()s, with keys between.     *)
FillBegins ==
  /\ wmode = "w_normal"
  /\ wmode' = "w_fill" /\ combine' = <<>>
  /\ filled' = TRUE /\ quiet' = FALSE /\ term' = NewRow
  /\ UNCHANGED <<pos, history, hispos, moving, last_output_line, state, pc>>

FillText(c) ==
  /\ wmode = "w_fill" /\ Len(combine) < MaxLen
  /\ combine' = Append(combine, c)
  /\ quiet' = FALSE /\ term' = NewRow
  /\ UNCHANGED <<pos, history, hispos, modeVars, last_output_line, state, pc>>

FillEnds ==
  /\ wmode = "w_fill"
  /\ wmode' = "w_normal" /\ quiet' = FALSE /\ term' = NewRow
  /\ UNCHANGED <<lineVars, moving, filled, last_output_line, state, pc>>

(* receive_stderr(): the same terminal, and what it writes is not even     *)
(* kept for a redraw; bytes of an earlier read() may follow the text.      *)
receive_stderr ==
  /\ quiet' = FALSE /\ term' = NewRow
  /\ UNCHANGED <<lineVars, modeVars, last_output_line, state, pc>>

receive_stdout ==
  \/ \E c \in Shown : Output(c) \/ FillText(c)
  \/ Output("NL") \/ StartMoving \/ FillBegins \/ FillEnds

-----------------------------------------------------------------------------
(* main() up to run().                                                     *)

(* The terminal's reads no longer block, not for whoever else has it       *)
(* either; prompt never takes that back.                                   *)
SetNonBlocking ==
  /\ pc = "starting" /\ nonblock' = TRUE
  /\ UNCHANGED <<editVars, pc, tty, crossed>>

(* setup_pipes() has returned, and SIGINT is caught from now on. *)
CatchInterrupts ==
  /\ pc = "starting" /\ nonblock /\ pc' = "armed"
  /\ UNCHANGED <<editVars, ttyVars>>

(* fork() has returned and thepid is set. *)
ForkProgram ==
  /\ pc = "armed" /\ pc' = "forked"
  /\ UNCHANGED <<editVars, ttyVars>>

(* There is no terminal or no program, fork() fails, or the program has no  *)
(* pipe of one of the three names: an exception is caught, in one case     *)
(* with the program left running.                                          *)
GivesUp ==
  /\ pc \in {"starting", "armed", "forked"} /\ pc' = "ended"
  /\ UNCHANGED <<editVars, ttyVars>>

(* raw_terminal(): the modes first, the handlers of SIGTSTP and SIGCONT    *)
(* behind them.                                                            *)
raw_terminal ==
  /\ \/ pc = "forked" /\ pc' = "raw" /\ tty' = "raw"
     \/ pc = "raw" /\ pc' = "running" /\ UNCHANGED tty
  /\ UNCHANGED <<editVars, nonblock, crossed>>

(* SIGINT goes to the program; with thepid still 0 it goes to all the      *)
(* group, prompt included, and is caught again, for ever.                  *)
sigc_handler ==
  /\ pc = "armed" /\ pc' = "looping"
  /\ UNCHANGED <<editVars, ttyVars>>

-----------------------------------------------------------------------------
(* SIGTSTP: the modes first, then the stop, with SIGCONT between the two   *)
(* if it comes there.                                                      *)
StopsRaw ==                                \* mutant: the terminal is not restored
  /\ \/ pc = "running" /\ pc' = "stopping"
     \/ pc = "stopping" /\ pc' = "stopped"
  /\ UNCHANGED <<editVars, ttyVars>>

sigstp_handler ==
  /\ \/ pc = "running" /\ pc' = "stopping" /\ tty' = "saved"
     \/ pc = "stopping" /\ pc' = "stopped" /\ UNCHANGED tty
  /\ UNCHANGED <<editVars, nonblock, crossed>>

(* The shell wants its reads to block. *)
ShellReads ==
  /\ pc = "stopped" /\ nonblock' = FALSE
  /\ UNCHANGED <<editVars, pc, tty, crossed>>

(* Where the cursor may be: where it was, or on a row of its own when the  *)
(* shell has had the terminal.                                             *)
Places == {term} \cup (IF pc = "stopped" THEN {NewRow} ELSE {})

ResumeAtEnd ==                             \* mutant: redraw_line(combine, 0, combine.size())
  /\ pc \in {"running", "stopping", "stopped"}
  /\ pc' = IF pc = "stopped" THEN "running" ELSE pc
  /\ tty' = "raw" /\ nonblock' = TRUE /\ crossed' = (pc = "stopping")
  /\ \E t \in Places : Draw(Redraw(Put(t, last_output_line), combine, 0, Len(combine)))
  /\ UNCHANGED <<lineVars, modeVars, state, last_output_line>>

(* SIGCONT, at any time: the last output and the line are written again.   *)
sigcont_handler ==
  /\ pc \in {"running", "stopping", "stopped"}
  /\ pc' = IF pc = "stopped" THEN "running" ELSE pc
  /\ tty' = "raw" /\ nonblock' = TRUE /\ crossed' = (pc = "stopping")
  /\ \E t \in Places : Draw(Redraw(Put(t, last_output_line), combine, 0, pos))
  /\ UNCHANGED <<lineVars, modeVars, state, last_output_line>>

(* The program dies: died() makes run() return.  SIGTERM, and an exception *)
(* that main() catches, end prompt through exit(), as does this.           *)
died ==
  /\ pc \in {"running", "threw"}
  /\ pc' = "ended" /\ tty' = "saved"
  /\ UNCHANGED <<editVars, nonblock, crossed>>

Next ==
  \/ SetNonBlocking \/ CatchInterrupts \/ ForkProgram \/ GivesUp \/ raw_terminal
  \/ pc = "running" /\ (process_stdin \/ receive_stdout \/ receive_stderr) /\ UNCHANGED ttyVars
  \/ sigc_handler \/ sigstp_handler \/ ShellReads \/ sigcont_handler \/ died

(* A signal whose default action ends prompt (SIGQUIT or SIGHUP, and the   *)
(* others before their handlers are there) is a behaviour that goes no     *)
(* further: nothing is fair here.                                          *)
Spec == Init /\ [][Next]_vars

-----------------------------------------------------------------------------
(* The cursor stays in the line through every edit and every walk through  *)
(* the history, so that no substr() throws; only a program that fills the  *)
(* line leaves pos behind the end, until pos is set anew.                  *)
CursorInLine == ~filled => pos <= Len(combine) /\ pc # "threw"

(* Whoever has the terminal after prompt, however it ended, and while it   *)
(* is stopped, finds the modes that it had; while prompt runs, the modes   *)
(* are raw and no read blocks.  Exceptions: a signal that prompt does not  *)
(* handle, or not yet; SIGCONT between tcsetattr() and kill() in           *)
(* sigstp_handler, after which prompt stops with the terminal raw, until   *)
(* the next SIGCONT.  O_NONBLOCK is none of these modes: whoever reads     *)
(* after prompt finds it set.                                              *)
TerminalIsRestored ==
  /\ pc = "ended" \/ (pc = "stopped" /\ ~crossed) => tty = "saved"
  /\ pc = "running" => tty = "raw" /\ nonblock

(* The relative cursor movements add up: what the user sees at the end of  *)
(* the row is the line, with the cursor where the next byte will go, as    *)
(* long as the program does not write into the line being edited, and what *)
(* stands in the row and the line together stay shorter than the row: when *)
(* they reach its end the terminal goes on in the next one, and move_left  *)
(* stops at the first column of that, up to the next newline typed.        *)
ScreenShowsLine ==
  quiet => /\ IsSuffix(combine, term.row)
           /\ term.col = Len(term.row) - Len(combine) + pos

(* A line that has been entered stays in the history as it is, and nothing *)
(* in the history changes, the unfinished line at its end included, while  *)
(* the user walks about in it.                                             *)
HistoryIsKept ==
  [][/\ IsPrefix(Front(history), history')
     /\ hispos + 1 < Len(history) /\ Len(history') = Len(history) => history' = history]_vars

(* A byte inserted or deleted leaves the text behind the cursor alone,     *)
(* whatever happened before; except that a deletion just before the last   *)
(* byte takes that byte too (process_stdin compares pos with size()-1).    *)
(* ^K, which does not move the cursor, deletes that text on purpose.       *)
TextBehindCursorIsKept ==
  [][/\ combine' # combine /\ history' = history /\ hispos' = hispos
     /\ pos' = pos + 1 \/ (pos' = pos - 1 /\ pos + 1 # Len(combine))
     => After(combine', pos') = After(combine, pos)]_vars
=============================================================================
