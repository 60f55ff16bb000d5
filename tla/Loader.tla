------------------------------- MODULE Loader -------------------------------
(***************************************************************************)
(* loader (src/src/shell.cc): the command parser of the modglue shell.  It *)
(* is fed whatever has arrived on its input pipe, in pieces that need not  *)
(* end at a blank, and keeps a stack of what it expects next.              *)
(*                                                                         *)
(* A turn of the loop in parse_() is a step; a character that has been put *)
(* back by unget() is looked at again in the next one.                     *)
(***************************************************************************)
EXTENDS Integers, Sequences, SequencesExt

CONSTANTS
  Letters,    \* characters without a meaning
  MaxInput    \* bound: characters that arrive

ASSUME LoaderAssumption == MaxInput \in Nat

Controls == {"|", "^", "&"}
Blank == " "
Chars == Letters \cup Controls \cup {Blank, "{", "}"}

VARIABLES
  status_,    \* a stack, its top last: "s_skipwhite", "s_initial", "s_scan", "s_groupscan",
              \* "s_command" and "s_arg_or_control"
  new_processes_, current_, ingroup_,
  failing,    \* errors_ is not empty
  p_command,  \* what has arrived and not been taken
  eofbit,     \* the stream's, left behind by ignore()
  pc,         \* "waiting" for a select, "parsing" or "aborted" by an assertion
  parsed,     \* history: what parse_() has taken
  refused,    \* history: how many characters were refused
  superfluous \* history: a '}' was among them

parserVars == <<status_, new_processes_, current_, ingroup_>>
vars == <<parserVars, failing, p_command, eofbit, pc, parsed, refused, superfluous>>

InitStrict ==                              \* mutant: no s_skipwhite to begin with
  /\ status_ = <<"s_initial">>
  /\ new_processes_ = <<>> /\ current_ = <<>> /\ ingroup_ = FALSE
  /\ failing = FALSE /\ p_command = <<>> /\ eofbit = FALSE
  /\ pc = "waiting" /\ parsed = <<>> /\ refused = 0 /\ superfluous = FALSE

(* The constructor. *)
Init ==
  /\ status_ = <<"s_initial", "s_skipwhite">>
  /\ new_processes_ = <<>> /\ current_ = <<>> /\ ingroup_ = FALSE
  /\ failing = FALSE /\ p_command = <<>> /\ eofbit = FALSE
  /\ pc = "waiting" /\ parsed = <<>> /\ refused = 0 /\ superfluous = FALSE

(* Characters arrive at any time. *)
Arrive(ch) ==
  /\ Len(parsed) + Len(p_command) + refused < MaxInput
  /\ p_command' = Append(p_command, ch)
  /\ UNCHANGED <<parserVars, failing, eofbit, pc, parsed, refused, superfluous>>

-----------------------------------------------------------------------------
Top == Last(status_)
c == Head(p_command)
Pop == Front(status_)

Take ==
  /\ p_command' = Tail(p_command) /\ parsed' = Append(parsed, c)
  /\ UNCHANGED pc

Unget == UNCHANGED <<p_command, parsed, pc>>

(* An error ends parse_(); accept_commands() ignores what has arrived, and *)
(* the end it runs into stays in the stream.                               *)
Error ==
  /\ failing' = TRUE /\ refused' = refused + Len(p_command)
  /\ superfluous' = (superfluous \/ c = "}")
  /\ p_command' = <<>> /\ eofbit' = TRUE
  /\ UNCHANGED <<parserVars, pc, parsed>>

Calm == UNCHANGED <<failing, eofbit, refused, superfluous>>

s_skipwhite ==
  /\ Top = "s_skipwhite"
  /\ IF c = Blank THEN Take /\ UNCHANGED status_ ELSE Unget /\ status_' = Pop
  /\ UNCHANGED <<new_processes_, current_, ingroup_>> /\ Calm

InitialTakes ==                            \* mutant: no unget() in s_initial
  /\ Top = "s_initial" /\ c \notin Controls \cup {Blank}
  /\ status_' = Pop \o <<"s_skipwhite", "s_scan">>
  /\ Take
  /\ UNCHANGED <<new_processes_, current_, ingroup_>> /\ Calm

InitialText ==
  /\ Top = "s_initial" /\ c \notin Controls \cup {Blank}
  /\ status_' = Pop \o <<"s_skipwhite", "s_scan">>
  /\ Unget
  /\ UNCHANGED <<new_processes_, current_, ingroup_>> /\ Calm

(* assert(!isspace(c)) *)
Abort ==
  /\ Top = "s_initial" /\ c = Blank
  /\ pc' = "aborted"
  /\ UNCHANGED <<parserVars, p_command, parsed>> /\ Calm

s_initial == InitialText \/ Abort \/ (Top = "s_initial" /\ c \in Controls /\ Error)

s_scan ==
  /\ Top = "s_scan"
  /\ IF c = "{"
     THEN /\ ingroup_' = TRUE
          /\ status_' = status_ \o <<"s_groupscan", "s_skipwhite">>
          /\ Take
     ELSE /\ status_' = Append(status_, "s_command") /\ Unget /\ UNCHANGED ingroup_
  /\ UNCHANGED <<new_processes_, current_>> /\ Calm

(* These two take everything and are never left. *)
Swallow ==
  /\ Top \in {"s_groupscan", "s_arg_or_control"}
  /\ Take
  /\ UNCHANGED parserVars /\ Calm

CommandEnds ==
  /\ Top = "s_command" /\ c \in Controls \cup {Blank}
  /\ new_processes_' = Append(new_processes_, current_) /\ current_' = <<>>
  /\ status_' = status_ \o (IF c = Blank THEN <<"s_skipwhite">> ELSE <<>>)
                        \o <<"s_arg_or_control">>
  /\ IF c = Blank THEN Take ELSE Unget
  /\ UNCHANGED ingroup_ /\ Calm

(* In this state ingroup_ is never set: what sets it is never left. *)
s_command ==
  \/ CommandEnds
  \/ Top = "s_command" /\ c = "}" /\ Error
  \/ /\ Top = "s_command" /\ c \notin Controls \cup {Blank, "}"}
     /\ current_' = Append(current_, c)
     /\ Take
     /\ UNCHANGED <<status_, new_processes_, ingroup_>> /\ Calm

parse_ ==
  /\ pc = "parsing" /\ ~failing /\ p_command # <<>>
  /\ s_skipwhite \/ s_initial \/ s_scan \/ Swallow \/ s_command

-----------------------------------------------------------------------------
(* accept_commands(): get() fails at once on a stream that is at its end.  *)
AcceptWithoutClear ==                      \* mutant: no p.clear()
  /\ pc = "waiting" /\ p_command # <<>>
  /\ pc' = IF eofbit THEN pc ELSE "parsing"
  /\ UNCHANGED <<eofbit, parserVars, failing, p_command, parsed, refused, superfluous>>

Accept ==
  /\ pc = "waiting" /\ p_command # <<>>
  /\ pc' = IF eofbit THEN pc ELSE "parsing"
  /\ eofbit' = FALSE
  /\ UNCHANGED <<parserVars, failing, p_command, parsed, refused, superfluous>>

Report ==
  /\ pc = "parsing" /\ (failing \/ p_command = <<>>)
  /\ pc' = "waiting" /\ failing' = FALSE
  /\ UNCHANGED <<parserVars, p_command, eofbit, parsed, refused, superfluous>>

Next == (\E ch \in Chars : Arrive(ch)) \/ parse_ \/ Accept \/ Report

Spec == Init /\ [][Next]_vars /\ WF_vars(parse_ \/ Accept \/ Report)

-----------------------------------------------------------------------------
(* What the parser has made of its input does not depend on how the input  *)
(* was cut up, nor on errors at its beginning: the characters up to the    *)
(* first blank or control character are a command, or half of one.         *)
(* Exceptions: a '}' that was superfluous, after which the half command    *)
(* before it stays and a blank makes a command without a name; a '{' at    *)
(* the beginning, after which there is no command.  That there is no other *)
(* than this first one, and none in a group, is what the code does and not *)
(* what the grammar above accept_commands_old() (shell.cc:183-235) says:   *)
(* there { ls, grep } ^ starts two processes, and a | begins a new one.    *)
FirstOf(s, P) == IF \E i \in DOMAIN s : s[i] \in P
                 THEN CHOOSE i \in DOMAIN s : s[i] \in P /\ \A j \in 1..(i - 1) : s[j] \notin P
                 ELSE Len(s) + 1

Text(s) == SubSeq(s, FirstOf(s, Chars \ {Blank}), Len(s))
Word(s) == SubSeq(Text(s), 1, FirstOf(Text(s), Controls \cup {Blank}) - 1)

CommandIsFirstWord ==
  pc = "waiting" /\ ~superfluous =>
    IF Text(parsed) = <<>> \/ Head(Text(parsed)) = "{"
    THEN new_processes_ = <<>> /\ current_ = <<>>
    ELSE LET whole == Word(parsed) # Text(parsed)
         IN /\ new_processes_ = IF whole THEN <<Word(parsed)>> ELSE <<>>
            /\ current_ = IF whole THEN <<>> ELSE Word(parsed)

(* The assertion in s_initial holds for every input without an error: only *)
(* after an error does the next input not begin with s_skipwhite.          *)
AbortsAfterErrorOnly == pc = "aborted" => refused > 0

(* Whatever arrives is taken or refused in the end, the round that is lost *)
(* to a stream left at its end included.                                   *)
AllIsTaken == []<>(p_command = <<>> \/ pc = "aborted")
=============================================================================
