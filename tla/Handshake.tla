------------------------------ MODULE Handshake ------------------------------
(***************************************************************************)
(* How two modglue programs find each other: the search for the signature  *)
(* in an executable, the list of pipes a program prints for --list-pipes,  *)
(* what the other side makes of it, and the --pipe options by which the    *)
(* descriptors come back (src/src/ext_process.cc, src/src/main.cc).        *)
(*                                                                         *)
(* A pipe is a record of its name and its type, "input" or "output", as    *)
(* seen by the program that owns it.                                       *)
(***************************************************************************)
EXTENDS Integers, Sequences, SequencesExt

CONSTANTS
  Sought,     \* comp: the bytes determine_binary_type_() looks for
  Unread,     \* names of pipes with a blank in them, or of more than 97 bytes
  Misread     \* for a name with a comma: the name and descriptor its option is taken for

NoFd == -1

ASSUME SoughtAssumption == Sought \in Seq(ToSet(Sought)) /\ Sought # <<>>
ASSUME MisreadAssumption == "startup_args" \notin DOMAIN Misread

AdvanceBehind(hit, c) ==                   \* mutant: a hit is kept over a mismatch
  IF hit = Len(Sought) \/ c # Sought[hit + 1] THEN hit ELSE hit + 1

(* ext_process::determine_binary_type_(): hit counts the bytes of comp that *)
(* have been seen; a mismatch starts again behind it, and the whole of     *)
(* comp ends the search.                                                   *)
Advance(hit, c) ==
  IF hit = Len(Sought) THEN hit ELSE IF c = Sought[hit + 1] THEN hit + 1 ELSE 0

hits(image) ==
  LET hit[n \in 0..Len(image)] == IF n = 0 THEN 0 ELSE Advance(hit[n - 1], image[n])
  IN hit

modglue_binary_(image) == hits(image)[Len(image)] = Len(Sought)

-----------------------------------------------------------------------------
(* What a loop over s takes from it: the members of S.                     *)
Taking(s, S) ==
  LET taken[n \in 0..Len(s)] ==
        IF n = 0 THEN <<>>
        ELSE IF s[n] \in S THEN Append(taken[n - 1], s[n]) ELSE taken[n - 1]
  IN taken

Taken(s, S) == Taking(s, S)[Len(s)]

(* The listing.                                                            *)
OfType(ps, t) == Taken(ps, {q \in ToSet(ps) : q.type = t})

(* main::build_pipe_list(), of the pipes in the order of their add(). *)
build_pipe_list(ps) == OfType(ps, "input") \o OfType(ps, "output")

Flipped(t) == IF t = "input" THEN "output" ELSE "input"

NotFlipped(desc) ==                        \* mutant: the other side's types are kept
  build_pipe_list(Taken(desc, {q \in ToSet(desc) : q.name \notin Unread}))

(* ext_process::setup_pipes_from_string_(), input_pipes_ before            *)
(* output_pipes_.  "%99s , " of sscanf stops at a blank in the name, and   *)
(* behind the quotation mark and 98 bytes of it; the line then does not    *)
(* match, unless there is a comma just there: such names are not modelled. *)
setup_pipes_from_string_(desc) ==
  LET read == Taken(desc, {q \in ToSet(desc) : q.name \notin Unread})
      flip(q) == [q EXCEPT !.type = Flipped(@)]
  IN build_pipe_list([i \in DOMAIN read |-> flip(read[i])])

-----------------------------------------------------------------------------
(* The command line: arguments that begin with '-' and those that do not,  *)
(* and --pipe=name,fd.                                                     *)
Word == [kind |-> "word"]
Flag == [kind |-> "flag"]
PipeOption(name, fd) == [kind |-> "pipe", name |-> name, fd |-> fd]

(* ext_process::fork(): args_ and, behind them, an option for each pipe.   *)
realargs(args, ps, fds) ==
  args \o [i \in DOMAIN ps |-> PipeOption(ps[i].name, fds[i])]

(* main::main(argc, argv): an option is cut at its first comma, and the    *)
(* descriptor is what atoi() makes of the rest.                            *)
Cut(name, fd) ==
  IF name \in DOMAIN Misread THEN Misread[name] ELSE [name |-> name, fd |-> fd]

(* pipe_fds_, from the options before the first argument that is none; the *)
(* last option of a name counts.                                           *)
pipe_fds_(argv) ==
  LET read == {i \in DOMAIN argv : /\ argv[i].kind = "pipe"
                                   /\ \A j \in 1..i : argv[j].kind # "word"}
      cut(i) == Cut(argv[i].name, argv[i].fd)
      last(n) == CHOOSE i \in read :
                   cut(i).name = n /\ \A j \in read : cut(j).name = n => j <= i
  IN [n \in {cut(i).name : i \in read} |-> cut(last(n)).fd]

(* main::add() of an ipipe or an opipe, without a default_fd: which pipes  *)
(* are refused with an exception, and the descriptor of the others.        *)
Standard == [stdin |-> 0, stdout |-> 1, stderr |-> 2]

Refused(fds, q) ==
  /\ q.name \notin DOMAIN fds
  /\ q.name \in IF q.type = "input" THEN {"stdout", "stderr"} ELSE {"stdin"}

add(fds, q) ==
  IF q.name \in DOMAIN fds THEN fds[q.name]
  ELSE IF q.name \in DOMAIN Standard THEN Standard[q.name] ELSE NoFd
=============================================================================
