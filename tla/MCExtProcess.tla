---------------------------- MODULE MCExtProcess ----------------------------
(* A small instance of ExtProcess. *)
EXTENDS ExtProcess, TLC

CONSTANTS
  cat,    \* a unix program
  tool,   \* a modglue program
  odd,    \* one that is given a file name, and so reads descriptor 0
  mute,   \* one that has no pipes
  lost    \* a program that is not there

In(n) == [name |-> n, type |-> "input"]
Out(n) == [name |-> n, type |-> "output"]

(* MODGLUE_1.0_BINARO in three pieces, the first of which begins it. *)
MCSought == <<"M", "B", "O">>
MCImages == UNION {[1..n -> {"M", "B", "O", "Y"}] : n \in 0..5}

(* --pipe=a,b,7 names a pipe a, and atoi("b,7") is 0. *)
MCMisread == "a,b" :> [name |-> "a", fd |-> 0]

MCProgram ==
  (cat  :> [found |-> TRUE, image |-> <<"Y">>, pipes |-> <<>>, args |-> <<>>]) @@
  (tool :> [found |-> TRUE, image |-> <<"Y", "M", "B", "O">>, args |-> <<Flag>>,
            pipes |-> <<Out("stdout"), In("stdin"), In("a b"), Out("a,b")>>]) @@
  (odd  :> [found |-> TRUE, image |-> <<"M", "B", "O">>, args |-> <<Word>>,
            pipes |-> <<In("stdin"), Out("ctl")>>]) @@
  (mute :> [found |-> TRUE, image |-> <<"M", "B", "O">>, args |-> <<>>, pipes |-> <<>>]) @@
  (lost :> [found |-> FALSE, image |-> <<>>, args |-> <<>>, pipes |-> <<>>])
=============================================================================
