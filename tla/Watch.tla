-------------------------------- MODULE Watch --------------------------------
(***************************************************************************)
(* What modglue::main promises to the owner of some ext_process objects:   *)
(* a process is started, produces output and dies; its output is handed    *)
(* out; it is given back (process_died is emitted, the object may be       *)
(* forked again) only when it is dead and all its output has been handed   *)
(* out.  The only other ways to lose a process are the user's own          *)
(* terminate(), the end of the program and, for a process that can be      *)
(* mistaken for another, the mistake.                                      *)
(***************************************************************************)
EXTENDS Naturals

CONSTANTS
  Procs, Pipes, Owner, NoProc,
  Deaf,       \* pipes nobody listens to
  Dropped,    \* processes the user may give up himself
  Cap,        \* output that can wait in one pipe
  Alike       \* whether there are processes that can be taken for dead ones

VARIABLES
  st,         \* "idle", "running" or "dead", for each process
  unread,     \* output not yet handed out, for each pipe
  over,       \* the program has exited
  alike       \* whether the process, as now started, can be taken for a dead one

watchVars == <<st, unread, over, alike>>

Of(p) == {q \in Pipes : Owner[q] = p}
Emptied(S) == [q \in Pipes |-> IF q \in S THEN 0 ELSE unread[q]]

Init ==
  /\ st = [p \in Procs |-> "idle"]
  /\ unread = [q \in Pipes |-> 0]
  /\ over = FALSE
  /\ alike = [p \in Procs |-> FALSE]

Start(p) ==
  /\ st[p] = "idle"
  /\ st' = [st EXCEPT ![p] = "running"]
  /\ \E b \in {FALSE, Alike} : alike' = [alike EXCEPT ![p] = b]
  /\ UNCHANGED <<unread, over>>

Produce(q) ==
  /\ Owner[q] # NoProc => st[Owner[q]] = "running"
  /\ unread[q] < Cap
  /\ unread' = [unread EXCEPT ![q] = @ + 1]
  /\ UNCHANGED <<st, over, alike>>

HandOut(q) ==
  /\ unread[q] > 0
  /\ unread' = [unread EXCEPT ![q] = @ - 1]
  /\ UNCHANGED <<st, over, alike>>

Die(p) ==
  /\ st[p] = "running"
  /\ st' = [st EXCEPT ![p] = "dead"]
  /\ UNCHANGED <<unread, over, alike>>

GivenUp(p) ==
  /\ st' = [st EXCEPT ![p] = "idle"]
  /\ alike' = [alike EXCEPT ![p] = FALSE]
  /\ unread' = Emptied(Of(p))
  /\ UNCHANGED over

GiveBack(p) ==
  /\ st[p] = "dead"
  /\ \A q \in Of(p) \ Deaf : unread[q] = 0
  /\ GivenUp(p)

Mistake(p) == st[p] # "idle" /\ alike[p] /\ GivenUp(p)

Drop(p) == p \in Dropped /\ GivenUp(p)

Leave ==
  /\ over' = TRUE
  /\ st' = [p \in Procs |-> "idle"]
  /\ alike' = [p \in Procs |-> FALSE]
  /\ unread' = Emptied({q \in Pipes : Owner[q] # NoProc})

Next ==
  \/ \E p \in Procs : Start(p) \/ Die(p) \/ GiveBack(p) \/ Mistake(p) \/ Drop(p)
  \/ \E q \in Pipes : Produce(q) \/ HandOut(q)
  \/ Leave

Spec == Init /\ [][Next]_watchVars
=============================================================================
