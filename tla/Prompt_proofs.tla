---------------------------- MODULE Prompt_proofs ----------------------------
(***************************************************************************)
(* Theorems about Prompt, for any text, output and bounds.                 *)
(***************************************************************************)
EXTENDS Prompt, SequenceTheorems, TLAPS

(* What can be in the line. *)
Bytes == Text \cup Shown

(* The line and the history; the row of the terminal plays no part.        *)
LineInv ==
  /\ combine \in Seq(Bytes) /\ pos \in Nat
  /\ history \in Seq(Seq(Bytes)) /\ hispos \in 0..(Len(history) - 1)
  /\ CursorInLine

(* The modes change at the end of the start, and with the stops. *)
TtyInv ==
  /\ pc \in {"starting", "armed", "forked", "ended"} => tty = "saved"
  /\ pc \in {"stopping", "stopped"} /\ ~crossed => tty = "saved"
  /\ pc \in {"raw", "running", "threw"} => tty = "raw"
  /\ pc \in {"armed", "forked", "raw", "running", "stopping"} => nonblock
  /\ pc \in {"starting", "armed", "forked", "raw", "running", "threw"} => ~crossed

LEMMA TypedIsText == Typed \subseteq Text
BY PromptAssumption DEF Text, Keys

-----------------------------------------------------------------------------
(* Sequences.                                                              *)
LEMMA BeforeIs ==
  ASSUME NEW S, NEW s \in Seq(S), NEW n \in 0..Len(s)
  PROVE  Before(s, n) \in Seq(S) /\ Len(Before(s, n)) = n
BY DEF Before

LEMMA AfterIs ==
  ASSUME NEW S, NEW s \in Seq(S), NEW n \in 0..Len(s)
  PROVE  After(s, n) \in Seq(S)
BY DEF After

LEMMA FrontIs ==
  ASSUME NEW S, NEW s \in Seq(S), s # <<>>
  PROVE  Front(s) \in Seq(S) /\ Len(Front(s)) = Len(s) - 1
         /\ \A i \in 1..(Len(s) - 1) : Front(s)[i] = s[i]
<1> DEFINE n == Len(s) - 1
<1>1. n \in Nat /\ \A i \in 1..n : s[i] \in S
  <2>1. Len(s) \in Nat /\ Len(s) # 0
    OBVIOUS
  <2> QED
    BY <2>1
<1>2. Front(s) = SubSeq(s, 1, n)
  BY DEF Front
<1> HIDE DEF n
<1>3. /\ SubSeq(s, 1, n) \in Seq(S) /\ Len(SubSeq(s, 1, n)) = IF 1 <= n THEN n - 1 + 1 ELSE 0
      /\ \A i \in 1..(n - 1 + 1) : SubSeq(s, 1, n)[i] = s[1 + i - 1]
  BY ONLY <1>1, SubSeqProperties
<1>4. SubSeq(s, 1, n) \in Seq(S) /\ Len(SubSeq(s, 1, n)) = n
  BY ONLY <1>1, <1>3
<1>5. ASSUME NEW i \in 1..n PROVE SubSeq(s, 1, n)[i] = s[i]
  <2>1. i \in 1..(n - 1 + 1) /\ 1 + i - 1 = i
    BY ONLY <1>1, <1>5
  <2> QED
    BY <1>3, <2>1
<1> QED
  BY <1>2, <1>4, <1>5 DEF n

LEMMA SamePrefix ==
  ASSUME NEW S, NEW s \in Seq(S), NEW t \in Seq(S), Len(s) <= Len(t),
         \A i \in 1..Len(s) : s[i] = t[i]
  PROVE  IsPrefix(s, t)
<1>1. /\ SubSeq(s, 1, Len(s)) \in Seq(S) /\ Len(SubSeq(s, 1, Len(s))) = Len(s)
      /\ \A i \in 1..Len(s) : SubSeq(s, 1, Len(s))[i] = s[i]
  BY SubSeqProperties
<1>2. /\ SubSeq(t, 1, Len(s)) \in Seq(S) /\ Len(SubSeq(t, 1, Len(s))) = Len(s)
      /\ \A i \in 1..Len(s) : SubSeq(t, 1, Len(s))[i] = t[i]
  BY SubSeqProperties
<1>3. SubSeq(s, 1, Len(s)) = SubSeq(t, 1, Len(s))
  BY <1>1, <1>2, SeqEqual
<1> QED
  BY <1>3 DEF IsPrefix

LEMMA LeastOfTwo ==
  ASSUME NEW a \in Nat, NEW b \in Nat
  PROVE  Min({a, b}) = IF a <= b THEN a ELSE b
BY DEF Min

-----------------------------------------------------------------------------
LEMMA LineInvInit == Init => LineInv
BY DEF Init, LineInv, CursorInLine

LEMMA InsertInv ==
  ASSUME LineInv, pc = "running", NEW c \in Typed, Insert(c)
  PROVE  LineInv'
<1>1. CASE moving
  BY <1>1 DEF LineInv, CursorInLine, Insert, modeVars
<1>2. CASE ~moving /\ pos < Len(combine)
  <2>1. combine' = Before(combine, pos) \o <<c>> \o After(combine, pos) /\ pos' = pos + 1
    BY <1>2 DEF Insert
  <2>2. /\ Before(combine, pos) \in Seq(Bytes) /\ Len(Before(combine, pos)) = pos
        /\ After(combine, pos) \in Seq(Bytes)
    BY <1>2, BeforeIs, AfterIs DEF LineInv
  <2>3. c \in Bytes
    BY TypedIsText DEF Bytes
  <2>4. combine' \in Seq(Bytes) /\ Len(combine') >= pos + 1
    BY <2>1, <2>2, <2>3 DEF LineInv
  <2> QED
    BY <2>1, <2>4 DEF LineInv, CursorInLine, Insert, modeVars
<1>3. CASE ~moving /\ ~(pos < Len(combine))
  <2>1. combine' = Append(combine, c) /\ pos' = pos + 1
    BY <1>3 DEF Insert
  <2>2. combine' \in Seq(Bytes) /\ Len(combine') = Len(combine) + 1
    BY <2>1, TypedIsText DEF LineInv, Bytes
  <2> QED
    BY <2>1, <2>2 DEF LineInv, CursorInLine, Insert, modeVars
<1> QED
  BY <1>1, <1>2, <1>3

(* With the cursor in the line the line is not empty where a byte can be   *)
(* deleted, and what stays in front of the cursor reaches it.              *)
LEMMA DeleteInv ==
  ASSUME LineInv, pc = "running", Delete PROVE LineInv'
<1>1. CASE pos = 0
  BY <1>1 DEF LineInv, CursorInLine, Delete, modeVars, lineVars
<1>2. CASE pos # 0 /\ combine = <<>>
  BY <1>2 DEF LineInv, CursorInLine, Delete, modeVars, lineVars
<1>3. CASE pos # 0 /\ combine # <<>>
  <2> DEFINE m == IF pos - 1 <= Len(combine) THEN pos - 1 ELSE Len(combine)
  <2>1. m \in 0..Len(combine) /\ Min({pos - 1, Len(combine)}) = m
    <3>1. pos - 1 \in Nat /\ Len(combine) \in Nat
      BY <1>3 DEF LineInv
    <3>2. Min({pos - 1, Len(combine)}) = m
      BY ONLY <3>1, LeastOfTwo
    <3> QED
      BY <3>1, <3>2
  <2>2. Before(combine, m) \in Seq(Bytes) /\ Len(Before(combine, m)) = m
    BY <2>1, BeforeIs DEF LineInv
  <2>3. Tail2 \in Seq(Bytes)
    BY <1>3, AfterIs DEF LineInv, Tail2
  <2>4. combine' = Before(combine, m) \o Tail2 /\ pos' = pos - 1
    BY <1>3, <2>1 DEF Delete
  <2>5. combine' \in Seq(Bytes) /\ Len(combine') >= m
    BY <2>2, <2>3, <2>4
  <2>6. UNCHANGED <<history, hispos, pc, filled>>
    BY <1>3 DEF Delete, modeVars
  <2> QED
    BY <1>3, <2>4, <2>5, <2>6 DEF LineInv, CursorInLine
<1> QED
  BY <1>1, <1>2, <1>3

LEMMA NewlineInv ==
  ASSUME LineInv, pc = "running", Newline PROVE LineInv'
<1>1. history # <<>>
  BY DEF LineInv
<1>2. Front(history) \in Seq(Seq(Bytes)) /\ Len(Front(history)) = Len(history) - 1
  BY <1>1, FrontIs DEF LineInv
<1>3. Append(Front(history), combine) \in Seq(Seq(Bytes))
  BY <1>2 DEF LineInv
<1>4. <<>> \in Seq(Bytes)
  OBVIOUS
<1>5. history' \in Seq(Seq(Bytes)) /\ Len(history') = Len(history) + 1
  BY <1>2, <1>3, <1>4 DEF Newline, LineInv
<1> QED
  BY <1>4, <1>5 DEF Newline, LineInv, CursorInLine

(* What Up makes of the history. *)
LEMMA KeptHistory ==
  ASSUME LineInv
  PROVE  /\ Append(Front(history), combine) \in Seq(Seq(Bytes))
         /\ Len(Append(Front(history), combine)) = Len(history)
         /\ \A i \in 1..(Len(history) - 1) :
              Append(Front(history), combine)[i] = history[i]
<1>1. history # <<>>
  BY DEF LineInv
<1>2. /\ Front(history) \in Seq(Seq(Bytes)) /\ Len(Front(history)) = Len(history) - 1
      /\ \A i \in 1..(Len(history) - 1) : Front(history)[i] = history[i]
  BY <1>1, FrontIs DEF LineInv
<1> QED
  BY <1>1, <1>2 DEF LineInv

LEMMA UpInv ==
  ASSUME LineInv, pc = "running", Up, pc' = pc PROVE LineInv'
<1>1. CASE ~(hispos > 0)
  BY <1>1 DEF Up, LineInv, CursorInLine, lineVars
<1>2. CASE hispos > 0
  <2>1. history' \in Seq(Seq(Bytes)) /\ Len(history') = Len(history)
    BY <1>2, KeptHistory DEF Up, LineInv
  <2>2. hispos' = hispos - 1 /\ hispos' \in 0..(Len(history') - 1)
    BY <1>2, <2>1 DEF Up, LineInv
  <2>3. history'[hispos' + 1] \in Seq(Bytes)
    BY <2>1, <2>2 DEF LineInv
  <2>4. combine' \in Seq(Bytes) /\ pos' = Len(combine')
    BY <1>2, <2>3 DEF Up
  <2> QED
    BY <2>1, <2>2, <2>4 DEF LineInv, CursorInLine
<1> QED
  BY <1>1, <1>2

LEMMA DownInv ==
  ASSUME LineInv, pc = "running", Down, pc' = pc PROVE LineInv'
<1>1. CASE ~(hispos + 1 < Len(history))
  BY <1>1 DEF Down, LineInv, CursorInLine
<1>2. CASE hispos + 1 < Len(history)
  <2>1. hispos' = hispos + 1 /\ hispos' \in 0..(Len(history') - 1) /\ history' = history
    BY <1>2 DEF Down, LineInv
  <2>2. history[hispos' + 1] \in Seq(Bytes)
    BY <2>1 DEF LineInv
  <2>3. combine' \in Seq(Bytes) /\ pos' = Len(combine')
    BY <1>2, <2>2 DEF Down
  <2> QED
    BY <2>1, <2>3 DEF LineInv, CursorInLine
<1> QED
  BY <1>1, <1>2

LEMMA KillInv ==
  ASSUME LineInv, pc = "running", Kill PROVE LineInv'
<1>1. CASE pos < Len(combine)
  <2>1. combine' = Before(combine, pos)
    BY <1>1 DEF Kill
  <2>2. combine' \in Seq(Bytes) /\ Len(combine') = pos
    BY <1>1, <2>1, BeforeIs DEF LineInv
  <2> QED
    BY <2>2 DEF Kill, LineInv, CursorInLine, modeVars
<1>2. CASE ~(pos < Len(combine))
  BY <1>2 DEF Kill, LineInv, CursorInLine, modeVars
<1> QED
  BY <1>1, <1>2

(* A step that leaves all of it alone. *)
LEMMA RestInv ==
  ASSUME LineInv, UNCHANGED <<lineVars, filled>>, pc' = pc \/ pc' # "threw" PROVE LineInv'
BY DEF LineInv, CursorInLine, lineVars

LEMMA KeyInv ==
  ASSUME LineInv, pc = "running", process_stdin PROVE LineInv'
<1>1. ASSUME NEW k \in Keys, NEW last \in BOOLEAN, InitialByte(k, last) PROVE LineInv'
  <2>1. CASE k = "^A" /\ MoveTo(0)
    BY <2>1 DEF MoveTo, LineInv, CursorInLine
  <2>2. CASE k = "^E" /\ MoveTo(Len(combine))
    BY <2>2 DEF MoveTo, LineInv, CursorInLine
  <2>3. CASE k = "^K" /\ Kill
    BY <2>3, KillInv
  <2>4. CASE k = "^L" /\ Refresh
    BY <2>4, RestInv DEF Refresh, modeVars
  <2>5. CASE k = "DEL" /\ Delete
    BY <2>5, DeleteInv
  <2>6. CASE k = "ESC" /\ Escape(last)
    BY <2>6, RestInv DEF Escape, modeVars
  <2>7. CASE k = "NL" /\ Newline
    BY <2>7, NewlineInv
  <2>8. CASE k \in Typed /\ Insert(k)
    BY <2>8, InsertInv
  <2> QED
    BY <1>1, <2>1, <2>2, <2>3, <2>4, <2>5, <2>6, <2>7, <2>8 DEF InitialByte
<1>2. ASSUME NEW k \in Keys, EscapeByte(k) PROVE LineInv'
  BY <1>2, RestInv DEF EscapeByte, modeVars
<1>3. ASSUME NEW k \in Keys, MovementByte(k) PROVE LineInv'
  <2>1. CASE UNCHANGED <<lineVars, screenVars, filled>>
    BY <1>3, <2>1, RestInv DEF MovementByte
  <2>2. CASE Up
    BY <1>3, <2>2, UpInv DEF MovementByte
  <2>3. CASE Down
    BY <1>3, <2>3, DownInv DEF MovementByte
  <2>4. CASE Right
    BY <1>3, <2>4 DEF MovementByte, Right, LineInv, CursorInLine
  <2>5. CASE Left
    BY <1>3, <2>5 DEF MovementByte, Left, LineInv, CursorInLine
  <2> QED
    BY <1>3, <2>1, <2>2, <2>3, <2>4, <2>5 DEF MovementByte
<1>4. CASE EatenByte
  BY <1>4, RestInv DEF EatenByte, modeVars
<1> QED
  BY <1>1, <1>2, <1>3, <1>4 DEF process_stdin

LEMMA OutputInv ==
  ASSUME LineInv, pc = "running", receive_stdout \/ receive_stderr PROVE LineInv'
<1>1. ASSUME NEW c, Output(c) PROVE LineInv'
  BY <1>1, RestInv DEF Output, modeVars
<1>2. ASSUME NEW c \in Shown, FillText(c) PROVE LineInv'
  <2>1. combine' \in Seq(Bytes) /\ Len(combine') = Len(combine) + 1
    BY <1>2 DEF FillText, LineInv, Bytes
  <2> QED
    BY <1>2, <2>1 DEF FillText, LineInv, CursorInLine, modeVars
<1>3. CASE StartMoving
  BY <1>3, RestInv DEF StartMoving
<1>4. CASE FillBegins
  BY <1>4 DEF FillBegins, LineInv, CursorInLine
<1>5. CASE FillEnds
  BY <1>5, RestInv DEF FillEnds
<1>6. CASE receive_stderr
  BY <1>6, RestInv DEF receive_stderr, modeVars
<1> QED
  BY <1>1, <1>2, <1>3, <1>4, <1>5, <1>6 DEF receive_stdout

(* Steps outside the loop, which all leave the line alone. *)
Outside ==
  \/ SetNonBlocking \/ CatchInterrupts \/ ForkProgram \/ GivesUp \/ raw_terminal
  \/ sigc_handler \/ sigstp_handler \/ ShellReads \/ sigcont_handler \/ died

LEMMA OutsideLeavesLine ==
  ASSUME Outside PROVE UNCHANGED <<lineVars, filled>> /\ pc' # "threw"
BY DEF Outside, CatchInterrupts, ForkProgram, GivesUp, raw_terminal, sigc_handler,
       SetNonBlocking, ShellReads, sigstp_handler, sigcont_handler, died, editVars, modeVars

LEMMA LineInvNext == LineInv /\ [Next]_vars => LineInv'
<1> SUFFICES ASSUME LineInv, [Next]_vars PROVE LineInv'
  OBVIOUS
<1>1. CASE UNCHANGED vars
  BY <1>1, RestInv DEF vars, editVars, modeVars
<1>2. CASE pc = "running" /\ process_stdin
  BY <1>2, KeyInv
<1>3. CASE pc = "running" /\ (receive_stdout \/ receive_stderr)
  BY <1>3, OutputInv
<1>4. CASE Outside
  BY <1>4, OutsideLeavesLine, RestInv
<1> QED
  BY <1>1, <1>2, <1>3, <1>4 DEF Next, Outside

LEMMA LineInvHolds == Spec => []LineInv
BY LineInvInit, LineInvNext, PTL DEF Spec

-----------------------------------------------------------------------------
(* The cursor of prompt stays in its line.                                 *)
THEOREM CursorStays == Spec => []CursorInLine
<1>1. LineInv => CursorInLine
  BY DEF LineInv
<1> QED
  BY LineInvHolds, <1>1, PTL

(* The modes of the terminal are given back at the end and at every stop,  *)
(* whatever signals come between two system calls, SIGCONT within          *)
(* sigstp_handler excepted; while prompt runs it is raw and no read on it  *)
(* blocks.                                                                 *)
THEOREM TerminalIsGivenBack == Spec => []TerminalIsRestored
<1>1. Init => TtyInv
  BY DEF Init, TtyInv
<1>2. TtyInv /\ [Next]_vars => TtyInv'
  <2> SUFFICES ASSUME TtyInv, [Next]_vars PROVE TtyInv'
    OBVIOUS
  <2>1. CASE UNCHANGED vars
    BY <2>1 DEF vars, ttyVars, TtyInv
  <2>2. CASE /\ pc = "running"
             /\ process_stdin \/ receive_stdout \/ receive_stderr
             /\ UNCHANGED ttyVars
    <3>1. pc' \in {"running", "threw"}
      BY <2>2 DEF process_stdin, InitialByte, MoveTo, Kill, Refresh, Delete, Escape, Newline,
         Insert, EscapeByte, MovementByte, EatenByte, receive_stdout, Output, FillText,
         StartMoving, FillBegins, FillEnds, receive_stderr
    <3> QED
      BY <2>2, <3>1 DEF TtyInv, ttyVars
  <2>3. CASE SetNonBlocking \/ CatchInterrupts \/ ForkProgram \/ GivesUp \/ raw_terminal
    BY <2>3 DEF TtyInv, SetNonBlocking, CatchInterrupts, ForkProgram, GivesUp, raw_terminal,
       ttyVars
  <2>4. CASE sigc_handler \/ sigstp_handler \/ ShellReads \/ died
    BY <2>4 DEF TtyInv, sigc_handler, sigstp_handler, ShellReads, died, ttyVars
  <2>5. CASE sigcont_handler
    <3>1. /\ pc \in {"running", "stopping", "stopped"} /\ crossed' = (pc = "stopping")
          /\ pc' = IF pc = "stopped" THEN "running" ELSE pc
          /\ tty' = "raw" /\ nonblock' = TRUE
      BY <2>5 DEF sigcont_handler
    <3> QED
      BY <3>1 DEF TtyInv
  <2> QED
    BY <2>1, <2>2, <2>3, <2>4, <2>5 DEF Next
<1>3. TtyInv => TerminalIsRestored
  BY DEF TtyInv, TerminalIsRestored
<1> QED
  BY <1>1, <1>2, <1>3, PTL DEF Spec

(* The history does not change while the user walks about in it, and what  *)
(* was entered stays in it for ever.                                       *)
THEOREM HistoryStays == Spec => HistoryIsKept
<1> DEFINE A == /\ IsPrefix(Front(history), history')
                /\ hispos + 1 < Len(history) /\ Len(history') = Len(history)
                   => history' = history
<1>1. LineInv /\ LineInv' /\ [Next]_vars => [A]_vars
  <2> SUFFICES ASSUME LineInv, LineInv', [Next]_vars, vars' # vars PROVE A
    OBVIOUS
  <2>1. /\ history # <<>> /\ Len(history) \in Nat /\ history \in Seq(Seq(Bytes))
        /\ Front(history) \in Seq(Seq(Bytes)) /\ Len(Front(history)) = Len(history) - 1
        /\ \A i \in 1..(Len(history) - 1) : Front(history)[i] = history[i]
    <3>1. history # <<>> /\ Len(history) \in Nat /\ history \in Seq(Seq(Bytes))
      BY DEF LineInv
    <3> QED
      BY <3>1, FrontIs
  <2>2. ASSUME history' = history PROVE A
    <3>1. IsPrefix(Front(history), history')
      <4>1. Len(Front(history)) <= Len(history')
        BY <2>1, <2>2
      <4>2. \A i \in 1..Len(Front(history)) : Front(history)[i] = history'[i]
        BY <2>1, <2>2
      <4>3. history' \in Seq(Seq(Bytes)) /\ Front(history) \in Seq(Seq(Bytes))
        BY <2>1, <2>2
      <4> QED
        BY ONLY <4>1, <4>2, <4>3, SamePrefix
    <3> QED
      BY <3>1, <2>2
  <2>3. CASE Up
    <3>1. CASE history' = history
      BY <2>2, <3>1
    <3>2. CASE history' # history
      <4>1. hispos + 1 = Len(history) /\ history' = Append(Front(history), combine)
        BY <2>3, <3>2 DEF Up, lineVars
      <4>2. /\ history' \in Seq(Seq(Bytes)) /\ Len(history') = Len(history)
            /\ \A i \in 1..(Len(history) - 1) : history'[i] = history[i]
        BY <4>1, KeptHistory
      <4>3. Len(Front(history)) <= Len(history')
        BY <2>1, <4>2
      <4>4. \A i \in 1..Len(Front(history)) : Front(history)[i] = history'[i]
        BY <2>1, <4>2
      <4>5. Front(history) \in Seq(Seq(Bytes))
        BY <2>1
      <4>6. IsPrefix(Front(history), history')
        BY ONLY <4>2, <4>3, <4>4, <4>5, SamePrefix
      <4> QED
        BY <2>1, <4>1, <4>6
    <3> QED
      BY <3>1, <3>2
  <2>4. CASE Newline
    <3>1. history' = Append(Append(Front(history), combine), <<>>)
      BY <2>4 DEF Newline
    <3>2. /\ history' \in Seq(Seq(Bytes)) /\ Len(history') = Len(history) + 1
          /\ \A i \in 1..(Len(history) - 1) : history'[i] = history[i]
      <4> DEFINE h == Append(Front(history), combine)
      <4>1. /\ h \in Seq(Seq(Bytes)) /\ Len(h) = Len(history)
            /\ \A i \in 1..(Len(history) - 1) : h[i] = history[i]
        BY KeptHistory
      <4>2. <<>> \in Seq(Bytes) /\ history' = Append(h, <<>>)
        BY <3>1
      <4> HIDE DEF h
      <4> QED
        BY ONLY <4>1, <4>2, <2>1
    <3>3. Len(Front(history)) <= Len(history')
      BY <2>1, <3>2
    <3>4. \A i \in 1..Len(Front(history)) : Front(history)[i] = history'[i]
      BY <2>1, <3>2
    <3>5. Front(history) \in Seq(Seq(Bytes))
      BY <2>1
    <3>6. IsPrefix(Front(history), history')
      BY ONLY <3>2, <3>3, <3>4, <3>5, SamePrefix
    <3> QED
      BY <2>1, <3>2, <3>6
  <2>5. \/ Up \/ Newline \/ history' = history
    <3>1. Outside => history' = history
      BY OutsideLeavesLine DEF lineVars
    <3>2. process_stdin => Up \/ Newline \/ history' = history
      BY DEF process_stdin, InitialByte, MoveTo, Kill, Refresh, Delete, Escape, Insert,
         EscapeByte, MovementByte, Down, Left, Right, EatenByte, lineVars
    <3>3. receive_stdout \/ receive_stderr => history' = history
      BY DEF receive_stdout, Output, FillText, StartMoving, FillBegins, FillEnds,
         receive_stderr, lineVars
    <3> QED
      BY <3>1, <3>2, <3>3 DEF Next, Outside
  <2> QED
    BY <2>2, <2>3, <2>4, <2>5
<1> QED
  BY <1>1, LineInvHolds, PTL DEF Spec, HistoryIsKept

(* An edit leaves the text behind the cursor alone: what Insert and Delete *)
(* put together ends with it.                                              *)
LEMMA AfterOfConcat ==
  ASSUME NEW S, NEW s \in Seq(S), NEW t \in Seq(S)
  PROVE  After(s \o t, Len(s)) = t
<1>1. PICK u \in Seq(S) : u = s \o t
  BY ConcatProperties
<1>2. PICK n \in Nat, m \in Nat : n = Len(s) /\ m = Len(t)
  OBVIOUS
<1>3. Len(u) = n + m /\ \A i \in 1..(n + m) : u[i] = IF i <= n THEN s[i] ELSE t[i - n]
  BY <1>1, <1>2, ConcatProperties
<1>4. PICK a, b : a \in Int /\ b \in Int /\ a = n + 1 /\ b = n + m
  OBVIOUS
<1>5. PICK v : v = SubSeq(u, a, b)
  OBVIOUS
<1>6. /\ v \in Seq(S) /\ Len(v) = IF a <= b THEN b - a + 1 ELSE 0
      /\ \A i \in 1..(b - a + 1) : v[i] = u[a + i - 1]
  <2>1. \A i \in a..b : u[i] \in S
    BY <1>3, <1>4, ElementOfSeq
  <2>2. a \in Int /\ b \in Int
    BY <1>4
  <2>3. /\ SubSeq(u, a, b) \in Seq(S)
        /\ Len(SubSeq(u, a, b)) = IF a <= b THEN b - a + 1 ELSE 0
        /\ \A i \in 1..(b - a + 1) : SubSeq(u, a, b)[i] = u[a + i - 1]
    BY ONLY <2>1, <2>2, SubSeqProperties
  <2> QED
    BY ONLY <1>5, <2>3
<1>7. Len(v) = m /\ \A i \in 1..m : v[i] = u[n + i]
  <2>1. b - a + 1 = m /\ (a <= b <=> m >= 1) /\ \A i \in 1..m : a + i - 1 = n + i
    BY <1>4
  <2>2. m >= 1 => Len(v) = m
    BY <1>6, <2>1
  <2>3. ~(m >= 1) => Len(v) = 0 /\ m = 0
    BY <1>6, <2>1
  <2>4. \A i \in 1..m : v[i] = u[a + i - 1]
    BY <1>6, <2>1
  <2> QED
    BY <2>1, <2>2, <2>3, <2>4
<1>8. \A i \in 1..m : v[i] = t[i]
  <2>1. \A i \in 1..m : n + i \in 1..(n + m) /\ ~(n + i <= n) /\ (n + i) - n = i
    OBVIOUS
  <2>2. \A i \in 1..m : u[n + i] = t[i]
    BY <1>3, <2>1
  <2> QED
    BY <1>7, <2>2
<1>9. v = t
  BY <1>2, <1>6, <1>7, <1>8, SeqEqual
<1> QED
  BY <1>1, <1>2, <1>3, <1>4, <1>5, <1>9 DEF After

LEMMA NothingBehind ==
  ASSUME NEW S, NEW s \in Seq(S), NEW n \in Nat, n >= Len(s)
  PROVE  After(s, n) = <<>>
<1>1. Len(s) < n + 1
  OBVIOUS
<1> QED
  BY <1>1, SubSeqEmpty DEF After

LEMMA InsertKeepsText ==
  ASSUME LineInv, NEW c \in Typed, Insert(c), combine' # combine
  PROVE  After(combine', pos') = After(combine, pos)
<1>1. c \in Bytes /\ combine \in Seq(Bytes) /\ pos \in Nat /\ Len(combine) \in Nat
  BY TypedIsText DEF Bytes, LineInv
<1>2. CASE pos < Len(combine)
  <2> DEFINE b == Before(combine, pos)
  <2>1. b \in Seq(Bytes) /\ Len(b) = pos /\ After(combine, pos) \in Seq(Bytes)
    BY <1>1, <1>2, BeforeIs, AfterIs
  <2>2. combine' = b \o <<c>> \o After(combine, pos) /\ pos' = pos + 1
    BY <1>2 DEF Insert
  <2> HIDE DEF b
  <2>3. b \o <<c>> \in Seq(Bytes) /\ Len(b \o <<c>>) = pos + 1
    BY <1>1, <2>1
  <2> QED
    BY <2>1, <2>2, <2>3, AfterOfConcat
<1>3. CASE ~(pos < Len(combine))
  <2>1. combine' = Append(combine, c) /\ pos' = pos + 1
    BY <1>3 DEF Insert
  <2>2. combine' \in Seq(Bytes) /\ pos' \in Nat /\ pos' >= Len(combine')
    BY <1>1, <1>3, <2>1
  <2>3. After(combine', pos') = <<>>
    BY <2>2, NothingBehind
  <2> QED
    BY <1>1, <1>3, <2>3, NothingBehind
<1> QED
  BY <1>2, <1>3

(* What stays in front of the cursor when a byte is deleted.               *)
LEMMA DeletedFront ==
  ASSUME LineInv, pos # 0
  PROVE  LET m == Min({pos - 1, Len(combine)})
         IN /\ m \in 0..Len(combine) /\ m <= pos - 1 /\ (pos <= Len(combine) => m = pos - 1)
            /\ Before(combine, m) \in Seq(Bytes) /\ Len(Before(combine, m)) = m
<1>1. pos - 1 \in Nat /\ Len(combine) \in Nat /\ combine \in Seq(Bytes)
  BY DEF LineInv
<1>2. PICK m : m = Min({pos - 1, Len(combine)})
  OBVIOUS
<1>3. PICK a \in Nat, n \in Nat : a = pos - 1 /\ n = Len(combine)
  BY <1>1
<1>4. m \in 0..Len(combine) /\ m <= pos - 1 /\ (pos <= Len(combine) => m = pos - 1)
  <2>1. m = IF a <= n THEN a ELSE n
    BY <1>2, <1>3, LeastOfTwo
  <2>2. m \in 0..n /\ m <= a /\ (a + 1 <= n => m = a)
    BY ONLY <2>1, a \in Nat, n \in Nat
  <2>3. pos = a + 1
    BY <1>3 DEF LineInv
  <2> QED
    BY <1>3, <2>2, <2>3
<1> QED
  BY <1>1, <1>2, <1>4, BeforeIs

LEMMA DeleteKeepsText ==
  ASSUME LineInv, Delete, combine' # combine, pos' = pos - 1, pos + 1 # Len(combine)
  PROVE  After(combine', pos') = After(combine, pos)
<1>1. pos # 0 /\ combine # <<>>
  BY DEF Delete, lineVars
<1>2. PICK m \in 0..Len(combine) :
        /\ m <= pos - 1 /\ (pos <= Len(combine) => m = pos - 1)
        /\ Before(combine, m) \in Seq(Bytes) /\ Len(Before(combine, m)) = m
        /\ combine' = Before(combine, m) \o Tail2
  BY <1>1, DeletedFront DEF Delete
<1>3. combine \in Seq(Bytes) /\ pos \in Nat /\ Len(combine) \in Nat /\ pos - 1 \in Nat
  BY <1>1 DEF LineInv
<1>4. PICK b \in Seq(Bytes) : b = Before(combine, m) /\ Len(b) = m
  BY <1>2
<1>5. CASE pos < Len(combine) - 1
  <2>1. Tail2 = After(combine, pos) /\ After(combine, pos) \in Seq(Bytes) /\ m = pos - 1
    BY <1>2, <1>3, <1>5, AfterIs DEF Tail2
  <2> QED
    BY <1>2, <1>4, <2>1, AfterOfConcat
<1>6. CASE ~(pos < Len(combine) - 1)
  <2>1. pos >= Len(combine)
    BY <1>3, <1>6
  <2>2. combine' = b
    BY <1>2, <1>4, <1>6, ConcatEmptySeq DEF Tail2
  <2>3. After(combine', pos') = <<>>
    BY <1>2, <1>3, <1>4, <2>2, NothingBehind
  <2> QED
    BY <1>3, <2>1, <2>3, NothingBehind
<1> QED
  BY <1>5, <1>6

(* The text behind the cursor is what the user has typed or fetched from   *)
(* the history; no edit touches it, for any line and any cursor.           *)
THEOREM TextStays == Spec => TextBehindCursorIsKept
<1> DEFINE A == /\ combine' # combine /\ history' = history /\ hispos' = hispos
                /\ pos' = pos + 1 \/ (pos' = pos - 1 /\ pos + 1 # Len(combine))
                => After(combine', pos') = After(combine, pos)
<1>1. LineInv /\ [Next]_vars => [A]_vars
  <2> SUFFICES ASSUME LineInv, [Next]_vars, combine' # combine, history' = history,
                      hispos' = hispos, pos' # pos,
                      pos' = pos + 1 \/ (pos' = pos - 1 /\ pos + 1 # Len(combine))
               PROVE  After(combine', pos') = After(combine, pos)
    BY DEF LineInv
  <2>1. ~Outside /\ ~UNCHANGED vars
    BY OutsideLeavesLine DEF lineVars, vars, editVars
  <2>2. ~receive_stdout /\ ~receive_stderr
    BY DEF receive_stdout, Output, FillText, StartMoving, FillBegins, FillEnds, receive_stderr,
       lineVars
  <2>3. process_stdin
    BY <2>1, <2>2 DEF Next, Outside
  <2>4. ~Newline
    <3>1. Newline => Len(history') = Len(history) + 1
      <4>1. Newline => history' = Append(Append(Front(history), combine), <<>>)
        BY DEF Newline
      <4>2. /\ Append(Front(history), combine) \in Seq(Seq(Bytes))
            /\ Len(Append(Front(history), combine)) = Len(history)
        BY KeptHistory
      <4>3. <<>> \in Seq(Bytes)
        OBVIOUS
      <4> QED
        BY <4>1, <4>2, <4>3, AppendProperties
    <3> QED
      BY <3>1 DEF LineInv
  <2>5. ~Up /\ ~Down
    BY DEF Up, Down, LineInv, lineVars
  <2>6. Delete \/ \E c \in Typed : Insert(c)
    BY <2>3, <2>4, <2>5 DEF process_stdin, InitialByte, MoveTo, Kill, Refresh, Escape, EscapeByte,
       MovementByte, Left, Right, EatenByte, lineVars
  <2>7. CASE Delete
    <3>1. pos' = pos - 1
      BY <2>7 DEF Delete, lineVars
    <3> QED
      BY <2>7, <3>1, DeleteKeepsText DEF LineInv
  <2> QED
    BY <2>6, <2>7, InsertKeepsText
<1> QED
  BY <1>1, LineInvHolds, PTL DEF Spec, TextBehindCursorIsKept
-----------------------------------------------------------------------------
(* What the user sees.  A row that ends with the line, and the cursor in   *)
(* it; each of the terminal's operations takes such a row to another.      *)
Row(r, str, p) == [row |-> r \o str, col |-> Len(r) + p]

Shows(t, str, p) == p \in 0..Len(str) /\ \E r \in Seq(Bytes) : t = Row(r, str, p)

LEMMA BeforeOfConcat ==
  ASSUME NEW S, NEW s \in Seq(S), NEW t \in Seq(S)
  PROVE  Before(s \o t, Len(s)) = s
<1>1. PICK u \in Seq(S) : u = s \o t
  BY ConcatProperties
<1>2. PICK n \in Nat, m \in Nat : n = Len(s) /\ m = Len(t)
  OBVIOUS
<1>3. Len(u) = n + m /\ \A i \in 1..(n + m) : u[i] = IF i <= n THEN s[i] ELSE t[i - n]
  BY <1>1, <1>2, ConcatProperties
<1>4. \A i \in 1..n : u[i] = s[i] /\ u[i] \in S
  <2>1. \A i \in 1..n : i \in 1..(n + m) /\ i <= n
    OBVIOUS
  <2> QED
    BY <1>2, <1>3, <2>1, ElementOfSeq
<1>5. PICK v : v = SubSeq(u, 1, n)
  OBVIOUS
<1>6. /\ v \in Seq(S) /\ Len(v) = IF 1 <= n THEN n - 1 + 1 ELSE 0
      /\ \A i \in 1..(n - 1 + 1) : v[i] = u[1 + i - 1]
  <2>1. 1 \in Int /\ n \in Int /\ \A i \in 1..n : u[i] \in S
    BY <1>4
  <2>2. /\ SubSeq(u, 1, n) \in Seq(S) /\ Len(SubSeq(u, 1, n)) = IF 1 <= n THEN n - 1 + 1 ELSE 0
        /\ \A i \in 1..(n - 1 + 1) : SubSeq(u, 1, n)[i] = u[1 + i - 1]
    BY ONLY <2>1, SubSeqProperties
  <2> QED
    BY ONLY <1>5, <2>2
<1>7. Len(v) = n /\ \A i \in 1..n : v[i] = u[i]
  <2>1. n - 1 + 1 = n /\ (1 <= n <=> n # 0) /\ \A i \in 1..n : 1 + i - 1 = i
    OBVIOUS
  <2> QED
    BY <1>6, <2>1
<1>8. v = s
  BY <1>2, <1>4, <1>6, <1>7, SeqEqual
<1> QED
  BY <1>1, <1>2, <1>5, <1>8 DEF Before

(* Whatever is written at the end of a row stands behind it.               *)
LEMMA PutAtEnd ==
  ASSUME NEW r \in Seq(Bytes), NEW s \in Seq(Bytes)
  PROVE  Put([row |-> r, col |-> Len(r)], s) = Row(r, s, Len(s))
<1>1. PICK n \in Nat, m \in Nat : n = Len(r) /\ m = Len(s)
  OBVIOUS
<1>2. Before(r, n) = r
  BY <1>1, SubSeqFull DEF Before
<1>3. n + m \in Nat /\ n + m >= Len(r)
  BY <1>1
<1>4. After(r, n + m) = <<>>
  BY <1>3, NothingBehind
<1>5. r \o s \in Seq(Bytes)
  BY ConcatProperties
<1>6. (r \o s) \o <<>> = r \o s
  BY <1>5, ConcatEmptySeq
<1> QED
  BY <1>1, <1>2, <1>4, <1>6 DEF Put, Row

LEMMA MoveLeftBy ==
  ASSUME NEW w, NEW n \in Nat, NEW k \in Nat, NEW t, t = [row |-> w, col |-> n + k]
  PROVE  MoveLeft(t, k) = [row |-> w, col |-> n]
<1>1. PICK c \in Nat : c = n + k /\ k <= c /\ c - k = n
  OBVIOUS
<1>2. t = [row |-> w, col |-> c]
  BY <1>1
<1>3. MoveLeft(t, k) = [row |-> w, col |-> c - k]
  BY <1>1, <1>2 DEF MoveLeft
<1> QED
  BY <1>1, <1>3

LEMMA MoveRightBy ==
  ASSUME NEW w, NEW n \in Nat, n + 1 <= Len(w), Len(w) \in Nat,
         NEW t, t = [row |-> w, col |-> n]
  PROVE  MoveRight(t) = [row |-> w, col |-> n + 1]
<1>1. Min({n + 1, Len(w)}) = n + 1
  BY LeastOfTwo
<1>2. MoveRight(t) = [t EXCEPT !.col = Min({n + 1, Len(w)})]
  BY DEF MoveRight
<1> QED
  BY <1>1, <1>2

(* redraw_line(), told where the cursor is, leaves its string on the row   *)
(* instead of the line, with the cursor where it is told to.               *)
LEMMA RedrawShows ==
  ASSUME NEW t, NEW old \in Seq(Bytes), NEW p \in Nat, Shows(t, old, p),
         NEW str \in Seq(Bytes), NEW q \in 0..Len(str)
  PROVE  Shows(Redraw(t, str, p, q), str, q)
<1>1. PICK r \in Seq(Bytes) : t = Row(r, old, p)
  BY DEF Shows
<1>2. PICK n \in Nat, m \in Nat : n = Len(r) /\ m = Len(str)
  OBVIOUS
<1>3. MoveLeft(t, p) = [row |-> r \o old, col |-> n]
  <2>1. PICK w : w = r \o old /\ t = [row |-> w, col |-> n + p]
    BY <1>1, <1>2 DEF Row
  <2> QED
    BY <2>1, MoveLeftBy
<1>4. EraseLine(MoveLeft(t, p)) = [row |-> r, col |-> n]
  BY <1>2, <1>3, BeforeOfConcat DEF EraseLine
<1>5. Put(EraseLine(MoveLeft(t, p)), str) = [row |-> r \o str, col |-> n + m]
  BY <1>2, <1>4, PutAtEnd DEF Row
<1>6. Redraw(t, str, p, q) = MoveLeft([row |-> r \o str, col |-> n + m], m - q)
  BY <1>2, <1>5 DEF Redraw
<1>7. PICK k \in Nat, h \in Nat : k = m - q /\ h = n + q /\ n + m = h + k
  <2>1. m - q \in Nat /\ n + q \in Nat /\ n + m = (n + q) + (m - q)
    BY <1>2
  <2> QED
    BY <2>1
<1>8. Redraw(t, str, p, q) = [row |-> r \o str, col |-> h]
  <2>1. PICK w, u : w = r \o str /\ u = [row |-> w, col |-> h + k]
    OBVIOUS
  <2>2. Redraw(t, str, p, q) = MoveLeft(u, k)
    BY <1>6, <1>7, <2>1
  <2>3. MoveLeft(u, k) = [row |-> w, col |-> h]
    BY <2>1, MoveLeftBy
  <2> QED
    BY <2>1, <2>2, <2>3
<1>9. Redraw(t, str, p, q) = Row(r, str, q)
  BY <1>2, <1>7, <1>8 DEF Row
<1> QED
  BY <1>9 DEF Shows

LEMMA EmptyShown == Shows(NewRow, <<>>, 0)
<1>1. <<>> \in Seq(Bytes) /\ Len(<<>>) = 0
  BY EmptySeq
<1>2. <<>> \o <<>> = <<>>
  BY <1>1, ConcatEmptySeq
<1>3. NewRow = Row(<<>>, <<>>, 0)
  BY <1>1, <1>2 DEF NewRow, Row
<1>4. 0 \in 0..Len(<<>>)
  BY <1>1
<1> QED
  BY <1>1, <1>3, <1>4 DEF Shows

(* Bytes that the program writes in front of an empty line.                *)
LEMMA OutputShown ==
  ASSUME NEW t, Shows(t, <<>>, 0), NEW s \in Seq(Bytes)
  PROVE  Shows(Put(t, s), <<>>, 0)
<1>1. PICK r \in Seq(Bytes) : t = Row(r, <<>>, 0)
  BY DEF Shows
<1>2. r \o <<>> = r /\ Len(r) + 0 = Len(r)
  BY ConcatEmptySeq
<1>3. t = [row |-> r, col |-> Len(r)]
  BY <1>1, <1>2 DEF Row
<1>4. PICK w \in Seq(Bytes) : w = r \o s /\ Len(w) = Len(r) + Len(s)
  BY ConcatProperties
<1>5. Put(t, s) = [row |-> w, col |-> Len(w)]
  BY <1>3, <1>4, PutAtEnd DEF Row
<1>6. w \o <<>> = w /\ Len(w) + 0 = Len(w)
  BY ConcatEmptySeq
<1>7. Put(t, s) = Row(w, <<>>, 0)
  BY <1>5, <1>6 DEF Row
<1>8. Len(<<>>) = 0
  BY EmptySeq
<1> QED
  BY <1>7, <1>8 DEF Shows

(* A byte that is typed at the end of the line.                            *)
LEMMA EchoShown ==
  ASSUME NEW t, NEW str \in Seq(Bytes), Shows(t, str, Len(str)), NEW c \in Bytes
  PROVE  Shows(Put(t, <<c>>), Append(str, c), Len(str) + 1)
<1>1. PICK r \in Seq(Bytes) : t = Row(r, str, Len(str))
  BY DEF Shows
<1>2. PICK w \in Seq(Bytes) : w = r \o str /\ Len(w) = Len(r) + Len(str)
  BY ConcatProperties
<1>3. <<c>> \in Seq(Bytes) /\ Len(<<c>>) = 1
  OBVIOUS
<1>4. Put(t, <<c>>) = [row |-> w \o <<c>>, col |-> Len(w) + 1]
  BY <1>1, <1>2, <1>3, PutAtEnd DEF Row
<1>5. Append(str, c) = str \o <<c>> /\ Append(str, c) \in Seq(Bytes)
      /\ Len(Append(str, c)) = Len(str) + 1
  BY <1>3
<1>6. w \o <<c>> = r \o (str \o <<c>>)
  BY <1>2, <1>3, ConcatAssociative
<1>7. Len(w) + 1 = Len(r) + (Len(str) + 1)
  <2>1. Len(r) \in Nat /\ Len(str) \in Nat
    OBVIOUS
  <2> QED
    BY <1>2, <2>1
<1>8. Put(t, <<c>>) = Row(r, Append(str, c), Len(str) + 1)
  BY <1>4, <1>5, <1>6, <1>7 DEF Row
<1>9. Len(str) + 1 \in 0..Len(Append(str, c))
  BY <1>5
<1> QED
  BY <1>8, <1>9 DEF Shows

LEMMA LeftShown ==
  ASSUME NEW t, NEW str \in Seq(Bytes), NEW p \in Nat, Shows(t, str, p), p > 0
  PROVE  Shows(MoveLeft(t, 1), str, p - 1)
<1>1. PICK r \in Seq(Bytes) : t = Row(r, str, p)
  BY DEF Shows
<1>2. PICK n \in Nat : n = Len(r)
  OBVIOUS
<1>3. PICK h \in Nat : h = n + (p - 1) /\ n + p = h + 1
  OBVIOUS
<1>4. PICK w : w = r \o str /\ t = [row |-> w, col |-> h + 1]
  BY <1>1, <1>2, <1>3 DEF Row
<1>5. MoveLeft(t, 1) = [row |-> w, col |-> h]
  BY <1>4, 1 \in Nat, MoveLeftBy
<1>6. MoveLeft(t, 1) = Row(r, str, p - 1)
  BY <1>2, <1>3, <1>4, <1>5 DEF Row
<1>7. p - 1 \in 0..Len(str)
  BY DEF Shows
<1> QED
  BY <1>6, <1>7 DEF Shows

LEMMA RightShown ==
  ASSUME NEW t, NEW str \in Seq(Bytes), NEW p \in Nat, Shows(t, str, p), p < Len(str)
  PROVE  Shows(MoveRight(t), str, p + 1)
<1>1. PICK r \in Seq(Bytes) : t = Row(r, str, p)
  BY DEF Shows
<1>2. PICK n \in Nat, m \in Nat : n = Len(r) /\ m = Len(str) /\ Len(r \o str) = n + m
  BY ConcatProperties
<1>3. PICK h \in Nat : h = n + p /\ h + 1 <= n + m
  BY <1>2
<1>4. PICK w : w = r \o str /\ t = [row |-> w, col |-> h] /\ Len(w) = n + m
  BY <1>1, <1>2, <1>3 DEF Row
<1>5. MoveRight(t) = [row |-> w, col |-> h + 1]
  <2>1. Len(w) \in Nat /\ h + 1 <= Len(w)
    BY <1>3, <1>4
  <2> QED
    BY ONLY <1>4, <2>1, h \in Nat, MoveRightBy
<1>6. h + 1 = n + (p + 1) /\ p + 1 \in 0..Len(str)
  BY <1>2, <1>3
<1>7. MoveRight(t) = Row(r, str, p + 1)
  BY <1>2, <1>3, <1>4, <1>5, <1>6 DEF Row
<1> QED
  BY <1>6, <1>7 DEF Shows

(* The row while the program has written nothing into the line.            *)
TermInv ==
  /\ quiet => ~filled /\ Shows(term, combine, pos)
  /\ ~quiet => term = NewRow

LEMMA TermInvInit == Init => TermInv
BY EmptyShown DEF Init, TermInv

LEMMA DrawnInv ==
  ASSUME NEW t, Draw(t), quiet => ~filled' /\ Shows(t, combine', pos')
  PROVE  TermInv'
<1>1. CASE quiet'
  BY <1>1 DEF Draw, TermInv
<1>2. CASE ~quiet'
  BY <1>2 DEF Draw, TermInv
<1> QED
  BY <1>1, <1>2

(* A step that draws the new line over the old one.                        *)
LEMMA RedrawnInv ==
  ASSUME LineInv, LineInv', TermInv, quiet => ~filled', redraw_line(combine', pos, pos')
  PROVE  TermInv'
<1>1. ASSUME quiet PROVE Shows(Redraw(term, combine', pos, pos'), combine', pos')
  <2>1. CASE ~filled'
    <3>1. PICK str, q : str = combine' /\ q = pos' /\ str \in Seq(Bytes) /\ q \in 0..Len(str)
      BY <2>1 DEF LineInv, CursorInLine
    <3>2. Shows(Redraw(term, str, pos, q), str, q)
      BY <1>1, <3>1, RedrawShows DEF TermInv, LineInv
    <3> QED
      BY <3>1, <3>2
  <2> QED
    BY <1>1, <2>1
<1>2. PICK t : t = Redraw(term, combine', pos, pos')
  OBVIOUS
<1>3. Draw(t)
  BY <1>2 DEF redraw_line
<1> QED
  BY <1>1, <1>2, <1>3, DrawnInv

(* A step that leaves the row and the line alone. *)
LEMMA SameTerm ==
  ASSUME TermInv, UNCHANGED <<combine, pos, term, quiet>>, filled' = filled \/ ~filled'
  PROVE  TermInv'
BY DEF TermInv

LEMMA InsertTerm ==
  ASSUME LineInv, LineInv', TermInv, NEW c \in Typed, Insert(c) PROVE TermInv'
<1>1. filled' = filled
  BY DEF Insert, modeVars
<1>2. CASE moving
  BY <1>1, <1>2, SameTerm DEF Insert, screenVars
<1>3. CASE ~moving /\ pos < Len(combine)
  BY <1>1, <1>3, RedrawnInv DEF Insert, TermInv
<1>4. CASE ~moving /\ ~(pos < Len(combine))
  <2>1. combine' = Append(combine, c) /\ pos' = pos + 1 /\ Draw(Put(term, <<c>>))
    BY <1>4 DEF Insert
  <2>2. ASSUME quiet PROVE ~filled' /\ Shows(Put(term, <<c>>), combine', pos')
    <3>1. Shows(term, combine, pos) /\ pos = Len(combine)
      BY <1>4, <2>2 DEF TermInv, Shows, LineInv
    <3>2. c \in Bytes /\ combine \in Seq(Bytes)
      BY TypedIsText DEF Bytes, LineInv
    <3>3. Shows(Put(term, <<c>>), Append(combine, c), Len(combine) + 1)
      BY <3>1, <3>2, EchoShown
    <3> QED
      BY <1>1, <2>1, <2>2, <3>1, <3>3 DEF TermInv
  <2> QED
    BY <2>1, <2>2, DrawnInv
<1> QED
  BY <1>2, <1>3, <1>4

LEMMA DeleteTerm ==
  ASSUME LineInv, LineInv', TermInv, Delete PROVE TermInv'
<1>1. filled' = filled
  BY DEF Delete, modeVars
<1>2. CASE pos = 0 \/ combine = <<>>
  BY <1>1, <1>2, SameTerm DEF Delete, lineVars, screenVars
<1>3. CASE pos # 0 /\ combine # <<>>
  BY <1>1, <1>3, RedrawnInv DEF Delete, TermInv
<1> QED
  BY <1>2, <1>3

LEMMA KillTerm ==
  ASSUME LineInv, LineInv', TermInv, Kill PROVE TermInv'
<1>1. filled' = filled /\ pos' = pos
  BY DEF Kill, modeVars
<1>2. CASE pos < Len(combine)
  BY <1>1, <1>2, RedrawnInv DEF Kill, TermInv
<1>3. CASE ~(pos < Len(combine))
  BY <1>1, <1>3, SameTerm DEF Kill, screenVars
<1> QED
  BY <1>2, <1>3

(* The keys that fetch a line from the history or move the cursor. *)
LEMMA WalkTerm ==
  ASSUME LineInv, LineInv', TermInv, Up \/ Down \/ Left \/ Right PROVE TermInv'
<1>1. CASE Up
  <2>1. CASE hispos > 0
    BY <1>1, <2>1, RedrawnInv DEF Up
  <2>2. CASE ~(hispos > 0)
    BY <1>1, <2>2, SameTerm DEF Up, lineVars, screenVars
  <2> QED
    BY <2>1, <2>2
<1>2. CASE Down
  <2>1. CASE hispos + 1 < Len(history)
    BY <1>2, <2>1, RedrawnInv DEF Down
  <2>2. CASE ~(hispos + 1 < Len(history))
    BY <1>2, <2>2, SameTerm DEF Down, screenVars
  <2> QED
    BY <2>1, <2>2
<1>3. CASE Left
  <2>1. CASE pos > 0
    <3>1. /\ pos' = pos - 1 /\ Draw(MoveLeft(term, 1))
          /\ combine' = combine /\ filled' = filled
      BY <1>3, <2>1 DEF Left
    <3>2. quiet => ~filled /\ Shows(MoveLeft(term, 1), combine, pos - 1)
      BY <2>1, LeftShown DEF TermInv, LineInv
    <3> QED
      BY <3>1, <3>2, DrawnInv
  <2>2. CASE ~(pos > 0)
    BY <1>3, <2>2, SameTerm DEF Left, screenVars
  <2> QED
    BY <2>1, <2>2
<1>4. CASE Right
  <2>1. CASE pos < Len(combine)
    <3>1. /\ pos' = pos + 1 /\ Draw(MoveRight(term))
          /\ combine' = combine /\ filled' = filled
      BY <1>4, <2>1 DEF Right
    <3>2. quiet => ~filled /\ Shows(MoveRight(term), combine, pos + 1)
      BY <2>1, RightShown DEF TermInv, LineInv
    <3> QED
      BY <3>1, <3>2, DrawnInv
  <2>2. CASE ~(pos < Len(combine))
    BY <1>4, <2>2, SameTerm DEF Right, screenVars
  <2> QED
    BY <2>1, <2>2
<1> QED
  BY <1>1, <1>2, <1>3, <1>4

LEMMA KeyTerm ==
  ASSUME LineInv, LineInv', TermInv, process_stdin PROVE TermInv'
<1>1. ASSUME NEW k \in Keys, NEW last \in BOOLEAN, InitialByte(k, last) PROVE TermInv'
  <2>1. ASSUME NEW p, MoveTo(p) PROVE TermInv'
    BY <2>1, RedrawnInv DEF MoveTo
  <2>2. CASE Kill
    BY <2>2, KillTerm
  <2>3. CASE Refresh
    BY <2>3, RedrawnInv DEF Refresh, lineVars, modeVars, TermInv
  <2>4. CASE Delete
    BY <2>4, DeleteTerm
  <2>5. CASE Escape(last)
    BY <2>5, SameTerm DEF Escape, lineVars, termVars, screenVars, modeVars
  <2>6. CASE Newline
    BY <2>6, EmptyShown DEF Newline, TermInv
  <2>7. CASE k \in Typed /\ Insert(k)
    BY <2>7, InsertTerm
  <2> QED
    BY <1>1, <2>1, <2>2, <2>3, <2>4, <2>5, <2>6, <2>7 DEF InitialByte
<1>2. ASSUME NEW k \in Keys, EscapeByte(k) PROVE TermInv'
  BY <1>2, SameTerm DEF EscapeByte, lineVars, termVars, screenVars, modeVars
<1>3. ASSUME NEW k \in Keys, MovementByte(k) PROVE TermInv'
  <2>1. CASE UNCHANGED <<lineVars, screenVars, filled>>
    BY <1>3, <2>1, SameTerm DEF MovementByte, lineVars, screenVars
  <2>2. CASE Up \/ Down \/ Left \/ Right
    BY <1>3, <2>2, WalkTerm DEF MovementByte
  <2> QED
    BY <1>3, <2>1, <2>2 DEF MovementByte
<1>4. CASE EatenByte
  BY <1>4, SameTerm DEF EatenByte, lineVars, termVars, screenVars, modeVars
<1> QED
  BY <1>1, <1>2, <1>3, <1>4 DEF process_stdin

LEMMA OutputTerm ==
  ASSUME LineInv, TermInv, receive_stdout \/ receive_stderr PROVE TermInv'
<1>1. ASSUME NEW c \in Shown \cup {"NL"}, Output(c) PROVE TermInv'
  <2>1. UNCHANGED <<combine, pos, filled>>
    BY <1>1 DEF Output, lineVars, modeVars
  <2>2. CASE ~(combine = <<>> /\ pos = 0)
    BY <1>1, <2>2 DEF Output, TermInv
  <2>3. CASE combine = <<>> /\ pos = 0
    <3>1. PICK t : Draw(t) /\ t = IF c = "NL" THEN NewRow ELSE Put(term, <<c>>)
      BY <1>1, <2>3 DEF Output
    <3>2. ASSUME quiet PROVE Shows(t, <<>>, 0)
      <4>1. CASE c = "NL"
        BY <3>1, <4>1, EmptyShown
      <4>2. CASE c # "NL"
        <5>1. <<c>> \in Seq(Bytes)
          BY <4>2 DEF Bytes
        <5>2. Shows(term, <<>>, 0)
          BY <2>3, <3>2 DEF TermInv
        <5> QED
          BY <3>1, <4>2, <5>1, <5>2, OutputShown
      <4> QED
        BY <4>1, <4>2
    <3>3. quiet => ~filled' /\ Shows(t, combine', pos')
      BY <2>1, <2>3, <3>2 DEF TermInv
    <3> QED
      BY <3>1, <3>3, DrawnInv
  <2> QED
    BY <2>2, <2>3
<1>2. ASSUME NEW c \in Shown, FillText(c) PROVE TermInv'
  BY <1>2 DEF FillText, TermInv
<1>3. CASE StartMoving \/ FillBegins \/ FillEnds \/ receive_stderr
  BY <1>3 DEF StartMoving, FillBegins, FillEnds, receive_stderr, TermInv
<1> QED
  BY <1>1, <1>2, <1>3 DEF receive_stdout

(* last_output_line holds the output that was written behind the last end  *)
(* of a line. *)
OutputType == last_output_line \in Seq(Shown)

LEMMA OutputTypeHolds == Spec => []OutputType
<1>1. Init => OutputType
  BY DEF Init, OutputType
<1>2. OutputType /\ [Next]_vars => OutputType'
  <2> SUFFICES ASSUME OutputType, [Next]_vars PROVE OutputType'
    OBVIOUS
  <2>1. CASE UNCHANGED last_output_line
    BY <2>1 DEF OutputType
  <2>2. ASSUME NEW c \in Shown \cup {"NL"}, Output(c) PROVE OutputType'
    <3>1. CASE c = "NL"
      BY <2>2, <3>1 DEF Output, OutputType
    <3>2. CASE c # "NL"
      <4>1. c \in Shown /\ last_output_line' = Append(last_output_line, c)
        BY <2>2, <3>2 DEF Output
      <4> QED
        BY <4>1 DEF OutputType
    <3> QED
      BY <3>1, <3>2
  <2>3. CASE process_stdin
    BY <2>1, <2>3 DEF process_stdin, InitialByte, MoveTo, Kill, Refresh, Delete, Escape, Newline,
       Insert, EscapeByte, MovementByte, EatenByte, termVars
  <2>4. CASE receive_stdout \/ receive_stderr
    BY <2>1, <2>2, <2>4 DEF receive_stdout, FillText, StartMoving, FillBegins, FillEnds,
       receive_stderr
  <2>5. CASE Outside \/ UNCHANGED vars
    BY <2>1, <2>5 DEF Outside, CatchInterrupts, ForkProgram, GivesUp, raw_terminal, sigc_handler,
       SetNonBlocking, ShellReads, sigstp_handler, sigcont_handler, died, vars, editVars, termVars
  <2> QED
    BY <2>3, <2>4, <2>5 DEF Next, Outside
<1> QED
  BY <1>1, <1>2, PTL DEF Spec

(* SIGCONT puts the last output and the line behind whatever the row has   *)
(* in front of the cursor; what was at the cursor is erased.               *)
LEMMA OutputOver ==
  ASSUME NEW t, NEW str \in Seq(Bytes), NEW p \in Nat, Shows(t, str, p),
         NEW out \in Seq(Bytes), NEW new \in Seq(Bytes), NEW q \in 0..Len(new)
  PROVE  Shows(Redraw(Put(t, out), new, 0, q), new, q)
<1>1. PICK r \in Seq(Bytes) : t = Row(r, str, p) /\ p \in 0..Len(str)
  BY DEF Shows
<1>2. PICK w, n : /\ w = r \o str /\ w \in Seq(Bytes)
                  /\ n = Len(r) + p /\ n \in Nat /\ n \in 0..Len(w)
  <2>1. r \o str \in Seq(Bytes) /\ Len(r \o str) = Len(r) + Len(str)
    BY ConcatProperties
  <2>2. Len(r) + p \in Nat /\ Len(r) + p \in 0..Len(r \o str)
    BY <1>1, <2>1
  <2> QED
    BY <2>1, <2>2
<1>3. t.row = w /\ t.col = n
  BY <1>1, <1>2 DEF Row
<1>4. PICK a \in Seq(Bytes) : a = Before(w, n) /\ Len(a) = n
  BY <1>2, BeforeIs
<1>5. PICK b : b = a \o out /\ b \in Seq(Bytes) /\ Len(b) = n + Len(out)
  <2>1. a \o out \in Seq(Bytes) /\ Len(a \o out) = Len(a) + Len(out)
    BY ConcatProperties
  <2> QED
    BY <1>4, <2>1
<1>6. PICK m \in Nat : m = Len(b)
  BY <1>5
<1>7. PICK z \in Seq(Bytes) : z = After(w, m)
  <2>1. CASE m <= Len(w)
    <3>1. w \in Seq(Bytes) /\ m \in 0..Len(w)
      BY <1>2, <2>1
    <3> QED
      BY ONLY <3>1, AfterIs
  <2>2. CASE ~(m <= Len(w))
    <3>1. After(w, m) = <<>>
      <4>1. w \in Seq(Bytes) /\ m \in Nat /\ m >= Len(w)
        BY <1>2, <2>2
      <4> QED
        BY ONLY <4>1, NothingBehind
    <3> QED
      BY <3>1, EmptySeq
  <2> QED
    BY <2>1, <2>2
<1>8. Put(t, out) = [row |-> b \o z, col |-> m]
  BY <1>3, <1>4, <1>5, <1>6, <1>7 DEF Put
<1>9. Shows(Put(t, out), z, 0)
  <2>1. m + 0 = m /\ 0 \in 0..Len(z)
    OBVIOUS
  <2>2. Put(t, out) = Row(b, z, 0)
    BY <1>6, <1>8, <2>1 DEF Row
  <2>3. b \in Seq(Bytes) /\ z \in Seq(Bytes)
    BY <1>5, <1>7
  <2>4. PICK u : u = Put(t, out)
    OBVIOUS
  <2>5. Shows(u, z, 0)
    <3>1. u = Row(b, z, 0)
      BY <2>2, <2>4
    <3> QED
      BY ONLY <2>1, <2>3, <3>1 DEF Shows
  <2> QED
    BY <2>4, <2>5
<1> QED
  BY <1>9, 0 \in Nat, RedrawShows

LEMMA ContinuedTerm ==
  ASSUME LineInv, TermInv, OutputType, sigcont_handler PROVE TermInv'
<1>1. PICK t \in Places : Draw(Redraw(Put(t, last_output_line), combine, 0, pos))
  BY DEF sigcont_handler
<1>2. UNCHANGED <<combine, pos, filled>>
  BY DEF sigcont_handler, lineVars, modeVars
<1>3. ASSUME quiet
      PROVE  ~filled' /\ Shows(Redraw(Put(t, last_output_line), combine, 0, pos), combine, pos)
  <2>1. last_output_line \in Seq(Bytes)
    BY DEF OutputType, Bytes
  <2>2. combine \in Seq(Bytes) /\ pos \in 0..Len(combine) /\ pos \in Nat /\ ~filled
    BY <1>3 DEF LineInv, CursorInLine, TermInv
  <2>3. PICK str, q, out : /\ str = combine /\ q = pos /\ out = last_output_line
                           /\ str \in Seq(Bytes) /\ q \in Nat /\ q \in 0..Len(str)
                           /\ out \in Seq(Bytes)
    BY <2>1, <2>2
  <2>4. CASE t = term
    <3>1. Shows(t, str, q)
      BY <1>3, <2>3, <2>4 DEF TermInv
    <3>2. Shows(Redraw(Put(t, out), str, 0, q), str, q)
      BY ONLY <2>3, <3>1, OutputOver
    <3> QED
      BY <1>2, <2>2, <2>3, <3>2
  <2>5. CASE t = NewRow
    <3>1. <<>> \in Seq(Bytes) /\ 0 \in Nat /\ Shows(t, <<>>, 0)
      BY <2>5, EmptySeq, EmptyShown
    <3>2. Shows(Redraw(Put(t, out), str, 0, q), str, q)
      BY ONLY <2>3, <3>1, OutputOver
    <3> QED
      BY <1>2, <2>2, <2>3, <3>2
  <2> QED
    BY <2>4, <2>5 DEF Places
<1>4. PICK u : u = Redraw(Put(t, last_output_line), combine, 0, pos) /\ Draw(u)
  BY <1>1
<1>5. quiet => ~filled' /\ Shows(u, combine', pos')
  BY <1>2, <1>3, <1>4
<1> QED
  BY <1>4, <1>5, DrawnInv

LEMMA TermInvNext == LineInv /\ LineInv' /\ OutputType /\ TermInv /\ [Next]_vars => TermInv'
<1> SUFFICES ASSUME LineInv, LineInv', OutputType, TermInv, [Next]_vars PROVE TermInv'
  OBVIOUS
<1>1. CASE UNCHANGED vars
  BY <1>1, SameTerm DEF vars, editVars, lineVars, termVars, screenVars, modeVars
<1>2. CASE process_stdin
  BY <1>2, KeyTerm
<1>3. CASE receive_stdout \/ receive_stderr
  BY <1>3, OutputTerm
<1>4. CASE sigcont_handler
  BY <1>4, ContinuedTerm
<1>5. CASE Outside /\ ~sigcont_handler
  <2>1. UNCHANGED editVars
    BY <1>5 DEF Outside, CatchInterrupts, ForkProgram, GivesUp, raw_terminal, sigc_handler,
       SetNonBlocking, ShellReads, sigstp_handler, died
  <2> QED
    BY <2>1, SameTerm DEF editVars, lineVars, termVars, screenVars, modeVars
<1> QED
  BY <1>1, <1>2, <1>3, <1>4, <1>5 DEF Next, Outside

LEMMA TermInvHolds == Spec => []TermInv
BY TermInvInit, TermInvNext, LineInvHolds, OutputTypeHolds, PTL DEF Spec

LEMMA EndsWith ==
  ASSUME NEW r \in Seq(Bytes), NEW str \in Seq(Bytes)
  PROVE  IsSuffix(str, r \o str)
<1>0. PICK n \in Nat, m \in Nat : n = Len(r) /\ m = Len(str)
  OBVIOUS
<1>1. PICK u \in Seq(Bytes) : u = r \o str /\ n = Len(r) /\ m = Len(str) /\ Len(u) = n + m
  BY <1>0, ConcatProperties
<1>2. \A i \in 1..(n + m) : u[i] = IF i <= n THEN r[i] ELSE str[i - n]
  BY <1>1, ConcatProperties
<1>3. PICK a : a = Reverse(str)
  OBVIOUS
<1>4. PICK b : b = Reverse(u)
  OBVIOUS
<1>5. a = [i \in 1..m |-> str[(m - i) + 1]] /\ b = [i \in 1..(n + m) |-> u[(n + m - i) + 1]]
  BY <1>1, <1>3, <1>4 DEF Reverse
<1>6. a \in Seq(Bytes) /\ Len(a) = m
  <2>1. \A i \in 1..m : (m - i) + 1 \in 1..m /\ str[(m - i) + 1] \in Bytes
    BY <1>1
  <2> QED
    BY <1>5, <2>1
<1>7. b \in Seq(Bytes) /\ Len(b) = n + m
  <2>1. \A i \in 1..(n + m) : (n + m - i) + 1 \in 1..(n + m) /\ u[(n + m - i) + 1] \in Bytes
    BY <1>1
  <2> QED
    BY <1>5, <2>1
<1>8. \A i \in 1..m : a[i] = b[i]
  <2>1. ASSUME NEW i \in 1..m PROVE a[i] = b[i]
    <3>1. PICK j : j = (n + m - i) + 1 /\ j \in 1..(n + m) /\ ~(j <= n) /\ j - n = (m - i) + 1
      OBVIOUS
    <3>2. a[i] = str[(m - i) + 1] /\ b[i] = u[j]
      BY <1>5, <3>1
    <3> QED
      BY <1>2, <3>1, <3>2
  <2> QED
    BY <2>1
<1>9. IsPrefix(a, b)
  <2>1. Len(a) <= Len(b) /\ \A i \in 1..Len(a) : a[i] = b[i]
    BY <1>6, <1>7, <1>8
  <2> QED
    BY <1>6, <1>7, <2>1, SamePrefix
<1> QED
  BY <1>1, <1>3, <1>4, <1>9 DEF IsSuffix

(* Relative movements are all that prompt knows of the screen, and they    *)
(* add up: the row ends with the line and the cursor is where the next     *)
(* byte will go, after any edits, walks, output and stops, on a terminal   *)
(* of any width, as long as the row has not been filled to that width.     *)
THEOREM ScreenIsRight == Spec => []ScreenShowsLine
<1>1. LineInv /\ TermInv => ScreenShowsLine
  <2> SUFFICES ASSUME LineInv, TermInv, quiet
               PROVE  /\ IsSuffix(combine, term.row)
                      /\ term.col = Len(term.row) - Len(combine) + pos
    BY DEF ScreenShowsLine
  <2>1. PICK r \in Seq(Bytes) : term = Row(r, combine, pos)
    BY DEF TermInv, Shows
  <2>2. term.row = r \o combine /\ term.col = Len(r) + pos
    BY <2>1 DEF Row
  <2>3. combine \in Seq(Bytes) /\ pos \in Nat
    BY DEF LineInv
  <2>4. Len(term.row) = Len(r) + Len(combine) /\ Len(r) \in Nat /\ Len(combine) \in Nat
    BY <2>2, <2>3, ConcatProperties
  <2> QED
    BY <2>2, <2>3, <2>4, EndsWith
<1> QED
  BY <1>1, LineInvHolds, TermInvHolds, PTL

(* What the type invariant says of the rest: the decoder and the modes.    *)
ControlType ==
  /\ state \in {"initial", "escape_read", "movement_escape_read", "eat_one_char"}
  /\ wmode \in {"w_normal", "w_fill"}
  /\ pc \in {"starting", "armed", "forked", "raw", "running", "stopping", "stopped",
             "threw", "looping", "ended"}
  /\ tty \in {"saved", "raw"}

FlagType == moving \in BOOLEAN /\ filled \in BOOLEAN /\ quiet \in BOOLEAN

TtyFlagType == nonblock \in BOOLEAN /\ crossed \in BOOLEAN

LEMMA TtyFlagTypeNext == TtyFlagType /\ [Next]_vars => TtyFlagType'
<1> SUFFICES ASSUME TtyFlagType, [Next]_vars PROVE TtyFlagType'
  OBVIOUS
<1>1. CASE UNCHANGED ttyVars
  BY <1>1, Zenon DEF ttyVars, TtyFlagType
<1>2. CASE UNCHANGED vars
  BY <1>1, <1>2, Zenon DEF vars
<1>3. CASE SetNonBlocking \/ raw_terminal \/ sigstp_handler \/ ShellReads \/ died
  BY <1>3, Zenon DEF SetNonBlocking, raw_terminal, sigstp_handler, ShellReads, died, TtyFlagType
<1>4. CASE sigcont_handler
  <2>1. nonblock' = TRUE /\ crossed' = (pc = "stopping")
    BY <1>4, Zenon DEF sigcont_handler
  <2> QED
    BY <2>1, Zenon DEF TtyFlagType
<1>5. CASE CatchInterrupts \/ ForkProgram \/ GivesUp \/ sigc_handler
  <2>1. UNCHANGED ttyVars
    BY <1>5, Zenon DEF CatchInterrupts, ForkProgram, GivesUp, sigc_handler
  <2> QED
    BY <1>1, <2>1, Zenon
<1> QED
  BY <1>1, <1>2, <1>3, <1>4, <1>5, Zenon DEF Next

LEMMA ControlTypeNext == ControlType /\ [Next]_vars => ControlType'
<1> SUFFICES ASSUME ControlType, [Next]_vars PROVE ControlType'
  OBVIOUS
<1>1. CASE UNCHANGED vars
  BY <1>1 DEF vars, editVars, modeVars, ttyVars, ControlType
<1>2. CASE process_stdin /\ UNCHANGED ttyVars
  BY <1>2 DEF ControlType, process_stdin, InitialByte, MoveTo, Kill, Refresh, Delete, Escape,
     Newline, Insert, EscapeByte, MovementByte, EatenByte, modeVars, ttyVars
<1>3. CASE (receive_stdout \/ receive_stderr) /\ UNCHANGED ttyVars
  BY <1>3 DEF ControlType, receive_stdout, Output, FillText, StartMoving, FillBegins, FillEnds,
     receive_stderr, modeVars, ttyVars
<1>4. CASE SetNonBlocking \/ CatchInterrupts \/ ForkProgram \/ GivesUp \/ raw_terminal
  BY <1>4 DEF ControlType, SetNonBlocking, CatchInterrupts, ForkProgram, GivesUp, raw_terminal,
     editVars, modeVars, ttyVars
<1>5. CASE sigc_handler \/ sigstp_handler \/ ShellReads \/ sigcont_handler \/ died
  BY <1>5 DEF ControlType, sigc_handler, sigstp_handler, ShellReads, sigcont_handler, died,
     editVars, modeVars, ttyVars
<1> QED
  BY <1>1, <1>2, <1>3, <1>4, <1>5 DEF Next

(* What Draw makes of quiet. *)
LEMMA DrawFlag == ASSUME NEW t, Draw(t) PROVE quiet' \in BOOLEAN
BY Zenon DEF Draw

LEMMA RedrawFlag == ASSUME NEW s, NEW p, NEW q, redraw_line(s, p, q) PROVE quiet' \in BOOLEAN
BY DrawFlag, Zenon DEF redraw_line

LEMMA KeyFlag ==
  ASSUME FlagType, process_stdin
  PROVE  quiet' \in BOOLEAN /\ moving' = moving /\ (filled' = filled \/ filled' = FALSE)
<1>0. quiet \in BOOLEAN
  BY DEF FlagType
<1>1. ASSUME NEW k \in Keys, NEW last \in BOOLEAN, InitialByte(k, last)
      PROVE  quiet' \in BOOLEAN /\ moving' = moving /\ (filled' = filled \/ filled' = FALSE)
  <2>1. CASE MoveTo(0) \/ MoveTo(Len(combine))
    BY <2>1, RedrawFlag, Zenon DEF MoveTo
  <2>2. CASE Kill
    BY <1>0, <2>2, RedrawFlag, Zenon DEF Kill, screenVars, modeVars
  <2>3. CASE Refresh
    BY <2>3, RedrawFlag, Zenon DEF Refresh, modeVars
  <2>4. CASE Delete
    BY <1>0, <2>4, RedrawFlag, Zenon DEF Delete, screenVars, modeVars
  <2>5. CASE Escape(last)
    BY <1>0, <2>5, Zenon DEF Escape, termVars, screenVars, modeVars
  <2>6. CASE Newline
    BY <2>6, Zenon DEF Newline
  <2>7. CASE k \in Typed /\ Insert(k)
    BY <1>0, <2>7, RedrawFlag, DrawFlag, Zenon DEF Insert, screenVars, modeVars
  <2> QED
    BY <1>1, <2>1, <2>2, <2>3, <2>4, <2>5, <2>6, <2>7, Zenon DEF InitialByte
<1>2. ASSUME NEW k \in Keys, EscapeByte(k)
      PROVE  quiet' \in BOOLEAN /\ moving' = moving /\ (filled' = filled \/ filled' = FALSE)
  BY <1>0, <1>2, Zenon DEF EscapeByte, termVars, screenVars, modeVars
<1>3. ASSUME NEW k \in Keys, MovementByte(k)
      PROVE  quiet' \in BOOLEAN /\ moving' = moving /\ (filled' = filled \/ filled' = FALSE)
  <2>1. moving' = moving
    BY <1>3, Zenon DEF MovementByte
  <2>2. CASE UNCHANGED <<lineVars, screenVars, filled>>
    BY <1>0, <2>1, <2>2, Zenon DEF screenVars
  <2>3. CASE Up
    BY <1>0, <2>1, <2>3, RedrawFlag, Zenon DEF Up, screenVars
  <2>4. CASE Down
    BY <1>0, <2>1, <2>4, RedrawFlag, Zenon DEF Down, screenVars
  <2>5. CASE Right
    BY <1>0, <2>1, <2>5, DrawFlag, Zenon DEF Right, screenVars
  <2>6. CASE Left
    BY <1>0, <2>1, <2>6, DrawFlag, Zenon DEF Left, screenVars
  <2> QED
    BY <1>3, <2>2, <2>3, <2>4, <2>5, <2>6, Zenon DEF MovementByte
<1>4. CASE EatenByte
  BY <1>0, <1>4, Zenon DEF EatenByte, termVars, screenVars, modeVars
<1> QED
  BY <1>1, <1>2, <1>3, <1>4, Zenon DEF process_stdin

LEMMA FlagTypeNext == FlagType /\ [Next]_vars => FlagType'
<1> SUFFICES ASSUME FlagType, [Next]_vars PROVE FlagType'
  OBVIOUS
<1>1. CASE UNCHANGED vars \/ (Outside /\ ~sigcont_handler)
  <2>1. UNCHANGED <<moving, quiet, filled>>
    BY <1>1, Zenon DEF Outside, SetNonBlocking, ShellReads, CatchInterrupts, ForkProgram, GivesUp,
       raw_terminal, sigc_handler, sigstp_handler, died, vars, editVars, termVars, screenVars,
       modeVars
  <2> QED
    BY <2>1, Zenon DEF FlagType
<1>2. CASE sigcont_handler
  <2>1. UNCHANGED <<moving, filled>> /\ quiet' \in BOOLEAN
    BY <1>2, DrawFlag, Zenon DEF sigcont_handler, modeVars
  <2> QED
    BY <2>1, Zenon DEF FlagType
<1>3. CASE process_stdin
  BY <1>3, KeyFlag, Zenon DEF FlagType
<1>4. CASE receive_stdout \/ receive_stderr
  <2>1. ASSUME NEW c, Output(c) PROVE FlagType'
    <3>1. quiet' \in BOOLEAN
      BY <2>1, DrawFlag, Zenon DEF Output
    <3> QED
      BY <2>1, <3>1, Zenon DEF Output, FlagType, modeVars
  <2>2. ASSUME NEW c, FillText(c) PROVE FlagType'
    BY <2>2, Zenon DEF FillText, FlagType, modeVars
  <2>3. CASE StartMoving \/ FillBegins \/ FillEnds \/ receive_stderr
    BY <2>3, Zenon DEF StartMoving, FillBegins, FillEnds, receive_stderr, FlagType, modeVars
  <2> QED
    BY <1>4, <2>1, <2>2, <2>3, Zenon DEF receive_stdout
<1> QED
  BY <1>1, <1>2, <1>3, <1>4, Zenon DEF Next, Outside

(* Every state of prompt is one that its types allow: pos and hispos never *)
(* wrap around below 0, and hispos is always the index of an entry.        *)
THEOREM PromptTypesHold == Spec => []PromptTypeOK
<1>1. Init => ControlType /\ FlagType /\ TtyFlagType
  BY DEF Init, ControlType, FlagType, TtyFlagType
<1>2. LineInv /\ TermInv /\ OutputType /\ ControlType /\ FlagType /\ TtyFlagType
      => PromptTypeOK
  <2> SUFFICES ASSUME LineInv, TermInv, OutputType, ControlType, FlagType, TtyFlagType
               PROVE  PromptTypeOK
    OBVIOUS
  <2>1. term.row \in Seq(Bytes) /\ term.col \in 0..Len(term.row)
    <3>1. CASE quiet
      <4>1. PICK r \in Seq(Bytes) : term = Row(r, combine, pos) /\ pos \in 0..Len(combine)
        BY <3>1 DEF TermInv, Shows
      <4>2. combine \in Seq(Bytes)
        BY DEF LineInv
      <4>3. r \o combine \in Seq(Bytes) /\ Len(r \o combine) = Len(r) + Len(combine)
        BY <4>2, ConcatProperties
      <4> QED
        BY <4>1, <4>2, <4>3 DEF Row
    <3>2. CASE ~quiet
      <4>1. term.row = <<>> /\ term.col = 0
        BY <3>2 DEF TermInv, NewRow
      <4>2. <<>> \in Seq(Bytes) /\ Len(<<>>) = 0
        BY EmptySeq
      <4> QED
        BY <4>1, <4>2
    <3> QED
      BY <3>1, <3>2
  <2> QED
    BY <2>1 DEF PromptTypeOK, LineInv, OutputType, ControlType, FlagType, TtyFlagType,
       Bytes
<1> QED
  BY <1>1, <1>2, ControlTypeNext, FlagTypeNext, TtyFlagTypeNext, LineInvHolds, TermInvHolds, OutputTypeHolds,
     PTL DEF Spec
=============================================================================
