---------------------------- MODULE PtyWrap_proofs ----------------------------
(***************************************************************************)
(* What ptywrap has passed on and with which status it exits, for every    *)
(* capacity, input and program.                                            *)
(***************************************************************************)
EXTENDS PtyWrap, SequenceTheorems, TLAPS

USE PtyAssumption

Byte(e) == IF e = Signalled THEN 255 ELSE e
Busy == pc \in {"loop", "scan", "drainout", "drainerr"}

(* The signal pipe: "G" is in it once, and taken by one read(), of ptywrap *)
(* or of a child without a program; the status of the child comes behind.  *)
(* In the loop what is read is the status and nothing else.                *)
SigInv ==
  /\ pc = "start" => child = "none"
  /\ child \in {"none", "boot"} => sigpipe = <<>> /\ ~Busy
  /\ pc = "ready" =>
       /\ child \in {"exec", "run", "stray"} => sigpipe = <<Go>>
       /\ child = "stuck" => sigpipe = <<>>
       /\ child = "zombie" => sigpipe \in {<<>>, <<Go>>}
       /\ child = "reaped" => sigpipe \in {<<Byte(end)>>, <<Go, Byte(end)>>}
  /\ Busy =>
       /\ child # "stuck"
       /\ child # "reaped" => sigpipe = <<>>
       /\ child = "reaped" => sigpipe \in {<<>>, <<Byte(end)>>}
  /\ pc = "scan" /\ "sig" \in rfds => sigpipe # <<>>

(* What is in buffer, by the place where the thread is.                    *)
HeldInv ==
  /\ pc \in {"start", "ready", "loop", "exited"} => held = "none"
  /\ pc = "drainout" => held \in {"none", "out"}
  /\ pc = "drainerr" => held \in {"none", "err"}

(* No chunk of output is lost on its way through ptywrap.                  *)
FlowInv ==
  ~prog.tty => \A s \in Outputs :
    wrote[s] = passed[s] + src[s] + (IF held = s THEN 1 ELSE 0)

(* After the loop the program is dead, its status known, and each output   *)
(* empty once it has been drained.                                         *)
EndInv ==
  ~prog.tty /\ pc \in {"drainout", "drainerr", "exited"} =>
    /\ child = "reaped"
    /\ retcode % 256 = Byte(end)
    /\ pc # "exited" => retcode # -1
    /\ pc \in {"drainerr", "exited"} /\ retcode # -1 => src["out"] = 0
    /\ pc = "exited" /\ retcode # -1 => src["err"] = 0

(* How ptywrap can have ended without a word to its program.               *)
KillInv == pc = "killed" => \/ termed
                            \/ child \in {"none", "zombie", "reaped"}
                            \/ readers # Outputs

PtyInv == PtyTypeOK /\ SigInv /\ HeldInv /\ FlowInv /\ EndInv /\ KillInv

LEMMA CharOfByte ==
  ASSUME NEW b \in 0..255
  PROVE  AsChar(b) \in -128..127 /\ AsChar(b) % 256 = b
<1>1. CASE b > 127
  <2>1. AsChar(b) = b - 256
    BY <1>1 DEF AsChar
  <2> QED
    BY <1>1, <2>1
<1>2. CASE ~(b > 127)
  BY <1>2 DEF AsChar
<1> QED
  BY <1>1, <1>2

LEMMA Tails ==
  ASSUME NEW a, NEW b
  PROVE  Tail(<<a>>) = <<>> /\ Tail(<<a, b>>) = <<b>> /\ Head(<<a>>) = a
OBVIOUS

LEMMA Appends ==
  ASSUME NEW a, NEW b
  PROVE  Append(<<>>, b) = <<b>> /\ Append(<<a>>, b) = <<a, b>>
<1>1. Append(<<>>, b) = <<b>>
  OBVIOUS
<1>2. Append(<<a>>, b) = <<a, b>>
  <2> DEFINE S == {a, b}
  <2>1. <<a>> \in Seq(S) /\ b \in S /\ <<a, b>> \in Seq(S)
    OBVIOUS
  <2>2. /\ Append(<<a>>, b) \in Seq(S) /\ Len(Append(<<a>>, b)) = 2
        /\ Append(<<a>>, b)[1] = a /\ Append(<<a>>, b)[2] = b
    BY <2>1, AppendProperties
  <2>3. Len(<<a, b>>) = 2 /\ <<a, b>>[1] = a /\ <<a, b>>[2] = b
    OBVIOUS
  <2>4. \A i \in 1..2 : Append(<<a>>, b)[i] = <<a, b>>[i]
    BY <2>2, <2>3
  <2> HIDE DEF S
  <2> QED
    BY ONLY <2>1, <2>2, <2>3, <2>4, SeqEqual
<1> QED
  BY <1>1, <1>2

LEMMA ByteType ==
  ASSUME PtyTypeOK
  PROVE  Byte(end) \in 0..255
BY DEF PtyTypeOK, Byte

LEMMA PtyInvInit == PtyInit => PtyInv
<1> SUFFICES ASSUME PtyInit PROVE PtyInv
  OBVIOUS
<1> USE DEF PtyInit, Outputs, Streams
<1>1. PtyTypeOK
  <2>1. prog \in Programs /\ toFeed \in 0..InMax
    BY DEF Programs
  <2>2. termed \in BOOLEAN /\ inOpen \in BOOLEAN
    OBVIOUS
  <2>3. src \in [Streams -> 0..Cap] /\ dst \in [Streams -> 0..Cap]
    OBVIOUS
  <2>4. passed \in [Outputs -> Nat] /\ wrote \in [Outputs -> Nat]
    OBVIOUS
  <2> QED
    BY <2>1, <2>2, <2>3, <2>4 DEF PtyTypeOK
<1>2. SigInv /\ HeldInv /\ EndInv /\ KillInv
  BY DEF SigInv, HeldInv, EndInv, KillInv, Busy
<1>3. FlowInv
  BY DEF FlowInv
<1> QED
  BY <1>1, <1>2, <1>3 DEF PtyInv

-----------------------------------------------------------------------------
LEMMA TypeStep ==
  ASSUME PtyInv, PtyNext
  PROVE  PtyTypeOK'
<1> USE DEF PtyTypeOK, Streams, Outputs, wrapVars, childVars, userVars
<1> PtyTypeOK
  BY DEF PtyInv
<1>1. CASE ForkChild
  BY <1>1 DEF ForkChild
<1>2. CASE WaitReady
  BY <1>2 DEF WaitReady
<1>3. CASE Select
  BY <1>3 DEF Select
<1>4. CASE ScanSig
  <2>1. sigpipe # <<>>
    BY <1>4 DEF ScanSig, PtyInv, SigInv
  <2>2. Head(sigpipe) \in 0..255 /\ Tail(sigpipe) \in Seq(0..255)
    <3>1. sigpipe \in Seq(0..255)
      OBVIOUS
    <3> QED
      BY ONLY <2>1, <3>1, HeadTailProperties
  <2>3. retcode' = AsChar(Head(sigpipe))
    BY <1>4 DEF ScanSig
  <2>4. retcode' \in -128..127
    BY ONLY <2>2, <2>3, CharOfByte
  <2> QED
    BY <1>4, <2>2, <2>4 DEF ScanSig
<1>5. ASSUME NEW s \in Streams, ScanStream(s) PROVE PtyTypeOK'
  BY <1>5 DEF ScanStream, Turn, Take
<1>6. CASE ScanDone
  BY <1>6 DEF ScanDone
<1>7. CASE WriteIn
  BY <1>7 DEF WriteIn
<1>8. ASSUME NEW s \in Outputs, WriteOut(s) PROVE PtyTypeOK'
  <2>1. dst' \in [Streams -> 0..Cap]
    <3>1. dst \in [Streams -> 0..Cap] /\ s \in Streams /\ dst[s] < Cap
      BY <1>8 DEF WriteOut
    <3> QED
      BY <1>8, <3>1 DEF WriteOut
  <2>2. passed' \in [Outputs -> Nat]
    BY <1>8 DEF WriteOut
  <2> QED
    BY <1>8, <2>1, <2>2 DEF WriteOut
<1>9. ASSUME NEW s \in Outputs, WriteAgain(s) \/ WritePipe(s) PROVE PtyTypeOK'
  <2>1. CASE WriteAgain(s)
    BY <2>1 DEF WriteAgain
  <2>2. CASE WritePipe(s)
    BY <2>2 DEF WritePipe
  <2> QED
    BY <1>9, <2>1, <2>2
<1>10. CASE DrainTake
  <2>1. PICK s \in Outputs : Take(s)
    BY <1>10 DEF DrainTake
  <2> QED
    BY <1>10, <2>1 DEF DrainTake, Take
<1>11. CASE DrainEnd
  BY <1>11 DEF DrainEnd
<1>12. CASE SigChld
  BY <1>12, ByteType DEF SigChld, Byte
<1>13. CASE SigKill
  <2>1. termed' \in BOOLEAN
    BY <1>13 DEF SigKill
  <2> QED
    BY <1>13, <2>1 DEF SigKill
<1>14. CASE Boot \/ Exec \/ StrayReads \/ ChildExits \/ ChildKilled
  <2>1. CASE Boot
    BY <2>1 DEF Boot, Go
  <2>2. CASE Exec
    BY <2>2 DEF Exec
  <2>3. CASE StrayReads
    BY <2>3 DEF StrayReads
  <2>4. CASE ChildExits
    BY <2>4 DEF ChildExits
  <2>5. CASE ChildKilled
    BY <2>5 DEF ChildKilled
  <2> QED
    BY <1>14, <2>1, <2>2, <2>3, <2>4, <2>5
<1>15. CASE ChildReads
  BY <1>15 DEF ChildReads
<1>16. ASSUME NEW s \in Outputs, ChildWrites(s) PROVE PtyTypeOK'
  <2>1. src' \in [Streams -> 0..Cap]
    <3>1. src \in [Streams -> 0..Cap] /\ s \in Streams /\ src[s] < Cap
      BY <1>16 DEF ChildWrites
    <3> QED
      BY <1>16, <3>1 DEF ChildWrites
  <2>2. wrote' \in [Outputs -> Nat]
    BY <1>16 DEF ChildWrites
  <2> QED
    BY <1>16, <2>1, <2>2 DEF ChildWrites
<1>17. CASE Feeds
  BY <1>17 DEF Feeds
<1>18. CASE EndsInput
  BY <1>18 DEF EndsInput
<1>19. ASSUME NEW s \in Outputs, Consumes(s) \/ StopsReading(s) PROVE PtyTypeOK'
  <2>1. CASE Consumes(s)
    <3>1. dst' \in [Streams -> 0..Cap]
      BY <2>1 DEF Consumes
    <3> QED
      BY <2>1, <3>1 DEF Consumes
  <2>2. CASE StopsReading(s)
    BY <2>2 DEF StopsReading
  <2> QED
    BY <1>19, <2>1, <2>2
<1> QED
  BY <1>1, <1>2, <1>3, <1>4, <1>5, <1>6, <1>7, <1>8, <1>9, <1>10, <1>11, <1>12, <1>13,
     <1>14, <1>15, <1>16, <1>17, <1>18, <1>19
  DEF PtyNext, Wrapper, ChildStarts, ChildWorks, UserWorks

-----------------------------------------------------------------------------
LEMMA SigStep ==
  ASSUME PtyInv, PtyNext
  PROVE  SigInv'
<1> USE DEF SigInv, Busy
<1> SigInv /\ PtyTypeOK
  BY DEF PtyInv
<1>1. CASE ForkChild
  BY <1>1 DEF ForkChild
<1>2. CASE WaitReady
  <2>1. pc' = "loop" /\ sigpipe' = Tail(sigpipe) /\ sigpipe # <<>> /\ UNCHANGED <<child, end>>
    BY <1>2 DEF WaitReady, childVars
  <2>2. child \notin {"none", "boot", "stuck"}
    BY <1>2, <2>1 DEF WaitReady
  <2>3. IF child = "reaped" THEN sigpipe \in {<<Byte(end)>>, <<Go, Byte(end)>>} ELSE sigpipe = <<Go>>
    BY <1>2, <2>1, <2>2 DEF WaitReady, PtyTypeOK
  <2>4. IF child = "reaped" THEN sigpipe' \in {<<>>, <<Byte(end)>>} ELSE sigpipe' = <<>>
    BY <2>1, <2>3, Tails
  <2> QED
    BY <2>1, <2>2, <2>4
<1>3. CASE Select
  <2>1. "sig" \in rfds' => sigpipe # <<>>
    <3>1. "sig" \notin Streams
      BY DEF Streams, Outputs
    <3> QED
      BY <1>3, <3>1 DEF Select
  <2> QED
    BY <1>3, <2>1 DEF Select, childVars
<1>4. CASE ScanSig
  <2>1. child = "reaped" /\ sigpipe = <<Byte(end)>>
    BY <1>4 DEF ScanSig
  <2>2. sigpipe' = <<>>
    BY <1>4, <2>1, Tails DEF ScanSig
  <2>3. pc' \in {"exited", "drainout"} /\ UNCHANGED <<child, end>>
    BY <1>4 DEF ScanSig, childVars
  <2> QED
    BY <2>1, <2>2, <2>3
<1>5. ASSUME NEW s \in Streams, ScanStream(s) PROVE SigInv'
  BY <1>5 DEF ScanStream, Turn, childVars
<1>6. CASE ScanDone
  BY <1>6 DEF ScanDone, childVars
<1>7. CASE WriteIn
  BY <1>7 DEF WriteIn, childVars
<1>8. ASSUME NEW s \in Outputs, WriteOut(s) \/ WritePipe(s) PROVE SigInv'
  BY <1>8 DEF WriteOut, WritePipe, childVars
<1>9. ASSUME NEW s \in Outputs, WriteAgain(s) PROVE SigInv'
  <2>1. Busy
    BY <1>9 DEF WriteAgain, PtyInv, HeldInv, PtyTypeOK, Gone, Outputs
  <2> QED
    BY <1>9, <2>1 DEF WriteAgain, childVars
<1>10. CASE DrainTake
  BY <1>10 DEF DrainTake, childVars
<1>11. CASE DrainEnd
  BY <1>11 DEF DrainEnd, childVars
<1>12. CASE SigChld
  <2>1. /\ child = "zombie" /\ child' = "reaped" /\ UNCHANGED <<pc, rfds, end>>
        /\ sigpipe' = Append(sigpipe, Byte(end))
    BY <1>12 DEF SigChld, wrapVars, Byte
  <2>2. CASE sigpipe = <<>>
    BY <2>1, <2>2, Appends
  <2>3. CASE sigpipe = <<Go>>
    BY <2>1, <2>3, Appends
  <2>4. CASE pc \in {"exited", "killed"}
    BY <2>1, <2>4
  <2> QED
    BY <2>1, <2>2, <2>3, <2>4 DEF PtyTypeOK
<1>13. CASE SigKill
  BY <1>13 DEF SigKill, childVars
<1>14. CASE Boot
  BY <1>14 DEF Boot, wrapVars
<1>15. CASE Exec
  BY <1>15 DEF Exec, wrapVars
<1>16. CASE StrayReads
  <2>1. sigpipe # <<>> /\ sigpipe' = Tail(sigpipe) /\ child' = "stuck" /\ UNCHANGED <<pc, rfds, end>>
    BY <1>16 DEF StrayReads, wrapVars
  <2>2. CASE pc = "ready"
    BY <1>16, <2>1, <2>2, Tails DEF StrayReads
  <2>3. CASE pc # "ready"
    BY <1>16, <2>1, <2>3 DEF StrayReads
  <2> QED
    BY <2>2, <2>3
<1>17. CASE ChildExits
  BY <1>17 DEF ChildExits, wrapVars
<1>18. CASE ChildKilled
  BY <1>18 DEF ChildKilled, wrapVars, PtyTypeOK
<1>19. CASE UNCHANGED <<pc, rfds, child, end, sigpipe>>
  BY <1>19
<1>20. CASE ChildReads \/ Feeds \/ EndsInput
  BY <1>19, <1>20 DEF ChildReads, Feeds, EndsInput, wrapVars, childVars
<1>21. ASSUME NEW s \in Outputs, ChildWrites(s) \/ Consumes(s) \/ StopsReading(s) PROVE SigInv'
  BY <1>19, <1>21 DEF ChildWrites, Consumes, StopsReading, wrapVars, childVars
<1> QED
  BY <1>1, <1>2, <1>3, <1>4, <1>5, <1>6, <1>7, <1>8, <1>9, <1>10, <1>11, <1>12, <1>13,
     <1>14, <1>15, <1>16, <1>17, <1>18, <1>20, <1>21
  DEF PtyNext, Wrapper, ChildStarts, ChildWorks, UserWorks

LEMMA HeldStep ==
  ASSUME PtyInv, PtyNext
  PROVE  HeldInv'
<1> USE DEF HeldInv
<1> HeldInv
  BY DEF PtyInv
<1>1. CASE ForkChild \/ WaitReady \/ Select \/ ScanSig \/ ScanDone
  BY <1>1 DEF ForkChild, WaitReady, Select, ScanSig, ScanDone
<1>2. ASSUME NEW s \in Streams, ScanStream(s) PROVE HeldInv'
  BY <1>2 DEF ScanStream, Turn
<1>3. CASE WriteIn \/ DrainTake \/ DrainEnd \/ SigKill
  BY <1>3 DEF WriteIn, DrainTake, Take, DrainEnd, SigKill
<1>4. ASSUME NEW s \in Outputs, WriteOut(s) \/ WriteAgain(s) \/ WritePipe(s) PROVE HeldInv'
  BY <1>4 DEF WriteOut, WriteAgain, WritePipe
<1>5. CASE UNCHANGED wrapVars
  BY <1>5 DEF wrapVars
<1>6. ASSUME NEW s \in Outputs, ChildWrites(s) \/ Consumes(s) \/ StopsReading(s) PROVE HeldInv'
  BY <1>5, <1>6 DEF ChildWrites, Consumes, StopsReading
<1>7. CASE SigChld \/ Boot \/ Exec \/ StrayReads \/ ChildReads \/ ChildExits \/ ChildKilled \/ UserWorks
  BY <1>5, <1>7 DEF SigChld, Boot, Exec, StrayReads, ChildReads, ChildExits, ChildKilled,
                    UserWorks, Feeds, EndsInput
<1> QED
  BY <1>1, <1>2, <1>3, <1>4, <1>6, <1>7 DEF PtyNext, Wrapper, ChildStarts, ChildWorks

LEMMA FlowStep ==
  ASSUME PtyInv, PtyNext
  PROVE  FlowInv'
<1> USE DEF Outputs, Streams
<1> FlowInv /\ HeldInv
  BY DEF PtyInv
<1>0. /\ src \in [Streams -> 0..Cap]
      /\ passed \in [Outputs -> Nat] /\ wrote \in [Outputs -> Nat]
  BY DEF PtyInv, PtyTypeOK
<1>1. CASE UNCHANGED <<prog, wrote, passed, src, held>>
  BY <1>1 DEF FlowInv
<1>2. CASE ForkChild \/ WaitReady \/ Select \/ ScanSig \/ ScanDone \/ DrainEnd \/ SigKill
  BY <1>1, <1>2 DEF ForkChild, WaitReady, Select, ScanSig, ScanDone, DrainEnd, SigKill, childVars
<1>3. CASE SigChld \/ Boot \/ Exec \/ StrayReads \/ ChildReads \/ ChildExits \/ ChildKilled \/ EndsInput
  BY <1>1, <1>3 DEF SigChld, Boot, Exec, StrayReads, ChildReads, ChildExits, ChildKilled,
                    EndsInput, wrapVars, childVars
<1>4. ASSUME NEW s \in Outputs, WritePipe(s) \/ Consumes(s) \/ StopsReading(s) PROVE FlowInv'
  BY <1>1, <1>4 DEF WritePipe, Consumes, StopsReading, wrapVars, childVars
<1>5. ASSUME NEW s \in Streams, held = "none", Take(s), UNCHANGED <<prog, wrote, passed>>
      PROVE  FlowInv'
  <2>1. \A q \in Outputs : src'[q] + (IF held' = q THEN 1 ELSE 0) = src[q]
    BY <1>0, <1>5 DEF Take
  <2>2. src' \in [Streams -> 0..Cap]
    BY <1>0, <1>5 DEF Take
  <2> QED
    BY <1>0, <1>5, <2>1, <2>2 DEF FlowInv
<1>6. ASSUME NEW s \in Streams, ScanStream(s) PROVE FlowInv'
  BY <1>1, <1>5, <1>6 DEF ScanStream, Turn, childVars
<1>7. CASE DrainTake
  BY <1>5, <1>7 DEF DrainTake, childVars
<1>8. CASE WriteIn
  BY <1>8 DEF WriteIn, childVars, FlowInv
<1>9. ASSUME NEW s \in Outputs, WriteOut(s) PROVE FlowInv'
  <2>1. \A q \in Outputs : /\ passed'[q] = passed[q] + (IF held = q THEN 1 ELSE 0)
                           /\ held' # q
    BY <1>0, <1>9 DEF WriteOut
  <2> QED
    BY <1>0, <1>9, <2>1 DEF WriteOut, childVars, FlowInv
<1>10. ASSUME NEW s \in Outputs, WriteAgain(s) PROVE FlowInv'
  BY <1>10 DEF WriteAgain, FlowInv
<1>11. ASSUME NEW s \in Outputs, ChildWrites(s) PROVE FlowInv'
  <2>1. \A q \in Outputs : wrote'[q] - src'[q] = wrote[q] - src[q]
    BY <1>0, <1>11 DEF ChildWrites
  <2>2. \A q \in Outputs : wrote'[q] \in Nat /\ src'[q] \in Nat
    BY <1>0, <1>11 DEF ChildWrites
  <2> QED
    BY <1>0, <1>11, <2>1, <2>2 DEF ChildWrites, wrapVars, FlowInv
<1>12. CASE Feeds
  <2>1. \A q \in Outputs : src'[q] = src[q]
    BY <1>0, <1>12 DEF Feeds
  <2> QED
    BY <1>12, <2>1 DEF Feeds, wrapVars, childVars, FlowInv
<1> QED
  BY <1>2, <1>3, <1>4, <1>6, <1>7, <1>8, <1>9, <1>10, <1>11, <1>12
  DEF PtyNext, Wrapper, ChildStarts, ChildWorks, UserWorks

LEMMA EndStep ==
  ASSUME PtyInv, PtyNext
  PROVE  EndInv'
<1> USE DEF EndInv
<1> EndInv /\ HeldInv /\ SigInv
  BY DEF PtyInv
<1>0. /\ src \in [Streams -> 0..Cap]
      /\ end \in Codes \cup {Signalled}
  BY DEF PtyInv, PtyTypeOK
<1>1. CASE UNCHANGED <<prog, pc, child, end, retcode, src>>
  BY <1>1
<1>2. CASE pc' \in {"start", "ready", "loop", "scan", "killed"}
  BY <1>2
<1>3. CASE ScanSig
  <2>1. child = "reaped" /\ sigpipe = <<Byte(end)>>
    BY <1>3 DEF ScanSig, SigInv, Busy
  <2>2. retcode' = AsChar(Byte(end))
    BY <1>3, <2>1, Tails DEF ScanSig
  <2>3. retcode' % 256 = Byte(end)
    BY <2>2, ByteType, CharOfByte DEF PtyInv
  <2>4. /\ UNCHANGED <<prog, child, end>>
        /\ pc' \in {"drainout", "exited"} /\ (pc' = "exited" <=> retcode' = -1)
    BY <1>3 DEF ScanSig, childVars
  <2>5. Byte(end)' = Byte(end)
    BY <2>4 DEF Byte
  <2> QED
    BY <2>1, <2>3, <2>4, <2>5
<1>4. CASE ForkChild \/ WaitReady \/ Select \/ ScanDone \/ SigKill
  BY <1>2, <1>4 DEF ForkChild, WaitReady, Select, ScanDone, SigKill
<1>5. ASSUME NEW s \in Streams, ScanStream(s) PROVE EndInv'
  BY <1>2, <1>5 DEF ScanStream, Turn
<1>6. CASE WriteIn
  BY <1>1, <1>6 DEF WriteIn, childVars
<1>7. ASSUME NEW s \in Outputs, WriteOut(s) \/ WritePipe(s) PROVE EndInv'
  BY <1>1, <1>2, <1>7 DEF WriteOut, WritePipe, childVars
<1>8. ASSUME NEW s \in Outputs, WriteAgain(s) PROVE EndInv'
  BY <1>8 DEF WriteAgain
<1>9. CASE DrainTake
  <2>1. /\ UNCHANGED <<prog, pc, child, end, retcode>>
        /\ pc = "drainout" \/ (pc = "drainerr" /\ src'["out"] = src["out"])
    BY <1>0, <1>9 DEF DrainTake, Take, childVars, Streams, Outputs
  <2>2. Byte(end)' = Byte(end)
    BY <2>1 DEF Byte
  <2> QED
    BY <2>1, <2>2
<1>10. CASE DrainEnd
  <2>1. /\ UNCHANGED <<prog, child, end, retcode, src>>
        /\ \/ pc = "drainout" /\ src["out"] = 0 /\ pc' = "drainerr"
           \/ pc = "drainerr" /\ src["err"] = 0 /\ pc' = "exited"
    BY <1>10 DEF DrainEnd, childVars
  <2>2. Byte(end)' = Byte(end)
    BY <2>1 DEF Byte
  <2> QED
    BY <2>1, <2>2
<1>11. CASE SigChld \/ Boot \/ Exec \/ StrayReads \/ ChildExits \/ ChildKilled
  <2>1. child # "reaped" /\ UNCHANGED <<prog, pc>>
    BY <1>11 DEF SigChld, Boot, Exec, StrayReads, ChildExits, ChildKilled, wrapVars
  <2> QED
    BY <2>1
<1>12. CASE ChildReads \/ EndsInput
  BY <1>1, <1>12 DEF ChildReads, EndsInput, wrapVars, childVars
<1>13. CASE Feeds
  <2>1. src'["out"] = src["out"] /\ src'["err"] = src["err"]
    BY <1>0, <1>13 DEF Feeds, Streams, Outputs
  <2>2. UNCHANGED <<prog, pc, child, end, retcode>>
    BY <1>13 DEF Feeds, wrapVars, childVars
  <2>3. Byte(end)' = Byte(end)
    BY <2>2 DEF Byte
  <2> QED
    BY <2>1, <2>2, <2>3
<1>14. ASSUME NEW s \in Outputs, ChildWrites(s) PROVE EndInv'
  <2>1. child # "reaped" /\ UNCHANGED <<prog, pc>>
    BY <1>14 DEF ChildWrites, wrapVars
  <2> QED
    BY <2>1
<1>15. ASSUME NEW s \in Outputs, Consumes(s) \/ StopsReading(s) PROVE EndInv'
  BY <1>1, <1>15 DEF Consumes, StopsReading, wrapVars, childVars
<1> QED
  BY <1>3, <1>4, <1>5, <1>6, <1>7, <1>8, <1>9, <1>10, <1>11, <1>12, <1>13, <1>14, <1>15
  DEF PtyNext, Wrapper, ChildStarts, ChildWorks, UserWorks

LEMMA KillStep ==
  ASSUME PtyInv, PtyNext
  PROVE  KillInv'
<1> USE DEF KillInv
<1> KillInv /\ PtyTypeOK /\ HeldInv
  BY DEF PtyInv
<1>1. CASE pc # "killed" /\ pc' # "killed"
  BY <1>1
<1>2. CASE SigKill
  BY <1>2 DEF SigKill, childVars
<1>3. ASSUME NEW s \in Outputs, WritePipe(s) PROVE KillInv'
  BY <1>3 DEF WritePipe, userVars
<1>4. CASE UNCHANGED <<pc, termed, child, readers>>
  BY <1>4
<1>5. CASE ForkChild \/ WaitReady \/ Select \/ ScanSig \/ ScanDone \/ DrainTake \/ DrainEnd \/ WriteIn
  BY <1>1, <1>4, <1>5 DEF ForkChild, WaitReady, Select, ScanSig, ScanDone, DrainTake, DrainEnd,
                          WriteIn, Gone, childVars, userVars
<1>6. ASSUME NEW s \in Streams, ScanStream(s) PROVE KillInv'
  BY <1>1, <1>6 DEF ScanStream, Turn
<1>7. ASSUME NEW s \in Outputs, WriteOut(s) \/ WriteAgain(s) PROVE KillInv'
  BY <1>1, <1>7 DEF WriteOut, WriteAgain, Gone
<1>8. CASE SigChld \/ ChildExits \/ ChildKilled
  BY <1>8 DEF SigChld, ChildExits, ChildKilled, wrapVars, userVars
<1>9. CASE Boot \/ Exec \/ StrayReads
  BY <1>9 DEF Boot, Exec, StrayReads, wrapVars, userVars
<1>10. CASE ChildReads \/ Feeds \/ EndsInput
  BY <1>4, <1>10 DEF ChildReads, Feeds, EndsInput, wrapVars, childVars, userVars
<1>11. ASSUME NEW s \in Outputs, ChildWrites(s) \/ Consumes(s) PROVE KillInv'
  BY <1>4, <1>11 DEF ChildWrites, Consumes, wrapVars, childVars, userVars
<1>12. ASSUME NEW s \in Outputs, StopsReading(s) PROVE KillInv'
  BY <1>12 DEF StopsReading, wrapVars, childVars, PtyTypeOK
<1> QED
  BY <1>2, <1>3, <1>5, <1>6, <1>7, <1>8, <1>9, <1>10, <1>11, <1>12
  DEF PtyNext, Wrapper, ChildStarts, ChildWorks, UserWorks

THEOREM PtyInvHolds == PtySpec => []PtyInv
<1>1. PtyInv /\ UNCHANGED ptyVars => PtyInv'
  BY DEF PtyInv, PtyTypeOK, SigInv, HeldInv, FlowInv, EndInv, KillInv, Busy, Byte,
         ptyVars, wrapVars, childVars, userVars
<1>2. PtyInv /\ [PtyNext]_ptyVars => PtyInv'
  BY <1>1, TypeStep, SigStep, HeldStep, FlowStep, EndStep, KillStep DEF PtyInv
<1> QED
  BY PtyInvInit, <1>2, PTL DEF PtySpec

(* With the exit code of its program ptywrap has passed on all of its      *)
(* output.                                                                 *)
THEOREM NoOutputIsLost == PtySpec => []OutputIsPassed
<1>1. PtyInv => OutputIsPassed
  <2> SUFFICES ASSUME PtyInv, pc = "exited", retcode # -1, ~prog.tty PROVE passed = wrote
    BY DEF OutputIsPassed
  <2>1. passed \in [Outputs -> Nat] /\ wrote \in [Outputs -> Nat]
    BY DEF PtyInv, PtyTypeOK
  <2>2. \A s \in Outputs : wrote[s] = passed[s] + 0 + 0
    BY DEF PtyInv, FlowInv, EndInv, HeldInv, Outputs
  <2> QED
    BY <2>1, <2>2
<1> QED
  BY PtyInvHolds, <1>1, PTL

(* ptywrap exits only after its program and with its status.               *)
THEOREM StatusIsTrue == PtySpec => []StatusIsChilds
<1>1. PtyInv => StatusIsChilds
  BY DEF PtyInv, EndInv, StatusIsChilds, Byte
<1> QED
  BY PtyInvHolds, <1>1, PTL

(* However ptywrap ends, while its outputs can be written its program does *)
(* not run on without having been told.                                    *)
THEOREM NobodyIsLeft == PtySpec => []NobodyIsLeftBehind
<1>1. PtyInv => NobodyIsLeftBehind
  BY DEF PtyInv, EndInv, KillInv, NobodyIsLeftBehind, Gone
<1> QED
  BY PtyInvHolds, <1>1, PTL

(* The types of ptywrap, its program and the terminals between them. *)
THEOREM PtyTypesHold == PtySpec => []PtyTypeOK
<1>1. PtyInv => PtyTypeOK
  BY DEF PtyInv
<1> QED
  BY PtyInvHolds, <1>1, PTL
=============================================================================
