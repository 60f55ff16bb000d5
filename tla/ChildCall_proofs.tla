-------------------------- MODULE ChildCall_proofs --------------------------
(***************************************************************************)
(* What call() has collected, for every pipe capacity, input and output.   *)
(***************************************************************************)
EXTENDS ChildCall, TLAPS

USE CallAssumption

(* An output that has been drained is empty and will stay so: the program  *)
(* no longer holds its end.                                                *)
Ended(s) == s \notin theirs /\ queue[s] = 0

CallInv ==
  /\ CallTypeOK
  /\ pc = "write" => left > 0
  /\ prog.text => \A s \in Outputs : wrote[s] = got[s] + queue[s]
  /\ pc \in {"err", "close", "kill", "done"} => Ended("stdout")
  /\ pc \in {"close", "kill", "done"} => Ended("stderr")
  /\ termed => pc = "done"

LEMMA CallInvInit == CallInit => CallInv
<1> SUFFICES ASSUME CallInit PROVE CallInv
  OBVIOUS
<1> USE DEF CallInit, Outputs, Streams
<1>1. CallTypeOK
  <2>1. eof \in BOOLEAN /\ termed \in BOOLEAN
    OBVIOUS
  <2>2. got \in [Outputs -> Nat] /\ wrote \in [Outputs -> Nat] /\ queue \in [Streams -> 0..Cap]
    OBVIOUS
  <2> QED
    BY <2>1, <2>2 DEF CallTypeOK
<1>2. \A s \in Outputs : wrote[s] = got[s] + queue[s]
  OBVIOUS
<1> QED
  BY <1>1, <1>2 DEF CallInv, Ended

LEMMA CallInvNext == CallInv /\ [CallNext]_callVars => CallInv'
<1> SUFFICES ASSUME CallInv, [CallNext]_callVars PROVE CallInv'
  OBVIOUS
<1> USE DEF CallInv, CallTypeOK, Ended, Streams, Outputs, parentVars, childVars
<1>0. prog.size \in 0..InMax
  BY DEF Programs
<1>1. CASE StandardFork
  BY <1>0, <1>1 DEF StandardFork
<1>2. CASE WriteInput
  BY <1>2 DEF WriteInput
<1>3. CASE WriteFails \/ WriteInterrupted
  <2>1. GiveUpInput
    BY <1>3 DEF WriteFails, WriteInterrupted
  <2>2. eof' \in BOOLEAN /\ termed' \in BOOLEAN
    BY <2>1 DEF GiveUpInput
  <2> QED
    BY <2>1, <2>2 DEF GiveUpInput
<1>4. ASSUME NEW s \in Outputs, NEW next, ReadChunk(s) \/ ReadEnd(s, next),
             UNCHANGED <<left, ours, termed, childVars, prog>>
      PROVE  /\ queue' \in [Streams -> 0..Cap] /\ got' \in [Outputs -> Nat]
             /\ prog.text => \A q \in Outputs : wrote[q] = got'[q] + queue'[q]
             /\ \A q \in Outputs : queue[q] = 0 => queue'[q] = 0
  <2>1. CASE ReadChunk(s)
    <3>1. PICK n \in {0, 1} : got' = [got EXCEPT ![s] = @ + n] /\ (prog.text => n = 1)
      BY <2>1 DEF ReadChunk
    <3>2. got' \in [Outputs -> Nat] /\ queue' \in [Streams -> 0..Cap]
      BY <2>1, <3>1 DEF ReadChunk
    <3>3. \A q \in Outputs : /\ prog.text => got'[q] + queue'[q] = got[q] + queue[q]
                             /\ queue[q] = 0 => queue'[q] = 0
      BY <2>1, <3>1 DEF ReadChunk
    <3> QED
      BY <3>2, <3>3
  <2>2. CASE ReadEnd(s, next)
    BY <2>2 DEF ReadEnd
  <2> QED
    BY <1>4, <2>1, <2>2
<1>5. CASE ReadOut
  BY <1>4, <1>5 DEF ReadOut, ReadChunk, ReadEnd
<1>6. CASE ReadErr
  BY <1>4, <1>6 DEF ReadErr, ReadChunk, ReadEnd
<1>7. CASE CloseAll
  BY <1>7 DEF CloseAll
<1>8. CASE Kill
  <2>1. termed' \in BOOLEAN
    BY <1>8 DEF Kill
  <2> QED
    BY <1>8, <2>1 DEF Kill
<1>9. CASE Reads
  <2>1. eof' \in BOOLEAN /\ termed' \in BOOLEAN
    BY <1>9 DEF Reads
  <2>2. /\ queue' \in [Streams -> 0..Cap]
        /\ \A s \in Outputs : queue'[s] = queue[s]
    BY <1>9 DEF Reads
  <2> QED
    BY <1>9, <2>1, <2>2 DEF Reads
<1>10. ASSUME NEW s \in Outputs, Writes(s) PROVE CallInv'
  <2>1. queue' \in [Streams -> 0..Cap] /\ wrote' \in [Outputs -> Nat]
    BY <1>10 DEF Writes
  <2>2. \A q \in Outputs : prog.text => wrote'[q] = got[q] + queue'[q]
    BY <1>10 DEF Writes
  <2>3. \A q \in Outputs : Ended(q) => Ended(q)'
    BY <1>10 DEF Writes
  <2> QED
    BY <1>10, <2>1, <2>2, <2>3 DEF Writes
<1>11. CASE Exits \/ IsKilled
  <2>1. eof' \in BOOLEAN /\ termed' \in BOOLEAN
    BY <1>11 DEF Exits, IsKilled
  <2> QED
    BY <1>11, <2>1 DEF Exits, IsKilled
<1>12. ASSUME NEW s \in Streams, Closes(s) PROVE CallInv'
  BY <1>12 DEF Closes
<1>13. CASE UNCHANGED callVars
  BY <1>13 DEF callVars
<1> QED
  BY <1>1, <1>2, <1>3, <1>5, <1>6, <1>7, <1>8, <1>9, <1>10, <1>11, <1>12, <1>13
  DEF CallNext, Caller, Works

THEOREM CallInvHolds == CallSpec => []CallInv
BY CallInvInit, CallInvNext, PTL DEF CallSpec

(* call() returns all the text that the program wrote before it let go of  *)
(* its outputs, in whatever order it wrote and closed them.                *)
THEOREM NothingIsMissed == CallSpec => []OutputIsComplete
<1>1. CallInv => OutputIsComplete
  <2> SUFFICES ASSUME CallInv, pc \in {"close", "kill", "done"}, prog.text PROVE got = wrote
    BY DEF OutputIsComplete
  <2>1. got \in [Outputs -> Nat] /\ wrote \in [Outputs -> Nat]
    BY DEF CallInv, CallTypeOK
  <2>2. \A s \in Outputs : wrote[s] = got[s] + 0
    BY DEF CallInv, Ended, Outputs
  <2> QED
    BY <2>1, <2>2
<1> QED
  BY CallInvHolds, <1>1, PTL

(* The SIGTERM at the end of call() reaches no program that could write.   *)
THEOREM NobodyIsCutOff == CallSpec => []NotCutOff
<1>1. CallInv => NotCutOff
  BY DEF CallInv, NotCutOff, Ended, Outputs
<1> QED
  BY CallInvHolds, <1>1, PTL

(* The types of the caller, the program and what is between them. *)
THEOREM CallTypesHold == CallSpec => []CallTypeOK
<1>1. CallInv => CallTypeOK
  BY DEF CallInv
<1> QED
  BY CallInvHolds, <1>1, PTL
=============================================================================
