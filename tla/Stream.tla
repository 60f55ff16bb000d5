------------------------------- MODULE Stream -------------------------------
(***************************************************************************)
(* One opipe and the ipipe at the other end of its socket, byte by byte    *)
(* (src/src/pipe.cc): the put area of a pipebuf with overflow, sync,       *)
(* send_with_ack and send_blocking_, the socket, and the get area with     *)
(* underflow and putback.  The writer is an ext_process's parent, the      *)
(* reader a child that answers every byte with one on a pipe of its own,   *)
(* which the writer reads when it is not inside send_blocking_.            *)
(***************************************************************************)
EXTENDS Integers, Sequences, SequencesExt

CONSTANTS
  Chars,      \* bytes
  FF,         \* the byte 0xFF
  OSize,      \* bufsiz, of the put area
  Chunk,      \* the 512 bytes of one write()
  Cap,        \* bytes that fit in the socket
  Back,       \* putbackarea
  Room,       \* bufsiz - putbackarea: what one read() may bring
  AnswerCap,  \* bytes that fit in the socket of the answers
  MaxPut,     \* bound: bytes put into the stream in one life of the child
  Lives       \* bound: children, one after the other

ASSUME StreamAssumption ==
  /\ {OSize, Chunk, Cap, Back, Room, AnswerCap} \subseteq Nat \ {0}
  /\ FF \in Chars

VARIABLES
  obuf,       \* o_buf from pbase() to pptr()
  sending,    \* the writer is inside send_blocking_
  len,        \* its len: bytes of obuf already written
  broken,     \* broken_ of the opipe
  net,        \* bytes in the socket
  rend,       \* the reader holds its end
  mem,        \* i_buf
  eback, gptr, egptr,
  reading,    \* the reader is in its receiver
  dirty,      \* a read() has brought nothing, in this life
  put,        \* bytes put since the socket was opened, and what o_buf held then
  got,        \* bytes the reader has taken
  answered,   \* bytes it has answered
  heard,      \* answers the writer has read
  lost,       \* bytes were dropped in this life
  life        \* children so far

writerVars == <<obuf, sending, len, broken, heard, lost, life>>
readerVars == <<mem, eback, gptr, egptr, reading, dirty, got, answered>>
vars == <<writerVars, readerVars, net, rend, put>>

Least(a, b) == IF a < b THEN a ELSE b
Unread == [i \in 1..(egptr - gptr) |-> mem[gptr + i - 1]]
Unsent == SubSeq(obuf, len + 1, Len(obuf))

StreamTypeOK ==
  /\ obuf \in Seq(Chars) /\ Len(obuf) <= OSize
  /\ sending \in BOOLEAN /\ broken \in BOOLEAN /\ len \in 0..OSize
  /\ net \in Seq(Chars) /\ Len(net) <= Cap /\ rend \in BOOLEAN
  /\ mem \in [0..(Back + Room - 1) -> Chars]
  /\ 0 <= eback /\ eback <= gptr /\ gptr <= egptr /\ egptr <= Back + Room
  /\ reading \in BOOLEAN /\ dirty \in BOOLEAN
  /\ put \in Seq(Chars) /\ got \in Seq(Chars)
  /\ answered - heard \in 0..AnswerCap
  /\ sending => len < Len(obuf) /\ ~broken
  /\ ~sending => len = 0 /\ Len(obuf) < OSize

(* The i_buf of a pipebuf just constructed, never written. *)
Blank == [i \in 0..(Back + Room - 1) |-> FF]

Init ==
  /\ obuf = <<>> /\ sending = FALSE /\ len = 0 /\ broken = FALSE
  /\ net = <<>> /\ rend = TRUE /\ put = <<>>
  /\ heard = 0 /\ lost = FALSE /\ life = 1
  /\ mem = Blank /\ eback = Back /\ gptr = Back /\ egptr = Back
  /\ reading = FALSE /\ dirty = FALSE /\ got = <<>> /\ answered = 0

-----------------------------------------------------------------------------
(* The writer.                                                             *)

(* flushbuffer(): send_with_ack() drops the data when the pipe is broken;  *)
(* otherwise the writer is inside send_blocking_ until all is written.     *)
Send(data) ==
  /\ obuf' = IF broken THEN <<>> ELSE data
  /\ sending' = ~broken
  /\ lost' = (lost \/ broken)

OverflowLate(c) == Len(obuf) = OSize       \* mutant: setp(o_buf, o_buf+bufsiz)

(* sputc() of byte c: there is one place for it behind epptr().            *)
Overflow(c) == Len(obuf) = OSize - 1

Put(c) ==
  /\ ~sending /\ Len(put) < MaxPut
  /\ put' = Append(put, c)
  /\ IF Overflow(c) THEN Send(Append(obuf, c))
     ELSE /\ obuf' = Append(obuf, c)
          /\ UNCHANGED <<sending, lost>>
  /\ UNCHANGED <<len, broken, heard, life, readerVars, net, rend>>

(* std::flush: sync(). *)
Flush ==
  /\ ~sending /\ obuf # <<>>
  /\ Send(obuf)
  /\ UNCHANGED <<len, broken, heard, life, readerVars, net, rend, put>>

WriteOnce ==                               \* mutant: one write(), no loop around it
  /\ sending /\ rend
  /\ \E n \in 1..Least(Least(Chunk, Len(obuf)), Cap - Len(net)) : net' = net \o SubSeq(obuf, 1, n)
  /\ sending' = FALSE /\ obuf' = <<>>
  /\ UNCHANGED <<len, broken, heard, lost, life, readerVars, rend, put>>

(* One write(): it takes some of the chunk, or blocks while there is no    *)
(* room.  After the last byte pbump(-length).                              *)
Write ==
  /\ sending /\ rend
  /\ \E n \in 1..Least(Least(Chunk, Len(obuf) - len), Cap - Len(net)) :
       /\ net' = net \o SubSeq(obuf, len + 1, len + n)
       /\ sending' = (len + n < Len(obuf))
       /\ len' = IF sending' THEN len + n ELSE 0
       /\ obuf' = IF sending' THEN obuf ELSE <<>>
  /\ UNCHANGED <<broken, heard, lost, life, readerVars, rend, put>>

WriteSpins == sending /\ ~rend /\ UNCHANGED vars  \* mutant: every error is tried again

(* EPIPE: send_blocking_ returns -1, which is not false: no exception, and *)
(* the rest is dropped.                                                    *)
WriteFails ==
  /\ sending /\ ~rend
  /\ sending' = FALSE /\ len' = 0 /\ obuf' = <<>>
  /\ lost' = TRUE
  /\ UNCHANGED <<broken, heard, life, readerVars, net, rend, put>>

(* The receiver for the answers. *)
Hear ==
  /\ ~sending
  /\ heard < answered
  /\ heard' = answered
  /\ UNCHANGED <<obuf, sending, len, broken, lost, life, readerVars, net, rend, put>>

(* terminate(), then fork(): o_buf is left as it is.                       *)
Close ==
  /\ ~sending /\ ~broken
  /\ broken' = TRUE
  /\ UNCHANGED <<obuf, sending, len, heard, lost, life, readerVars, net, rend, put>>

Reopen ==
  /\ ~sending /\ broken /\ life < Lives
  /\ life' = life + 1
  /\ broken' = FALSE /\ net' = <<>> /\ rend' = TRUE
  /\ put' = obuf /\ lost' = FALSE /\ heard' = 0
  /\ mem' = Blank /\ eback' = Back /\ gptr' = Back /\ egptr' = Back
  /\ reading' = FALSE /\ dirty' = FALSE /\ got' = <<>> /\ answered' = 0
  /\ UNCHANGED <<obuf, sending, len>>

-----------------------------------------------------------------------------
(* The reader.                                                             *)

Answering == answered < Len(got)

Select ==
  /\ rend /\ ~reading /\ net # <<>>
  /\ reading' = TRUE
  /\ UNCHANGED <<writerVars, net, rend, put, mem, eback, gptr, egptr, dirty, got, answered>>

(* sbumpc() with gptr() < egptr().                                         *)
Get ==
  /\ reading /\ ~Answering
  /\ gptr < egptr
  /\ got' = Append(got, mem[gptr])
  /\ gptr' = gptr + 1
  /\ UNCHANGED <<writerVars, net, rend, put, mem, eback, egptr, reading, dirty, answered>>

(* numPutback *)
Kept == Least(gptr - eback, Back)

MovedFront ==                              \* mutant: memcpy(i_buf, gptr()-numPutback, numPutback)
  [i \in DOMAIN mem |-> IF i < Kept THEN mem[gptr - Kept + i] ELSE mem[i]]

(* memcpy() of the bytes before gptr() to the front of the area a read     *)
(* fills; the regions may overlap, and are copied as if they did not.      *)
Moved ==
  [i \in DOMAIN mem |-> IF i \in (Back - Kept)..(Back - 1) THEN mem[gptr - Back + i] ELSE mem[i]]

ReturnedLast(n) == net[n] # FF             \* mutant: the last byte of the chunk is returned

(* underflow() returns the first byte as a char: 0xFF is EOF, and the      *)
(* receiver leaves with a chunk it has not looked at.                      *)
Returned(n) == net[1] # FF

(* underflow() with nothing left: a read() that brings n bytes.            *)
Underflow ==
  /\ reading /\ ~Answering
  /\ gptr = egptr /\ net # <<>>
  /\ LET n == Least(Room, Len(net))
     IN /\ mem' = [i \in DOMAIN mem |-> IF i \in Back..(Back + n - 1)
                                        THEN net[i - Back + 1] ELSE Moved[i]]
        /\ eback' = Back - Kept /\ gptr' = Back /\ egptr' = Back + n
        /\ net' = SubSeq(net, n + 1, Len(net))
        /\ reading' = Returned(n)
  /\ UNCHANGED <<writerVars, rend, put, dirty, got, answered>>

(* underflow() with a read() that fails: the bytes have been moved, the    *)
(* pointers have not.  The receiver clears the stream and leaves.          *)
UnderflowFails ==
  /\ reading /\ ~Answering
  /\ gptr = egptr /\ net = <<>>
  /\ mem' = Moved
  /\ dirty' = TRUE /\ reading' = FALSE
  /\ UNCHANGED <<writerVars, net, rend, put, eback, gptr, egptr, got, answered>>

(* unget(): sungetc() with eback() < gptr().  The reader does not go back  *)
(* to bytes that a failed read may have overwritten; the readers in this   *)
(* repository take back the last byte only.                                *)
Unget ==
  /\ reading /\ ~Answering
  /\ eback < gptr /\ got # <<>>
  /\ dirty => Back < gptr
  /\ gptr' = gptr - 1
  /\ got' = Front(got)
  /\ UNCHANGED <<writerVars, net, rend, put, mem, eback, egptr, reading, dirty, answered>>

(* The answer to the last byte; blocks while there is no room.             *)
Answer ==
  /\ rend /\ Answering
  /\ answered - heard < AnswerCap
  /\ answered' = answered + 1
  /\ UNCHANGED <<writerVars, net, rend, put, mem, eback, gptr, egptr, reading, dirty, got>>

ReaderEnds ==
  /\ rend
  /\ rend' = FALSE /\ net' = <<>> /\ reading' = FALSE
  /\ lost' = TRUE
  /\ UNCHANGED <<obuf, sending, len, broken, heard, life,
                 put, mem, eback, gptr, egptr, dirty, got, answered>>

-----------------------------------------------------------------------------
Writer == Write \/ WriteFails \/ Hear
Reader == Select \/ Get \/ Underflow \/ UnderflowFails \/ Answer

Next ==
  \/ \E c \in Chars : Put(c)
  \/ Flush \/ Writer \/ Close \/ Reopen
  \/ Reader \/ Unget \/ ReaderEnds

Spec == Init /\ [][Next]_vars

(* The kernel runs both programs; the writer's loop reads the answers and  *)
(* the reader's loop its input.  Nothing is owed by whoever puts bytes.    *)
FairSpec == Spec /\ WF_vars(Writer) /\ WF_vars(Reader)

-----------------------------------------------------------------------------
(* What the reader has, what lies in its get area and what is in the       *)
(* socket is always the beginning of what was put, whatever partial        *)
(* writes, broken pipes and dead readers did to the rest: a byte is never  *)
(* read twice, or after one that was lost.  While the reader is there and  *)
(* the pipe was never written to when it was closed, the rest is in o_buf. *)
(* What was in o_buf when the previous child was terminated counts as put: *)
(* the next child gets it first.                                           *)
NothingIsLost ==
  /\ IsPrefix(got \o Unread \o net, put)
  /\ ~lost => got \o Unread \o net \o Unsent = put

(* unget() gives back what was read: the bytes below gptr() are the last   *)
(* ones taken, as far as the last chunk reaches, and down to eback() as    *)
(* long as no read() has failed (that overwrites the bytes before it).     *)
PutbackIsTrue ==
  \A k \in 1..(gptr - (IF dirty THEN Back ELSE eback)) :
    k <= Len(got) => mem[gptr - k] = got[Len(got) - k + 1]

(* A receiver that has returned leaves nothing in the get area, where      *)
(* select() does not see it, except when a chunk begins with 0xFF.         *)
NothingIsStuck == ~reading /\ rend /\ gptr < egptr => gptr = Back /\ mem[gptr] = FF

(* send_blocking_ returns as long as what is under way fits in the two     *)
(* sockets and the hands of the reader; beyond that each program waits     *)
(* for the other to read.                                                  *)
Fits == Len(put) - heard <= Cap + AnswerCap + 1
SendReturns ==
  <>[][~Unget]_vars => ((sending /\ Fits) ~> ~sending)
=============================================================================
