---------------------------- MODULE Stream_proofs ----------------------------
(***************************************************************************)
(* Theorems about Stream, for any bytes, any sizes of the buffers and      *)
(* sockets, and any number of children.                                    *)
(***************************************************************************)
EXTENDS Stream, SequenceTheorems, TLAPS

Flow == got \o Unread \o net

(* The get area lies in i_buf. *)
Area ==
  /\ mem \in [0..(Back + Room - 1) -> Chars]
  /\ eback \in Nat /\ gptr \in Nat /\ egptr \in Nat
  /\ eback <= gptr /\ gptr <= egptr /\ egptr <= Back + Room /\ eback <= Back
  /\ reading \in BOOLEAN /\ dirty \in BOOLEAN

(* The put area, and what is on its way: what was put is what has gone     *)
(* through and some rest, which is that in o_buf as long as nothing has    *)
(* been lost; when something has, nothing more can be written.             *)
Queues ==
  /\ obuf \in Seq(Chars) /\ len \in 0..Len(obuf)
  /\ net \in Seq(Chars) /\ got \in Seq(Chars) /\ put \in Seq(Chars)
  /\ sending => ~broken
  /\ ~sending => len = 0
  /\ lost => broken \/ ~rend
  /\ \E r \in Seq(Chars) : put = Flow \o r /\ (~lost => r = Unsent)

StreamInv == Area /\ PutbackIsTrue /\ NothingIsStuck /\ Queues

-----------------------------------------------------------------------------
(* Sequences.                                                              *)
LEMMA FunctionIsSeq ==
  ASSUME NEW S, NEW n \in Nat, NEW f \in [1..n -> S] PROVE f \in Seq(S) /\ Len(f) = n
<1>1. f \in Seq(S)
  BY SeqDef
<1> QED
  BY <1>1

LEMMA Beginning ==
  ASSUME NEW S, NEW s \in Seq(S), NEW t \in Seq(S) PROVE IsPrefix(s, s \o t)
<1>1. /\ s \o t \in Seq(S) /\ Len(s \o t) = Len(s) + Len(t)
      /\ \A i \in 1..Len(s) : (s \o t)[i] = s[i]
  BY ConcatProperties
<1>2. Len(s) \in Nat /\ Len(t) \in Nat /\ \A i \in 1..Len(s) : s[i] \in S
  OBVIOUS
<1>3. Len(s) <= Len(s \o t)
  BY <1>1, <1>2
<1> DEFINE n == Len(s) w == s \o t
<1>4. \A i \in 1..n : w[i] = s[i] /\ s[i] \in S /\ w[i] \in S
  BY <1>1, <1>2
<1>5. /\ SubSeq(s, 1, n) \in Seq(S) /\ Len(SubSeq(s, 1, n)) = IF 1 <= n THEN n - 1 + 1 ELSE 0
      /\ \A i \in 1..(n - 1 + 1) : SubSeq(s, 1, n)[i] = s[1 + i - 1]
  <2> HIDE DEF n
  <2>1. n \in Int /\ 1 \in Int
    BY <1>2 DEF n
  <2> QED
    BY ONLY <1>4, <2>1, SubSeqProperties
<1>6. /\ SubSeq(w, 1, n) \in Seq(S) /\ Len(SubSeq(w, 1, n)) = IF 1 <= n THEN n - 1 + 1 ELSE 0
      /\ \A i \in 1..(n - 1 + 1) : SubSeq(w, 1, n)[i] = w[1 + i - 1]
  <2> HIDE DEF n, w
  <2>1. n \in Int /\ 1 \in Int
    BY <1>2 DEF n
  <2> QED
    BY ONLY <1>4, <2>1, SubSeqProperties
<1>7. SubSeq(s, 1, n) = SubSeq(w, 1, n)
  <2> HIDE DEF n, w
  <2>1. \A i \in 1..n : i \in 1..(n - 1 + 1) /\ 1 + i - 1 = i
    BY <1>2 DEF n
  <2>2. \A i \in 1..n : SubSeq(s, 1, n)[i] = SubSeq(w, 1, n)[i]
    BY <1>4, <1>5, <1>6, <2>1
  <2>3. n \in Nat
    BY <1>2 DEF n
  <2>4. Len(SubSeq(s, 1, n)) = n /\ Len(SubSeq(w, 1, n)) = n
    BY <1>5, <1>6, <2>3
  <2>5. \A i \in 1..Len(SubSeq(s, 1, n)) : SubSeq(s, 1, n)[i] = SubSeq(w, 1, n)[i]
    BY <2>2, <2>4
  <2> QED
    BY ONLY <1>5, <1>6, <2>4, <2>5, SeqEqual
<1> QED
  BY <1>3, <1>7 DEF IsPrefix

LEMMA FrontIs ==
  ASSUME NEW S, NEW s \in Seq(S), s # <<>>
  PROVE  Front(s) \in Seq(S) /\ Len(Front(s)) = Len(s) - 1
         /\ \A i \in 1..(Len(s) - 1) : Front(s)[i] = s[i]
<1> DEFINE n == Len(s) - 1
<1>1. n \in Nat /\ \A i \in 1..n : s[i] \in S
  <2>1. Len(s) \in Nat /\ Len(s) # 0
    OBVIOUS
  <2> QED
    BY <2>1
<1>2. Front(s) = SubSeq(s, 1, n)
  BY DEF Front
<1> HIDE DEF n
<1>3. /\ SubSeq(s, 1, n) \in Seq(S) /\ Len(SubSeq(s, 1, n)) = IF 1 <= n THEN n - 1 + 1 ELSE 0
      /\ \A i \in 1..(n - 1 + 1) : SubSeq(s, 1, n)[i] = s[1 + i - 1]
  BY ONLY <1>1, SubSeqProperties
<1>4. SubSeq(s, 1, n) \in Seq(S) /\ Len(SubSeq(s, 1, n)) = n
  BY ONLY <1>1, <1>3
<1>5. ASSUME NEW i \in 1..n PROVE SubSeq(s, 1, n)[i] = s[i]
  <2>1. i \in 1..(n - 1 + 1) /\ 1 + i - 1 = i
    BY ONLY <1>1, <1>5
  <2> QED
    BY <1>3, <2>1
<1> QED
  BY <1>2, <1>4, <1>5 DEF n

(* A sequence is what is up to a place and what is behind it. *)
LEMMA CutInTwo ==
  ASSUME NEW S, NEW s \in Seq(S), NEW n \in 0..Len(s)
  PROVE  /\ SubSeq(s, 1, n) \in Seq(S) /\ SubSeq(s, n + 1, Len(s)) \in Seq(S)
         /\ SubSeq(s, 1, n) \o SubSeq(s, n + 1, Len(s)) = s
<1>1. Len(s) \in Nat /\ 1 \in 1..(Len(s) + 1) /\ n \in (1 - 1)..Len(s) /\ Len(s) \in n..Len(s)
  OBVIOUS
<1>2. SubSeq(s, 1, n) \o SubSeq(s, n + 1, Len(s)) = SubSeq(s, 1, Len(s))
  <2> DEFINE k == Len(s)
  <2> HIDE DEF k
  <2>1. 1 \in 1..(k + 1) /\ n \in (1 - 1)..k /\ k \in n..k
    BY <1>1 DEF k
  <2>2. s \in Seq(S) /\ k = Len(s)
    BY DEF k
  <2> QED
    BY ONLY <2>1, <2>2, ConcatAdjacentSubSeq
<1>3. SubSeq(s, 1, Len(s)) = s
  BY SubSeqFull
<1>4. SubSeq(s, 1, n) \in Seq(S)
  OBVIOUS
<1>5. SubSeq(s, n + 1, Len(s)) \in Seq(S)
  OBVIOUS
<1> QED
  BY <1>2, <1>3, <1>4, <1>5

(* The byte between two sequences belongs to either. *)
LEMMA HandOver ==
  ASSUME NEW S, NEW c \in S, NEW s \in Seq(S), NEW t \in Seq(S)
  PROVE  Append(s, c) \in Seq(S) /\ <<c>> \o t \in Seq(S) /\ Append(s, c) \o t = s \o (<<c>> \o t)
<1>1. <<c>> \in Seq(S)
  OBVIOUS
<1>2. Append(s, c) = s \o <<c>>
  BY AppendIsConcat
<1>3. (s \o <<c>>) \o t = s \o (<<c>> \o t)
  BY ONLY <1>1, s \in Seq(S), t \in Seq(S), ConcatAssociative
<1> QED
  BY <1>1, <1>2, <1>3

-----------------------------------------------------------------------------
(* The get area.                                                           *)
LEMMA PartOfArea ==
  ASSUME NEW m \in [0..(Back + Room - 1) -> Chars], NEW g \in Nat, NEW e \in Nat,
         g <= e, e <= Back + Room, NEW u, u = [i \in 1..(e - g) |-> m[g + i - 1]]
  PROVE  u \in Seq(Chars) /\ Len(u) = e - g /\ \A i \in 1..(e - g) : u[i] = m[g + i - 1]
<1> DEFINE n == e - g
<1>1. n \in Nat
  OBVIOUS
<1>2. \A i \in 1..n : g + i - 1 \in 0..(Back + Room - 1)
  BY StreamAssumption
<1>3. u \in [1..n -> Chars] /\ \A i \in 1..n : u[i] = m[g + i - 1]
  BY <1>2
<1>4. u \in Seq(Chars) /\ Len(u) = n
  <2> HIDE DEF n
  <2> QED
    BY ONLY <1>1, <1>3, FunctionIsSeq
<1> QED
  BY <1>3, <1>4

LEMMA UnreadIs ==
  ASSUME Area
  PROVE  /\ Unread \in Seq(Chars) /\ Len(Unread) = egptr - gptr
         /\ \A i \in 1..(egptr - gptr) : Unread[i] = mem[gptr + i - 1]
<1>1. /\ mem \in [0..(Back + Room - 1) -> Chars] /\ gptr \in Nat /\ egptr \in Nat
      /\ gptr <= egptr /\ egptr <= Back + Room
  BY DEF Area
<1>2. Unread = [i \in 1..(egptr - gptr) |-> mem[gptr + i - 1]]
  BY DEF Unread
<1> QED
  BY <1>1, <1>2, PartOfArea

LEMMA UnreadAfter ==
  ASSUME Area'
  PROVE  /\ Unread' \in Seq(Chars) /\ Len(Unread') = egptr' - gptr'
         /\ \A i \in 1..(egptr' - gptr') : Unread'[i] = mem'[gptr' + i - 1]
<1>1. /\ mem' \in [0..(Back + Room - 1) -> Chars] /\ gptr' \in Nat /\ egptr' \in Nat
      /\ gptr' <= egptr' /\ egptr' <= Back + Room
  BY DEF Area
<1>2. Unread' = [i \in 1..(egptr' - gptr') |-> mem'[gptr' + i - 1]]
  BY DEF Unread
<1> QED
  BY <1>1, <1>2, PartOfArea

LEMMA KeptIs ==
  ASSUME Area PROVE Kept \in 0..Back /\ Kept <= gptr - eback
<1>1. Back \in Nat /\ gptr - eback \in Nat
  BY StreamAssumption DEF Area
<1> QED
  BY <1>1 DEF Kept, Least

LEMMA MovedIs ==
  ASSUME Area
  PROVE  /\ Moved \in [0..(Back + Room - 1) -> Chars]
         /\ \A k \in 1..Kept : Moved[Back - k] = mem[gptr - k]
         /\ \A i \in Back..(Back + Room - 1) : Moved[i] = mem[i]
<1>1. Kept \in 0..Back /\ Kept <= gptr - eback
  BY KeptIs
<1>2. Back \in Nat \ {0} /\ Room \in Nat \ {0}
  BY StreamAssumption
<1>3. DOMAIN mem = 0..(Back + Room - 1)
  BY DEF Area
<1>4. \A i \in (Back - Kept)..(Back - 1) : gptr - Back + i \in 0..(Back + Room - 1)
  BY <1>1, <1>2 DEF Area
<1>5. Moved \in [0..(Back + Room - 1) -> Chars]
  BY <1>3, <1>4 DEF Moved, Area
<1>6. \A k \in 1..Kept : /\ Back - k \in (Back - Kept)..(Back - 1)
                         /\ Back - k \in 0..(Back + Room - 1)
                         /\ gptr - Back + (Back - k) = gptr - k
  BY <1>1, <1>2 DEF Area
<1>7. \A i \in Back..(Back + Room - 1) : i \in 0..(Back + Room - 1)
                                         /\ i \notin (Back - Kept)..(Back - 1)
  BY <1>1, <1>2
<1> QED
  BY <1>3, <1>5, <1>6, <1>7 DEF Moved

-----------------------------------------------------------------------------
(* A step that leaves alone what the reader has, what is on its way and    *)
(* what was put.                                                           *)
LEMMA FlowStays ==
  ASSUME Queues, Unread' = Unread, UNCHANGED <<got, net, put, obuf, len>>,
         lost => lost', sending' => ~broken', ~sending' => len' = 0,
         lost' => broken' \/ ~rend'
  PROVE  Queues'
<1>1. PICK r \in Seq(Chars) : put = Flow \o r /\ (~lost => r = Unsent)
  BY DEF Queues
<1>2. Flow' = Flow /\ Unsent' = Unsent
  BY DEF Flow, Unsent
<1>3. put' = Flow' \o r /\ (~lost' => r = Unsent')
  BY <1>1, <1>2
<1>4. \E q \in Seq(Chars) : put' = Flow' \o q /\ (~lost' => q = Unsent')
  BY <1>3
<1> QED
  BY <1>4 DEF Queues

(* A step that leaves the get area alone. *)
LEMMA AreaStays ==
  ASSUME Area, PutbackIsTrue, NothingIsStuck,
         UNCHANGED <<mem, eback, gptr, egptr, dirty, got>>,
         UNCHANGED reading \/ reading' = TRUE \/ rend' = FALSE,
         reading' \in BOOLEAN, UNCHANGED rend \/ rend' = FALSE
  PROVE  Area' /\ PutbackIsTrue' /\ NothingIsStuck' /\ Unread' = Unread
<1>1. Area'
  BY DEF Area
<1>2. PutbackIsTrue'
  BY DEF PutbackIsTrue
<1>3. NothingIsStuck'
  BY DEF NothingIsStuck
<1> QED
  BY <1>1, <1>2, <1>3 DEF Unread

LEMMA FlowIsSeq ==
  ASSUME Area, Queues PROVE Flow \in Seq(Chars) /\ got \o Unread \in Seq(Chars)
<1>1. Unread \in Seq(Chars) /\ got \in Seq(Chars) /\ net \in Seq(Chars)
  BY UnreadIs DEF Queues
<1> QED
  BY <1>1 DEF Flow

(* With nothing written of it, what has not been sent is all of o_buf. *)
LEMMA UnsentIsAll == ASSUME Queues, len = 0 PROVE Unsent = obuf
BY SubSeqFull DEF Unsent, Queues

LEMMA QueueFacts ==
  ASSUME StreamInv
  PROVE  /\ obuf \in Seq(Chars) /\ len \in 0..Len(obuf)
         /\ net \in Seq(Chars) /\ got \in Seq(Chars) /\ put \in Seq(Chars)
         /\ sending => ~broken
         /\ ~sending => len = 0
         /\ lost => broken \/ ~rend
BY DEF StreamInv, Queues

LEMMA InitInv == Init => StreamInv
<1> SUFFICES ASSUME Init PROVE StreamInv
  OBVIOUS
<1>0. Back \in Nat \ {0} /\ Room \in Nat \ {0} /\ FF \in Chars
  BY StreamAssumption
<1>1. Area
  <2>1. mem \in [0..(Back + Room - 1) -> Chars]
    BY <1>0 DEF Init, Blank
  <2>2. eback = Back /\ gptr = Back /\ egptr = Back /\ reading = FALSE /\ dirty = FALSE
    BY DEF Init
  <2>3. /\ eback \in Nat /\ gptr \in Nat /\ egptr \in Nat
        /\ eback <= gptr /\ gptr <= egptr /\ egptr <= Back + Room /\ eback <= Back
    BY <1>0, <2>2
  <2>4. reading \in BOOLEAN /\ dirty \in BOOLEAN
    BY <2>2
  <2> QED
    BY <2>1, <2>3, <2>4 DEF Area
<1>2. PutbackIsTrue /\ NothingIsStuck
  <2>1. gptr - Back = 0 /\ gptr - eback = 0 /\ ~(gptr < egptr)
    BY <1>0 DEF Init
  <2>2. \A k \in 1..0 : FALSE
    OBVIOUS
  <2>3. gptr - (IF dirty THEN Back ELSE eback) = 0
    BY <2>1
  <2>4. PutbackIsTrue
    BY <2>2, <2>3 DEF PutbackIsTrue
  <2> QED
    BY <2>1, <2>4 DEF NothingIsStuck
<1>3. Unread \in Seq(Chars) /\ Len(Unread) = 0
  <2>1. egptr - gptr = 0
    BY <1>0 DEF Init
  <2> QED
    BY <1>1, <2>1, UnreadIs
<1>4. Unread = <<>>
  BY <1>3
<1>5. Flow = <<>> /\ Unsent = <<>> /\ <<>> \in Seq(Chars) /\ <<>> \o <<>> = <<>>
  BY <1>4 DEF Init, Flow, Unsent
<1>6. \E r \in Seq(Chars) : put = Flow \o r /\ (~lost => r = Unsent)
  BY <1>5 DEF Init
<1>7. Queues
  <2>1. obuf = <<>> /\ len = 0 /\ net = <<>> /\ got = <<>> /\ put = <<>> /\ ~sending /\ ~lost
    BY DEF Init
  <2>2. len \in 0..Len(obuf)
    BY <2>1
  <2> QED
    BY <1>5, <1>6, <2>1, <2>2 DEF Queues
<1> QED
  BY <1>1, <1>2, <1>7 DEF StreamInv

-----------------------------------------------------------------------------
(* The writer.                                                             *)
LEMMA PutInv == ASSUME StreamInv, NEW c \in Chars, Put(c) PROVE StreamInv'
<1>1. Area' /\ PutbackIsTrue' /\ NothingIsStuck' /\ Unread' = Unread
  BY AreaStays DEF StreamInv, Put, readerVars, Area
<1>2. PICK r \in Seq(Chars) : put = Flow \o r /\ (~lost => r = Unsent)
  BY DEF StreamInv, Queues
<1>3. Flow' = Flow /\ Flow \in Seq(Chars)
  BY <1>1, FlowIsSeq DEF StreamInv, Flow, Put, readerVars
<1>4. put' = Append(put, c) /\ put' \in Seq(Chars)
  BY DEF Put, StreamInv, Queues
<1>5. Append(r, c) \in Seq(Chars) /\ put' = Flow' \o Append(r, c)
  <2>1. <<c>> \in Seq(Chars)
    OBVIOUS
  <2>2. put' = put \o <<c>> /\ Append(r, c) = r \o <<c>>
    BY <1>4, AppendIsConcat DEF StreamInv, Queues
  <2>3. (Flow \o r) \o <<c>> = Flow \o (r \o <<c>>)
    BY ONLY <1>2, <1>3, <2>1, ConcatAssociative
  <2> QED
    BY <1>2, <1>3, <2>1, <2>2, <2>3
<1>6. /\ obuf' = Append(obuf, c) \/ (obuf' = <<>> /\ lost' = TRUE)
      /\ (lost => lost') /\ (lost' => lost \/ broken) /\ (sending' => ~broken)
  BY DEF Put, Send, StreamInv, Queues
<1>7. len = 0 /\ len' = 0 /\ UNCHANGED <<broken, rend, net, got>> /\ obuf \in Seq(Chars)
  BY QueueFacts DEF Put, readerVars
<1>8. obuf' \in Seq(Chars)
  <2>1. CASE obuf' = Append(obuf, c)
    BY <1>7, <2>1
  <2>2. CASE obuf' = <<>>
    BY <2>2
  <2> QED
    BY <1>6, <2>1, <2>2
<1>9. ASSUME ~lost' PROVE Append(r, c) = Unsent'
  <2>1. obuf' = Append(obuf, c) /\ ~lost
    BY <1>6, <1>9
  <2>2. r = obuf
    BY <1>2, <1>7, <2>1, UnsentIsAll DEF StreamInv
  <2>3. Unsent' = obuf'
    BY <1>7, <1>8, SubSeqFull DEF Unsent
  <2> QED
    BY <2>1, <2>2, <2>3
<1>10. \E q \in Seq(Chars) : put' = Flow' \o q /\ (~lost' => q = Unsent')
  BY <1>5, <1>9
<1>11. Queues'
  <2>1. len' \in 0..Len(obuf')
    BY <1>7, <1>8
  <2>2. net' \in Seq(Chars) /\ got' \in Seq(Chars) /\ (broken' <=> broken) /\ (rend' <=> rend)
    BY <1>7, QueueFacts
  <2>3. (sending' => ~broken') /\ (lost' => broken' \/ ~rend')
    <3>1. lost => broken \/ ~rend
      BY QueueFacts
    <3> QED
      BY <1>6, <2>2, <3>1, Zenon
  <2> QED
    BY <1>4, <1>7, <1>8, <1>10, <2>1, <2>2, <2>3 DEF Queues
<1> QED
  BY <1>1, <1>11 DEF StreamInv

LEMMA FlushInv == ASSUME StreamInv, Flush PROVE StreamInv'
<1>1. Area' /\ PutbackIsTrue' /\ NothingIsStuck' /\ Unread' = Unread
  BY AreaStays DEF StreamInv, Flush, readerVars, Area
<1>2. CASE ~broken
  <2>1. Queues'
    <3>1. UNCHANGED <<got, net, put, obuf, len, broken, rend>> /\ len = 0
      BY <1>2, QueueFacts DEF Flush, Send, readerVars
    <3>2. lost => ~rend
      BY <1>2, QueueFacts
    <3>3. (lost => lost') /\ (lost' => lost)
      BY <1>2 DEF Flush, Send
    <3> QED
      BY <1>1, <1>2, <3>1, <3>2, <3>3, FlowStays DEF StreamInv
  <2> QED
    BY <1>1, <2>1 DEF StreamInv
<1>3. CASE broken
  <2>1. PICK r \in Seq(Chars) : put = Flow \o r
    BY DEF StreamInv, Queues
  <2>2. Flow' = Flow /\ put' = put /\ lost' = TRUE
    BY <1>1, <1>3 DEF Flow, Flush, Send, readerVars, StreamInv, Queues
  <2>3. \E q \in Seq(Chars) : put' = Flow' \o q /\ (~lost' => q = Unsent')
    BY <2>1, <2>2
  <2>4. len' = 0 /\ obuf' = <<>> /\ ~sending' /\ broken' /\ UNCHANGED <<net, got>>
    BY <1>3, QueueFacts DEF Flush, Send, readerVars
  <2>5. obuf' \in Seq(Chars) /\ len' \in 0..Len(obuf') /\ net' \in Seq(Chars)
        /\ got' \in Seq(Chars) /\ put' \in Seq(Chars)
    BY <2>2, <2>4, QueueFacts
  <2>6. Queues'
    BY <2>3, <2>4, <2>5 DEF Queues
  <2> QED
    BY <1>1, <2>6 DEF StreamInv
<1> QED
  BY <1>2, <1>3

LEMMA WriteInv == ASSUME StreamInv, Write PROVE StreamInv'
<1>1. Area' /\ PutbackIsTrue' /\ NothingIsStuck' /\ Unread' = Unread
  BY AreaStays DEF StreamInv, Write, readerVars, Area
<1>2. PICK n \in 1..Least(Least(Chunk, Len(obuf) - len), Cap - Len(net)) :
        /\ net' = net \o SubSeq(obuf, len + 1, len + n)
        /\ sending' = (len + n < Len(obuf))
        /\ len' = IF sending' THEN len + n ELSE 0
        /\ obuf' = IF sending' THEN obuf ELSE <<>>
  BY DEF Write
<1>3. len + n \in len..Len(obuf) /\ len \in Nat /\ len + n \in Nat
  <2>1. Chunk \in Nat /\ Cap \in Nat /\ Len(obuf) \in Nat /\ Len(net) \in Nat /\ len \in 0..Len(obuf)
    BY StreamAssumption DEF StreamInv, Queues
  <2>2. n \in Nat /\ n <= Len(obuf) - len
    <3>1. Least(Chunk, Len(obuf) - len) <= Len(obuf) - len /\ Least(Chunk, Len(obuf) - len) \in Int
      BY <2>1 DEF Least
    <3>2. Least(Least(Chunk, Len(obuf) - len), Cap - Len(net)) <= Least(Chunk, Len(obuf) - len)
          /\ Least(Least(Chunk, Len(obuf) - len), Cap - Len(net)) \in Int
      BY <2>1, <3>1 DEF Least
    <3> QED
      BY <2>1, <3>1, <3>2
  <2> QED
    BY <2>1, <2>2
<1>4. ~lost /\ ~broken /\ rend
  BY DEF StreamInv, Queues, Write
<1>5. UNCHANGED <<broken, lost, rend, put, got>>
  BY DEF Write, readerVars
<1> DEFINE a == SubSeq(obuf, len + 1, len + n)  b == SubSeq(obuf, len + n + 1, Len(obuf))
<1>6. a \in Seq(Chars) /\ b \in Seq(Chars) /\ a \o b = Unsent
  <2>1. obuf \in Seq(Chars) /\ Len(obuf) \in Nat
    BY DEF StreamInv, Queues
  <2>2. a \in Seq(Chars)
    BY <1>3, <2>1
  <2>3. b \in Seq(Chars)
    BY <1>3, <2>1
  <2>4. a \o b = Unsent
    <3> DEFINE m == len + 1  k == len + n  e == Len(obuf)
    <3>1. m \in 1..(Len(obuf) + 1) /\ k \in (m - 1)..Len(obuf) /\ e \in k..Len(obuf)
      BY <1>3, <2>1
    <3>2. SubSeq(obuf, m, k) \o SubSeq(obuf, k + 1, e) = SubSeq(obuf, m, e)
      <4> HIDE DEF m, k, e
      <4> QED
        BY ONLY <3>1, <2>1, ConcatAdjacentSubSeq
    <3> QED
      BY <3>2 DEF Unsent
  <2> QED
    BY <2>2, <2>3, <2>4
<1>7. put = Flow \o Unsent
  BY <1>4 DEF StreamInv, Queues
<1>8. net' = net \o a /\ net' \in Seq(Chars) /\ got \o Unread \in Seq(Chars) /\ net \in Seq(Chars)
  <2>1. got \o Unread \in Seq(Chars) /\ net \in Seq(Chars)
    BY FlowIsSeq DEF StreamInv, Queues
  <2> QED
    BY <1>2, <1>6, <2>1
<1>9. put' = Flow' \o b
  <2> DEFINE g == got \o Unread
  <2>1. Flow' = g \o (net \o a)
    BY <1>1, <1>5, <1>8 DEF Flow
  <2>2. put' = (g \o net) \o (a \o b)
    BY <1>5, <1>6, <1>7 DEF Flow
  <2>3. (g \o net) \o (a \o b) = (g \o (net \o a)) \o b
    <3> HIDE DEF g, a, b
    <3>1. g \in Seq(Chars) /\ net \in Seq(Chars) /\ a \in Seq(Chars) /\ b \in Seq(Chars)
      BY <1>6, <1>8 DEF g
    <3>2. g \o net \in Seq(Chars)
      BY ONLY <3>1, ConcatProperties
    <3> DEFINE h == g \o net
    <3> HIDE DEF h
    <3>3. (h \o a) \o b = h \o (a \o b)
      <4>1. h \in Seq(Chars) /\ a \in Seq(Chars) /\ b \in Seq(Chars)
        BY <3>1, <3>2 DEF h
      <4> QED
        BY ONLY <4>1, ConcatAssociative
    <3>4. (g \o net) \o a = g \o (net \o a)
      BY ONLY <3>1, ConcatAssociative
    <3> QED
      BY <3>3, <3>4 DEF h
  <2> QED
    BY <2>1, <2>2, <2>3
<1>10. b = Unsent'
  <2>1. CASE sending'
    BY <1>2, <2>1 DEF Unsent
  <2>2. CASE ~sending'
    <3>1. ~(len + n < Len(obuf)) /\ len' = 0 /\ obuf' = <<>>
      BY <1>2, <2>2
    <3>4. len + n = Len(obuf)
      BY <1>3, <3>1, QueueFacts
    <3>2. Unsent' = <<>>
      BY <3>1, SubSeqEmpty DEF Unsent
    <3>3. b = <<>>
      <4> DEFINE i == len + n + 1  e == Len(obuf)
      <4>1. i \in Int /\ e \in Int /\ e < i
        BY <1>3, <3>4
      <4> HIDE DEF i, e
      <4>2. SubSeq(obuf, i, e) = <<>>
        BY ONLY <4>1, SubSeqEmpty
      <4> QED
        BY <4>2 DEF i, e
    <3> QED
      BY <3>2, <3>3
  <2> QED
    BY <2>1, <2>2
<1>11. \E q \in Seq(Chars) : put' = Flow' \o q /\ (~lost' => q = Unsent')
  BY <1>6, <1>9, <1>10
<1>12. obuf' \in Seq(Chars) /\ len' \in 0..Len(obuf') /\ (~sending' => len' = 0)
  BY <1>2, <1>3 DEF StreamInv, Queues
<1>13. Queues'
  BY <1>4, <1>5, <1>8, <1>11, <1>12 DEF StreamInv, Queues
<1> QED
  BY <1>1, <1>13 DEF StreamInv

LEMMA WriteFailsInv == ASSUME StreamInv, WriteFails PROVE StreamInv'
<1>1. Area' /\ PutbackIsTrue' /\ NothingIsStuck' /\ Unread' = Unread
  BY AreaStays DEF StreamInv, WriteFails, readerVars, Area
<1>2. PICK r \in Seq(Chars) : put = Flow \o r
  BY DEF StreamInv, Queues
<1>3. Flow' = Flow /\ put' = put /\ lost' = TRUE
  BY <1>1 DEF Flow, WriteFails, readerVars
<1>4. \E q \in Seq(Chars) : put' = Flow' \o q /\ (~lost' => q = Unsent')
  BY <1>2, <1>3
<1>5. len' = 0 /\ obuf' = <<>> /\ ~sending' /\ ~rend' /\ UNCHANGED <<net, got>>
  BY DEF WriteFails, readerVars
<1>6. obuf' \in Seq(Chars) /\ len' \in 0..Len(obuf') /\ net' \in Seq(Chars)
      /\ got' \in Seq(Chars) /\ put' \in Seq(Chars)
  BY <1>3, <1>5, QueueFacts
<1>7. Queues'
  BY <1>4, <1>5, <1>6 DEF Queues
<1> QED
  BY <1>1, <1>7 DEF StreamInv

LEMMA HearInv == ASSUME StreamInv, Hear PROVE StreamInv'
<1>1. Area' /\ PutbackIsTrue' /\ NothingIsStuck' /\ Unread' = Unread
  BY AreaStays DEF StreamInv, Hear, readerVars, Area
<1>2. UNCHANGED <<got, net, put, obuf, len, sending, broken, lost, rend>>
  BY DEF Hear, readerVars
<1>3. Queues'
  BY <1>1, <1>2, QueueFacts, FlowStays DEF StreamInv
<1> QED
  BY <1>1, <1>3 DEF StreamInv

LEMMA CloseInv == ASSUME StreamInv, Close PROVE StreamInv'
<1>1. Area' /\ PutbackIsTrue' /\ NothingIsStuck' /\ Unread' = Unread
  BY AreaStays DEF StreamInv, Close, readerVars, Area
<1>2. UNCHANGED <<got, net, put, obuf, len, lost, rend>> /\ ~sending' /\ broken' /\ len = 0
  BY QueueFacts DEF Close, readerVars
<1>3. Queues'
  BY <1>1, <1>2, FlowStays DEF StreamInv
<1> QED
  BY <1>1, <1>3 DEF StreamInv

(* The next child gets what was left in o_buf. *)
LEMMA ReopenInv == ASSUME StreamInv, Reopen PROVE StreamInv'
<1>0. Back \in Nat \ {0} /\ Room \in Nat \ {0} /\ FF \in Chars
  BY StreamAssumption
<1>1. Area'
  <2>1. mem' \in [0..(Back + Room - 1) -> Chars]
    BY <1>0 DEF Reopen, Blank
  <2>2. eback' = Back /\ gptr' = Back /\ egptr' = Back /\ reading' = FALSE /\ dirty' = FALSE
    BY DEF Reopen
  <2>3. /\ eback' \in Nat /\ gptr' \in Nat /\ egptr' \in Nat
        /\ eback' <= gptr' /\ gptr' <= egptr' /\ egptr' <= Back + Room /\ eback' <= Back
    BY <1>0, <2>2
  <2>4. reading' \in BOOLEAN /\ dirty' \in BOOLEAN
    BY <2>2
  <2> QED
    BY <2>1, <2>3, <2>4 DEF Area
<1>2. PutbackIsTrue' /\ NothingIsStuck'
  <2>1. gptr' - Back = 0 /\ gptr' - eback' = 0 /\ ~(gptr' < egptr') /\ egptr' - gptr' = 0
    BY <1>0 DEF Reopen
  <2>2. \A k \in 1..0 : FALSE
    OBVIOUS
  <2>3. gptr' - (IF dirty' THEN Back ELSE eback') = 0
    BY <2>1
  <2>4. PutbackIsTrue'
    BY <2>2, <2>3 DEF PutbackIsTrue
  <2> QED
    BY <2>1, <2>4 DEF NothingIsStuck
<1>3. Unread' = <<>>
  <2>1. egptr' - gptr' = 0
    BY <1>0 DEF Reopen
  <2>2. Unread' = [i \in 1..0 |-> mem'[gptr' + i - 1]]
    BY <2>1 DEF Unread
  <2> QED
    BY <2>2
<1>4. got' = <<>> /\ net' = <<>> /\ put' = obuf /\ obuf' = obuf /\ len' = 0 /\ len = 0
      /\ ~sending' /\ ~lost' /\ obuf \in Seq(Chars)
  BY QueueFacts DEF Reopen
<1>5. Flow' = <<>>
  BY <1>3, <1>4 DEF Flow
<1>6. Unsent' = obuf
  BY <1>4, SubSeqFull DEF Unsent
<1>7. put' = Flow' \o obuf
  BY <1>4, <1>5, ConcatEmptySeq
<1>8. \E q \in Seq(Chars) : put' = Flow' \o q /\ (~lost' => q = Unsent')
  BY <1>4, <1>6, <1>7
<1>9. len' \in 0..Len(obuf') /\ net' \in Seq(Chars) /\ got' \in Seq(Chars)
  BY <1>4
<1>10. Queues'
  BY <1>4, <1>8, <1>9 DEF Queues
<1> QED
  BY <1>1, <1>2, <1>10 DEF StreamInv

-----------------------------------------------------------------------------
(* The reader.                                                             *)

(* A step that only hands bytes on inside the reader or to it. *)
LEMMA FlowIsKept ==
  ASSUME StreamInv, Flow' = Flow, got' \in Seq(Chars), net' \in Seq(Chars),
         UNCHANGED <<put, obuf, len, sending, broken, lost, rend>>
  PROVE  Queues'
<1>1. PICK r \in Seq(Chars) : put = Flow \o r /\ (~lost => r = Unsent)
  BY DEF StreamInv, Queues
<1>2. \E q \in Seq(Chars) : put' = Flow' \o q /\ (~lost' => q = Unsent')
  BY <1>1 DEF Unsent
<1>3. put' \in Seq(Chars) /\ obuf' \in Seq(Chars) /\ len' \in 0..Len(obuf')
      /\ (sending' => ~broken') /\ (~sending' => len' = 0) /\ (lost' => broken' \/ ~rend')
  BY QueueFacts
<1> QED
  BY <1>2, <1>3 DEF Queues

LEMMA TakeOne ==
  ASSUME NEW S, NEW c \in S, NEW s \in Seq(S), NEW t \in Seq(S), Len(s) = Len(t) + 1,
         s[1] = c, \A i \in 1..Len(t) : s[i + 1] = t[i]
  PROVE  s = <<c>> \o t
<1> DEFINE o == <<c>>
<1>1. o \in Seq(S) /\ Len(o) = 1 /\ o[1] = c
  OBVIOUS
<1>2. Len(t) \in Nat
  OBVIOUS
<1> HIDE DEF o
<1>3. /\ o \o t \in Seq(S) /\ Len(o \o t) = Len(o) + Len(t)
      /\ \A i \in 1..(Len(o) + Len(t)) : (o \o t)[i] = IF i <= Len(o) THEN o[i] ELSE t[i - Len(o)]
  BY <1>1, ConcatProperties
<1>4. ASSUME NEW i \in 1..Len(s) PROVE s[i] = (o \o t)[i]
  <2>1. CASE i = 1
    BY <1>1, <1>2, <1>3, <2>1
  <2>2. CASE i # 1
    <3>1. i - 1 \in 1..Len(t) /\ (i - 1) + 1 = i /\ i \in 1..(Len(o) + Len(t)) /\ ~(i <= Len(o))
      BY <1>1, <1>2, <2>2
    <3>2. s[i] = t[i - 1]
      BY <3>1
    <3>3. (o \o t)[i] = t[i - 1]
      BY <1>1, <1>3, <3>1
    <3> QED
      BY <3>2, <3>3
  <2> QED
    BY <2>1, <2>2
<1>5. Len(s) = Len(o \o t)
  BY <1>1, <1>2, <1>3
<1>6. s = o \o t
  BY <1>3, <1>4, <1>5, SeqEqual
<1> QED
  BY <1>6 DEF o

LEMMA SelectInv == ASSUME StreamInv, Select PROVE StreamInv'
<1>1. Area' /\ PutbackIsTrue' /\ NothingIsStuck' /\ Unread' = Unread
  BY AreaStays DEF StreamInv, Select
<1>2. UNCHANGED <<got, net, put, obuf, len, sending, broken, lost, rend>>
  BY DEF Select, writerVars
<1>3. Queues'
  BY <1>1, <1>2, QueueFacts, FlowStays DEF StreamInv
<1> QED
  BY <1>1, <1>3 DEF StreamInv

LEMMA AnswerInv == ASSUME StreamInv, Answer PROVE StreamInv'
<1>1. Area' /\ PutbackIsTrue' /\ NothingIsStuck' /\ Unread' = Unread
  BY AreaStays DEF StreamInv, Answer, Area
<1>2. UNCHANGED <<got, net, put, obuf, len, sending, broken, lost, rend>>
  BY DEF Answer, writerVars
<1>3. Queues'
  BY <1>1, <1>2, QueueFacts, FlowStays DEF StreamInv
<1> QED
  BY <1>1, <1>3 DEF StreamInv

LEMMA ReaderEndsInv == ASSUME StreamInv, ReaderEnds PROVE StreamInv'
<1>1. Area' /\ PutbackIsTrue' /\ NothingIsStuck' /\ Unread' = Unread
  BY AreaStays DEF StreamInv, ReaderEnds, Area
<1>2. PICK r \in Seq(Chars) : put = Flow \o r
  BY DEF StreamInv, Queues
<1>3. net' = <<>> /\ lost' = TRUE /\ ~rend' /\ UNCHANGED <<got, put, obuf, len, sending, broken>>
  BY DEF ReaderEnds
<1> DEFINE g == got \o Unread
<1>4. g \in Seq(Chars) /\ net \in Seq(Chars) /\ Flow = g \o net /\ Flow' = g \o <<>>
  BY <1>1, <1>3, FlowIsSeq, QueueFacts DEF StreamInv, Flow
<1> HIDE DEF g
<1>5. net \o r \in Seq(Chars) /\ put' = Flow' \o (net \o r)
  <2>1. Flow' = g
    BY <1>4, ConcatEmptySeq
  <2>2. (g \o net) \o r = g \o (net \o r)
    BY ONLY <1>2, <1>4, ConcatAssociative
  <2>3. net \o r \in Seq(Chars)
    BY <1>4, ConcatProperties
  <2> QED
    BY <1>2, <1>3, <1>4, <2>1, <2>2, <2>3
<1>6. \E q \in Seq(Chars) : put' = Flow' \o q /\ (~lost' => q = Unsent')
  BY <1>3, <1>5
<1>7. put' \in Seq(Chars) /\ obuf' \in Seq(Chars) /\ len' \in 0..Len(obuf') /\ got' \in Seq(Chars)
      /\ net' \in Seq(Chars) /\ (sending' => ~broken') /\ (~sending' => len' = 0)
  BY <1>3, QueueFacts
<1>8. Queues'
  BY <1>3, <1>6, <1>7 DEF Queues
<1> QED
  BY <1>1, <1>8 DEF StreamInv

LEMMA GetInv == ASSUME StreamInv, Get PROVE StreamInv'
<1> DEFINE c == mem[gptr]
<1>0. Back \in Nat \ {0} /\ Room \in Nat \ {0}
  BY StreamAssumption
<1>1. /\ gptr < egptr /\ got' = Append(got, c) /\ gptr' = gptr + 1 /\ reading' = reading /\ reading
      /\ UNCHANGED <<mem, eback, egptr, dirty, rend, net>>
      /\ UNCHANGED <<put, obuf, len, sending, broken, lost, rend>>
  BY DEF Get, writerVars
<1>2. c \in Chars /\ Area'
  <2>1. gptr \in 0..(Back + Room - 1) /\ gptr + 1 \in Nat /\ gptr + 1 <= egptr /\ eback <= gptr + 1
    BY <1>0, <1>1 DEF StreamInv, Area
  <2> QED
    BY <1>1, <2>1 DEF StreamInv, Area
<1>3. /\ got \in Seq(Chars) /\ Len(got) \in Nat /\ got' \in Seq(Chars) /\ Len(got') = Len(got) + 1
      /\ got'[Len(got) + 1] = c /\ \A i \in 1..Len(got) : got'[i] = got[i]
  <2>1. got \in Seq(Chars)
    BY QueueFacts
  <2> QED
    BY <1>1, <1>2, <2>1, AppendProperties
<1>4. PutbackIsTrue'
  <2> DEFINE b == IF dirty THEN Back ELSE eback
  <2>1. b \in Nat /\ b' = b /\ gptr \in Nat
    BY <1>0, <1>1 DEF StreamInv, Area
  <2>2. \A k \in 1..(gptr - b) : k <= Len(got) => mem[gptr - k] = got[Len(got) - k + 1]
    BY DEF StreamInv, PutbackIsTrue
  <2>3. ASSUME NEW k \in 1..(gptr + 1 - b), k <= Len(got) + 1
        PROVE  mem[gptr + 1 - k] = got'[Len(got) + 1 - k + 1]
    <3> HIDE DEF b, c
    <3>1. CASE k = 1
      <4>1. gptr + 1 - k = gptr /\ Len(got) + 1 - k + 1 = Len(got) + 1
        BY <1>3, <2>1, <3>1
      <4> QED
        BY <1>3, <4>1 DEF c
    <3>2. CASE k # 1
      <4> DEFINE j == k - 1
      <4>1. j \in 1..(gptr - b) /\ j <= Len(got) /\ gptr + 1 - k = gptr - j
            /\ Len(got) + 1 - k + 1 = Len(got) - j + 1 /\ Len(got) - j + 1 \in 1..Len(got)
        BY <1>3, <2>1, <2>3, <3>2
      <4>2. mem[gptr - j] = got[Len(got) - j + 1]
        BY <2>2, <4>1
      <4>3. got'[Len(got) - j + 1] = got[Len(got) - j + 1]
        BY <1>3, <4>1
      <4> QED
        BY <4>1, <4>2, <4>3
    <3> QED
      BY <3>1, <3>2
  <2>4. \A k \in 1..(gptr' - b') : k <= Len(got') => mem'[gptr' - k] = got'[Len(got') - k + 1]
    <3>1. mem' = mem /\ gptr' = gptr + 1 /\ Len(got') = Len(got) + 1 /\ b' = b
      BY <1>1, <1>3, <2>1
    <3> HIDE DEF b
    <3>2. ASSUME NEW k \in 1..(gptr' - b'), k <= Len(got')
          PROVE  mem'[gptr' - k] = got'[Len(got') - k + 1]
      <4>1. k \in 1..(gptr + 1 - b) /\ k <= Len(got) + 1
        BY <1>3, <2>1, <3>1, <3>2
      <4>2. mem[gptr + 1 - k] = got'[Len(got) + 1 - k + 1]
        BY <2>3, <4>1
      <4>3. gptr' - k = gptr + 1 - k /\ Len(got') - k + 1 = Len(got) + 1 - k + 1
        <5>1. /\ gptr' = gptr + 1 /\ Len(got') = Len(got) + 1
              /\ gptr \in Nat /\ Len(got) \in Nat /\ k \in Int
          BY <1>1, <1>3, <2>1, <4>1
        <5> QED
          BY <5>1
      <4> QED
        BY <3>1, <4>2, <4>3
    <3> QED
      BY <3>2
  <2> QED
    BY <2>4 DEF PutbackIsTrue
<1>5. NothingIsStuck'
  BY <1>1 DEF NothingIsStuck
<1>6. got' \o Unread' = got \o Unread
  <2>1. /\ Unread \in Seq(Chars) /\ Len(Unread) = egptr - gptr
        /\ \A i \in 1..(egptr - gptr) : Unread[i] = mem[gptr + i - 1]
    BY UnreadIs DEF StreamInv
  <2>2. /\ Unread' \in Seq(Chars) /\ Len(Unread') = egptr' - gptr'
        /\ \A i \in 1..(egptr' - gptr') : Unread'[i] = mem'[gptr' + i - 1]
    BY <1>2, UnreadAfter
  <2>3. gptr \in Nat /\ egptr \in Nat
    BY DEF StreamInv, Area
  <2>4. Len(Unread) = Len(Unread') + 1
    BY <1>1, <2>1, <2>2, <2>3
  <2>5. Unread[1] = c
    <3>1. 1 \in 1..(egptr - gptr) /\ gptr + 1 - 1 = gptr
      BY <1>1, <2>3
    <3> QED
      BY <2>1, <3>1
  <2>6. \A i \in 1..Len(Unread') : Unread[i + 1] = Unread'[i]
    <3>1. ASSUME NEW i \in 1..Len(Unread') PROVE Unread[i + 1] = Unread'[i]
      <4>1. i + 1 \in 1..(egptr - gptr) /\ i \in 1..(egptr' - gptr')
            /\ gptr + (i + 1) - 1 = gptr' + i - 1
        BY <1>1, <2>2, <2>3
      <4> QED
        BY <1>1, <2>1, <2>2, <4>1
    <3> QED
      BY <3>1
  <2> HIDE DEF c
  <2>7. Unread = <<c>> \o Unread'
    BY ONLY <1>2, <2>1, <2>2, <2>4, <2>5, <2>6, TakeOne
  <2>8. Append(got, c) \o Unread' = got \o (<<c>> \o Unread')
    BY ONLY <1>2, <1>3, <2>2, HandOver
  <2> QED
    BY <1>1, <2>7, <2>8
<1>7. Flow' = Flow
  BY <1>1, <1>6 DEF Flow
<1>8. Queues'
  BY <1>1, <1>3, <1>7, QueueFacts, FlowIsKept
<1> QED
  BY <1>2, <1>4, <1>5, <1>8 DEF StreamInv

LEMMA UngetInv == ASSUME StreamInv, Unget PROVE StreamInv'
<1> DEFINE c == mem[gptr - 1]
<1>0. Back \in Nat \ {0} /\ Room \in Nat \ {0}
  BY StreamAssumption
<1>1. /\ eback < gptr /\ got # <<>> /\ (dirty => Back < gptr) /\ got' = Front(got)
      /\ gptr' = gptr - 1 /\ reading' = reading /\ reading
      /\ UNCHANGED <<mem, eback, egptr, dirty, rend, net>>
      /\ UNCHANGED <<put, obuf, len, sending, broken, lost, rend>>
  BY DEF Unget, writerVars
<1>2. c \in Chars /\ Area'
  <2>1. gptr - 1 \in 0..(Back + Room - 1) /\ gptr - 1 \in Nat /\ gptr - 1 <= egptr
        /\ eback <= gptr - 1
    BY <1>0, <1>1 DEF StreamInv, Area
  <2> QED
    BY <1>1, <2>1 DEF StreamInv, Area
<1>3. /\ got \in Seq(Chars) /\ Len(got) \in Nat /\ Len(got) >= 1
      /\ got' \in Seq(Chars) /\ Len(got') = Len(got) - 1
      /\ \A i \in 1..(Len(got) - 1) : got'[i] = got[i]
  <2>1. got \in Seq(Chars) /\ Len(got) \in Nat /\ Len(got) >= 1
    BY <1>1, QueueFacts
  <2> QED
    BY <1>1, <2>1, FrontIs
<1> DEFINE b == IF dirty THEN Back ELSE eback
<1>4. b \in Nat /\ b' = b /\ gptr \in Nat /\ b < gptr
  BY <1>0, <1>1 DEF StreamInv, Area
<1>5. \A k \in 1..(gptr - b) : k <= Len(got) => mem[gptr - k] = got[Len(got) - k + 1]
  BY DEF StreamInv, PutbackIsTrue
<1> HIDE DEF b
<1>6. PutbackIsTrue'
  <2>1. ASSUME NEW k \in 1..(gptr - 1 - b), k <= Len(got) - 1
        PROVE  mem[gptr - 1 - k] = got'[Len(got) - 1 - k + 1]
    <3> DEFINE j == k + 1
    <3>1. j \in 1..(gptr - b) /\ j <= Len(got) /\ gptr - 1 - k = gptr - j
          /\ Len(got) - 1 - k + 1 = Len(got) - j + 1 /\ Len(got) - j + 1 \in 1..(Len(got) - 1)
      BY <1>3, <1>4, <2>1
    <3>2. mem[gptr - j] = got[Len(got) - j + 1]
      BY <1>5, <3>1
    <3>3. got'[Len(got) - j + 1] = got[Len(got) - j + 1]
      BY <1>3, <3>1
    <3> QED
      BY <3>1, <3>2, <3>3
  <2>2. \A k \in 1..(gptr' - b') : k <= Len(got') => mem'[gptr' - k] = got'[Len(got') - k + 1]
    BY <1>1, <1>3, <1>4, <2>1
  <2> QED
    BY <2>2 DEF PutbackIsTrue, b
<1>7. NothingIsStuck'
  BY <1>1 DEF NothingIsStuck
<1>8. c = got[Len(got)]
  <2>1. 1 \in 1..(gptr - b) /\ 1 <= Len(got) /\ Len(got) - 1 + 1 = Len(got)
    BY <1>3, <1>4
  <2> QED
    BY <1>5, <2>1
<1> HIDE DEF c
<1>9. got = Append(got', c)
  <2> DEFINE a == Append(got', c)
  <2>1. /\ a \in Seq(Chars) /\ Len(a) = Len(got') + 1 /\ a[Len(got') + 1] = c
        /\ \A i \in 1..Len(got') : a[i] = got'[i]
    BY ONLY <1>2, <1>3, AppendProperties
  <2> HIDE DEF a
  <2>2. Len(a) = Len(got)
    BY <1>3, <2>1
  <2>3. \A i \in 1..Len(got) : got[i] = a[i]
    BY <1>3, <1>8, <2>1
  <2>4. got = a
    BY <1>3, <2>1, <2>2, <2>3, SeqEqual
  <2> QED
    BY <2>4 DEF a
<1>10. got' \o Unread' = got \o Unread
  <2>1. /\ Unread \in Seq(Chars) /\ Len(Unread) = egptr - gptr
        /\ \A i \in 1..(egptr - gptr) : Unread[i] = mem[gptr + i - 1]
    BY UnreadIs DEF StreamInv
  <2>2. /\ Unread' \in Seq(Chars) /\ Len(Unread') = egptr' - gptr'
        /\ \A i \in 1..(egptr' - gptr') : Unread'[i] = mem'[gptr' + i - 1]
    BY <1>2, UnreadAfter
  <2>3. gptr \in Nat /\ egptr \in Nat /\ gptr <= egptr
    BY DEF StreamInv, Area
  <2>4. Len(Unread') = Len(Unread) + 1
    BY <1>1, <2>1, <2>2, <2>3
  <2>5. Unread'[1] = c
    <3>1. 1 \in 1..(egptr' - gptr') /\ gptr' + 1 - 1 = gptr - 1
      BY <1>1, <2>3
    <3> QED
      BY <1>1, <2>2, <3>1 DEF c
  <2>6. \A i \in 1..Len(Unread) : Unread'[i + 1] = Unread[i]
    <3>1. ASSUME NEW i \in 1..Len(Unread) PROVE Unread'[i + 1] = Unread[i]
      <4>1. i + 1 \in 1..(egptr' - gptr') /\ i \in 1..(egptr - gptr)
            /\ gptr' + (i + 1) - 1 = gptr + i - 1
        BY <1>1, <2>1, <2>3
      <4> QED
        BY <1>1, <2>1, <2>2, <4>1
    <3> QED
      BY <3>1
  <2>7. Unread' = <<c>> \o Unread
    BY ONLY <1>2, <2>1, <2>2, <2>4, <2>5, <2>6, TakeOne
  <2>8. Append(got', c) \o Unread = got' \o (<<c>> \o Unread)
    BY ONLY <1>2, <1>3, <2>1, HandOver
  <2> QED
    BY <1>9, <2>7, <2>8
<1>11. Flow' = Flow
  BY <1>1, <1>10 DEF Flow
<1>12. Queues'
  BY <1>1, <1>3, <1>11, QueueFacts, FlowIsKept
<1> QED
  BY <1>2, <1>6, <1>7, <1>12 DEF StreamInv

(* A read() brings n bytes; the last bytes read move in front of them.     *)
LEMMA UnderflowInv == ASSUME StreamInv, Underflow PROVE StreamInv'
<1>0. Back \in Nat \ {0} /\ Room \in Nat \ {0}
  BY StreamAssumption
<1>1. net \in Seq(Chars) /\ net # <<>> /\ Len(net) \in Nat /\ Len(net) >= 1 /\ got \in Seq(Chars)
  BY QueueFacts DEF Underflow
<1> DEFINE n == Least(Room, Len(net))
<1>2. n \in 1..Room /\ n \in 1..Len(net) /\ n \in Nat /\ n >= 1
  BY <1>0, <1>1 DEF Least
<1>3. /\ mem' = [i \in DOMAIN mem |-> IF i \in Back..(Back + n - 1)
                                      THEN net[i - Back + 1] ELSE Moved[i]]
      /\ eback' = Back - Kept /\ gptr' = Back /\ egptr' = Back + n
      /\ net' = SubSeq(net, n + 1, Len(net))
      /\ reading' = (net[1] # FF)
      /\ gptr = egptr /\ UNCHANGED <<dirty, got, rend, put, obuf, len, sending, broken, lost>>
  BY DEF Underflow, Returned, writerVars
<1> HIDE DEF n
<1>4. /\ Moved \in [0..(Back + Room - 1) -> Chars]
      /\ \A k \in 1..Kept : Moved[Back - k] = mem[gptr - k]
  BY MovedIs DEF StreamInv
<1>5. Kept \in 0..Back /\ Kept <= gptr - eback /\ DOMAIN mem = 0..(Back + Room - 1)
  BY KeptIs DEF StreamInv, Area
<1>6. /\ mem' \in [0..(Back + Room - 1) -> Chars]
      /\ \A i \in 1..n : mem'[Back + i - 1] = net[i]
      /\ \A k \in 1..Kept : mem'[Back - k] = mem[gptr - k]
  <2>1. \A i \in Back..(Back + n - 1) : i - Back + 1 \in 1..Len(net) /\ net[i - Back + 1] \in Chars
    BY <1>0, <1>1, <1>2
  <2>2. mem' \in [0..(Back + Room - 1) -> Chars]
    BY <1>3, <1>4, <1>5, <2>1
  <2>3. ASSUME NEW i \in 1..n PROVE mem'[Back + i - 1] = net[i]
    <3>1. Back + i - 1 \in 0..(Back + Room - 1) /\ Back + i - 1 \in Back..(Back + n - 1)
          /\ (Back + i - 1) - Back + 1 = i
      BY <1>0, <1>2
    <3> QED
      BY <1>3, <1>5, <3>1
  <2>4. ASSUME NEW k \in 1..Kept PROVE mem'[Back - k] = mem[gptr - k]
    <3>1. Back - k \in 0..(Back + Room - 1) /\ Back - k \notin Back..(Back + n - 1)
      BY <1>0, <1>2, <1>5
    <3>2. mem'[Back - k] = Moved[Back - k]
      BY <1>3, <1>5, <3>1
    <3> QED
      BY <1>4, <3>2
  <2> QED
    BY <2>2, <2>3, <2>4
<1>7. Area'
  <2>1. /\ eback' \in Nat /\ gptr' \in Nat /\ egptr' \in Nat
        /\ eback' <= gptr' /\ gptr' <= egptr' /\ egptr' <= Back + Room /\ eback' <= Back
    BY <1>0, <1>2, <1>3, <1>5
  <2>2. reading' \in BOOLEAN
    BY <1>3
  <2>3. dirty' \in BOOLEAN
    BY <1>3 DEF StreamInv, Area
  <2> QED
    BY <1>6, <2>1, <2>2, <2>3 DEF Area
<1>8. PutbackIsTrue'
  <2>1. CASE dirty
    <3>1. gptr' - (IF dirty' THEN Back ELSE eback') = 0
      BY <1>0, <1>3, <2>1
    <3>2. \A k \in 1..0 : FALSE
      OBVIOUS
    <3> QED
      BY <3>1, <3>2 DEF PutbackIsTrue
  <2>2. CASE ~dirty
    <3>1. gptr' - (IF dirty' THEN Back ELSE eback') = Kept /\ gptr' = Back /\ got' = got
      BY <1>0, <1>3, <1>5, <2>2
    <3>2. ASSUME NEW k \in 1..Kept, k <= Len(got)
          PROVE  mem'[Back - k] = got[Len(got) - k + 1]
      <4>1. gptr - eback \in Nat /\ k \in 1..(gptr - eback)
        BY <1>5, <3>2 DEF StreamInv, Area
      <4>2. mem[gptr - k] = got[Len(got) - k + 1]
        BY <2>2, <3>2, <4>1 DEF StreamInv, PutbackIsTrue
      <4> QED
        BY <1>6, <3>2, <4>2
    <3> QED
      BY <3>1, <3>2 DEF PutbackIsTrue
  <2> QED
    BY <2>1, <2>2
<1>9. NothingIsStuck'
  <2>1. mem'[Back] = net[1]
    <3>1. 1 \in 1..n /\ Back + 1 - 1 = Back
      BY <1>0, <1>2
    <3> QED
      BY <1>6, <3>1
  <2>2. ~reading' => net[1] = FF
    BY <1>3
  <2> QED
    BY <1>3, <2>1, <2>2 DEF NothingIsStuck
<1>10. Unread = <<>>
  <2>1. egptr - gptr = 0
    BY <1>3 DEF StreamInv, Area
  <2>2. Unread = [i \in 1..0 |-> mem[gptr + i - 1]]
    BY <2>1 DEF Unread
  <2> QED
    BY <2>2
<1>11. Unread' = SubSeq(net, 1, n) /\ SubSeq(net, 1, n) \in Seq(Chars)
  <2>1. /\ Unread' \in Seq(Chars) /\ Len(Unread') = egptr' - gptr'
        /\ \A i \in 1..(egptr' - gptr') : Unread'[i] = mem'[gptr' + i - 1]
    BY <1>7, UnreadAfter
  <2>2. egptr' - gptr' = n
    BY <1>0, <1>2, <1>3
  <2>3. \A i \in 1..n : Unread'[i] = net[i]
    BY <1>3, <1>6, <2>1, <2>2
  <2> DEFINE q == SubSeq(net, 1, n)
  <2>4. q \in Seq(Chars) /\ Len(q) = n /\ \A i \in 1..n : q[i] = net[i]
    <3>1. q \in Seq(Chars)
      BY <1>1, <1>2
    <3>2. Len(q) = n /\ \A i \in 1..n : q[i] = net[i]
      BY <1>1, <1>2
    <3> QED
      BY <3>1, <3>2
  <2> HIDE DEF q
  <2>5. Unread' = q
    <3>1. Len(Unread') = Len(q) /\ \A i \in 1..Len(Unread') : Unread'[i] = q[i]
      BY <2>1, <2>2, <2>3, <2>4
    <3> QED
      BY ONLY <2>1, <2>4, <3>1, SeqEqual
  <2> QED
    BY <2>4, <2>5 DEF q
<1>12. Flow' = Flow /\ net' \in Seq(Chars)
  <2>1. n \in 0..Len(net)
    BY <1>2
  <2>2. /\ net' \in Seq(Chars) /\ SubSeq(net, 1, n) \o net' = net
    BY <1>1, <1>3, <2>1, CutInTwo
  <2>3. Flow = got \o net
    BY <1>1, <1>10, ConcatEmptySeq DEF Flow
  <2>4. (got \o SubSeq(net, 1, n)) \o net' = got \o (SubSeq(net, 1, n) \o net')
    <3> DEFINE q == SubSeq(net, 1, n)  w == net'
    <3>1. q \in Seq(Chars) /\ w \in Seq(Chars) /\ got \in Seq(Chars)
      BY <1>1, <1>11, <2>2
    <3> HIDE DEF q, w
    <3>2. (got \o q) \o w = got \o (q \o w)
      BY ONLY <3>1, ConcatAssociative
    <3> QED
      BY <3>2 DEF q, w
  <2>5. Flow' = (got \o SubSeq(net, 1, n)) \o net'
    BY <1>3, <1>11 DEF Flow
  <2> QED
    BY <2>2, <2>3, <2>4, <2>5
<1>13. Queues'
  BY <1>1, <1>3, <1>12, FlowIsKept
<1> QED
  BY <1>7, <1>8, <1>9, <1>13 DEF StreamInv

(* A read() that fails moves the bytes all the same, and the pointers not. *)
LEMMA UnderflowFailsInv == ASSUME StreamInv, UnderflowFails PROVE StreamInv'
<1>0. Back \in Nat \ {0} /\ Room \in Nat \ {0}
  BY StreamAssumption
<1>1. /\ gptr = egptr /\ mem' = Moved /\ dirty' = TRUE /\ reading' = FALSE
      /\ UNCHANGED <<net, rend, eback, gptr, egptr, got>>
      /\ UNCHANGED <<put, obuf, len, sending, broken, lost, rend>>
  BY DEF UnderflowFails, writerVars
<1>2. /\ Moved \in [0..(Back + Room - 1) -> Chars]
      /\ \A i \in Back..(Back + Room - 1) : Moved[i] = mem[i]
  BY MovedIs DEF StreamInv
<1>3. Area'
  <2>1. mem' \in [0..(Back + Room - 1) -> Chars] /\ reading' \in BOOLEAN /\ dirty' \in BOOLEAN
    BY <1>1, <1>2
  <2> QED
    BY <1>1, <2>1 DEF StreamInv, Area
<1>4. PutbackIsTrue'
  <2>1. gptr' - (IF dirty' THEN Back ELSE eback') = gptr - Back /\ gptr' = gptr /\ got' = got
    BY <1>1
  <2>2. ASSUME NEW k \in 1..(gptr - Back), k <= Len(got)
        PROVE  mem'[gptr - k] = got[Len(got) - k + 1]
    <3> DEFINE b == IF dirty THEN Back ELSE eback
    <3>1. b \in Nat /\ b <= Back /\ gptr \in Nat /\ gptr <= Back + Room
      BY <1>0, <1>1 DEF StreamInv, Area
    <3> HIDE DEF b
    <3>2. k \in 1..(gptr - b) /\ gptr - k \in Back..(Back + Room - 1)
      BY <1>0, <2>2, <3>1
    <3>3. mem[gptr - k] = got[Len(got) - k + 1]
      BY <2>2, <3>2 DEF StreamInv, PutbackIsTrue, b
    <3>4. mem'[gptr - k] = mem[gptr - k]
      BY <1>1, <1>2, <3>2
    <3> QED
      BY <3>3, <3>4
  <2> QED
    BY <2>1, <2>2 DEF PutbackIsTrue
<1>5. NothingIsStuck'
  <2>1. ~(gptr' < egptr')
    BY <1>1 DEF StreamInv, Area
  <2> QED
    BY <2>1 DEF NothingIsStuck
<1>6. Unread = <<>> /\ Unread' = <<>>
  <2>1. egptr - gptr = 0 /\ egptr' - gptr' = 0
    BY <1>1 DEF StreamInv, Area
  <2>2. Unread = [i \in 1..0 |-> mem[gptr + i - 1]] /\ Unread' = [i \in 1..0 |-> mem'[gptr' + i - 1]]
    BY <2>1 DEF Unread
  <2> QED
    BY <2>2
<1>7. Flow' = Flow
  BY <1>1, <1>6 DEF Flow
<1>8. Queues'
  BY <1>1, <1>7, QueueFacts, FlowIsKept
<1> QED
  BY <1>3, <1>4, <1>5, <1>8 DEF StreamInv

-----------------------------------------------------------------------------
LEMMA StreamInvNext == StreamInv /\ [Next]_vars => StreamInv'
<1> SUFFICES ASSUME StreamInv, [Next]_vars PROVE StreamInv'
  OBVIOUS
<1>1. CASE UNCHANGED vars
  <2>1. /\ Area' /\ PutbackIsTrue' /\ NothingIsStuck' /\ Unread' = Unread
    BY <1>1, AreaStays DEF vars, readerVars, StreamInv, Area
  <2>2. UNCHANGED <<got, net, put, obuf, len, sending, broken, lost, rend>>
    BY <1>1 DEF vars, readerVars, writerVars
  <2>3. Queues'
    BY <2>1, <2>2, QueueFacts, FlowStays DEF StreamInv
  <2> QED
    BY <2>1, <2>3 DEF StreamInv
<1>2. CASE Next
  BY <1>2, PutInv, FlushInv, WriteInv, WriteFailsInv, HearInv, CloseInv, ReopenInv, SelectInv,
     GetInv, UnderflowInv, UnderflowFailsInv, AnswerInv, UngetInv, ReaderEndsInv
     DEF Next, Writer, Reader
<1> QED
  BY <1>1, <1>2

LEMMA StreamInvHolds == Spec => []StreamInv
BY InitInv, StreamInvNext, PTL DEF Spec

-----------------------------------------------------------------------------
(* Whatever the sizes of the buffers: nothing is read twice or out of      *)
(* order, and nothing is lost while the pipe and the reader are there.     *)
THEOREM AllArrives == Spec => []NothingIsLost
<1>1. StreamInv => NothingIsLost
  <2> SUFFICES ASSUME StreamInv PROVE NothingIsLost
    OBVIOUS
  <2>1. PICK r \in Seq(Chars) : put = Flow \o r /\ (~lost => r = Unsent)
    BY DEF StreamInv, Queues
  <2>2. Flow \in Seq(Chars)
    BY FlowIsSeq DEF StreamInv
  <2>3. IsPrefix(Flow, Flow \o r)
    BY ONLY <2>1, <2>2, Beginning
  <2> QED
    BY <2>1, <2>3 DEF NothingIsLost, Flow
<1> QED
  BY StreamInvHolds, <1>1, PTL

(* What unget() gives back is what was read. *)
THEOREM PutbackHolds == Spec => []PutbackIsTrue
<1>1. StreamInv => PutbackIsTrue
  BY DEF StreamInv
<1> QED
  BY StreamInvHolds, <1>1, PTL

(* Only the byte 0xFF leaves bytes in the get area behind. *)
THEOREM NothingStays == Spec => []NothingIsStuck
<1>1. StreamInv => NothingIsStuck
  BY DEF StreamInv
<1> QED
  BY StreamInvHolds, <1>1, PTL

-----------------------------------------------------------------------------
(* The sizes: what is in the put area, in the sockets and on its way.      *)
Sizes ==
  /\ Len(obuf) <= OSize /\ Len(net) <= Cap
  /\ answered \in Nat /\ heard \in Nat /\ answered - heard \in 0..AnswerCap
  /\ sending => len < Len(obuf)
  /\ ~sending => Len(obuf) < OSize

Flags == sending \in BOOLEAN /\ broken \in BOOLEAN /\ rend \in BOOLEAN

LEMMA FlagsNext == Flags /\ [Next]_vars => Flags'
<1> SUFFICES ASSUME Flags, [Next]_vars PROVE Flags'
  OBVIOUS
<1>1. CASE UNCHANGED vars
  BY <1>1, Zenon DEF Flags, vars, writerVars
<1>2. ASSUME NEW data, Send(data), UNCHANGED <<broken, rend>> PROVE Flags'
  BY <1>2, Zenon DEF Flags, Send
<1>3. ASSUME NEW c \in Chars, Put(c) PROVE Flags'
  BY <1>2, <1>3, Zenon DEF Flags, Put
<1>4. CASE Flush
  BY <1>2, <1>4, Zenon DEF Flush
<1>5. CASE Write
  <2>1. UNCHANGED <<broken, rend>>
    BY <1>5 DEF Write
  <2>2. sending' \in BOOLEAN
    <3>1. PICK n : sending' = (len + n < Len(obuf))
      BY <1>5 DEF Write
    <3> QED
      BY <3>1
  <2> QED
    BY <2>1, <2>2, Zenon DEF Flags
<1>6. CASE WriteFails \/ Hear \/ Close \/ Reopen
  BY <1>6, Zenon DEF Flags, WriteFails, Hear, Close, Reopen
<1>7. CASE Reader \/ Unget \/ ReaderEnds
  BY <1>7, Zenon DEF Flags, Reader, Select, Get, Underflow, UnderflowFails, Answer, Unget, ReaderEnds,
     writerVars
<1> QED
  BY <1>1, <1>3, <1>4, <1>5, <1>6, <1>7, Zenon DEF Next, Writer

(* What send_with_ack() is given is not empty and not more than o_buf.     *)
LEMMA SendSizes ==
  ASSUME NEW data, Send(data), len = 0, Len(data) \in Nat, 0 < Len(data), Len(data) <= OSize
  PROVE  /\ Len(obuf') <= OSize
         /\ sending' => len < Len(obuf')
         /\ ~sending' => Len(obuf') < OSize
<1>1. OSize \in Nat \ {0} /\ Len(<<>>) = 0
  BY StreamAssumption, EmptySeq
<1>2. CASE broken
  <2>1. obuf' = <<>> /\ ~sending'
    BY <1>2 DEF Send
  <2> QED
    BY <1>1, <2>1
<1>3. CASE ~broken
  <2>1. obuf' = data /\ sending'
    BY <1>3 DEF Send
  <2> QED
    BY <2>1
<1> QED
  BY <1>2, <1>3

LEMMA PutSizes == ASSUME StreamInv, Sizes, NEW c \in Chars, Put(c) PROVE Sizes'
<1>1. /\ ~sending /\ len = 0 /\ obuf \in Seq(Chars) /\ Len(obuf) \in Nat /\ Len(obuf) < OSize
      /\ UNCHANGED <<len, heard, net, answered>> /\ OSize \in Nat
  BY StreamAssumption DEF Put, StreamInv, Queues, Sizes, readerVars
<1>2. Append(obuf, c) \in Seq(Chars) /\ Len(Append(obuf, c)) = Len(obuf) + 1
  BY <1>1
<1>3. CASE Overflow(c)
  <2>1. Send(Append(obuf, c))
    BY <1>3 DEF Put
  <2>2. /\ Len(obuf') <= OSize /\ (sending' => len < Len(obuf'))
        /\ (~sending' => Len(obuf') < OSize)
    <3>1. PICK data : data = Append(obuf, c) /\ Send(data) /\ Len(data) = Len(obuf) + 1
      BY <1>2, <2>1
    <3>2. Len(data) \in Nat /\ 0 < Len(data) /\ Len(data) <= OSize
      BY <1>1, <3>1
    <3> QED
      BY <1>1, <3>1, <3>2, SendSizes
  <2> QED
    BY <1>1, <2>2 DEF Sizes
<1>4. CASE ~Overflow(c)
  <2>1. obuf' = Append(obuf, c) /\ sending' = sending /\ Len(obuf) # OSize - 1
    BY <1>4 DEF Put, Overflow
  <2>2. Len(obuf') < OSize
    BY <1>1, <1>2, <2>1
  <2> QED
    BY <1>1, <2>1, <2>2 DEF Sizes
<1> QED
  BY <1>3, <1>4

LEMMA FlushSizes == ASSUME StreamInv, Sizes, Flush PROVE Sizes'
<1>1. /\ ~sending /\ len = 0 /\ obuf \in Seq(Chars) /\ Len(obuf) \in Nat /\ Len(obuf) < OSize
      /\ UNCHANGED <<len, heard, net, answered>> /\ OSize \in Nat /\ 0 < Len(obuf)
  BY StreamAssumption, EmptySeq DEF Flush, StreamInv, Queues, Sizes, readerVars
<1>2. /\ Len(obuf') <= OSize /\ (sending' => len < Len(obuf'))
      /\ (~sending' => Len(obuf') < OSize)
  BY <1>1, SendSizes DEF Flush
<1> QED
  BY <1>1, <1>2 DEF Sizes

LEMMA WriteSizes == ASSUME StreamInv, Sizes, Write PROVE Sizes'
<1>1. /\ Len(net) \in Nat /\ Len(net) <= Cap /\ Cap \in Nat /\ Len(obuf) \in Nat /\ len \in Nat
      /\ len < Len(obuf) /\ Chunk \in Nat /\ OSize \in Nat \ {0} /\ net \in Seq(Chars)
      /\ obuf \in Seq(Chars) /\ UNCHANGED <<heard, answered>> /\ Len(obuf) <= OSize
  BY StreamAssumption DEF StreamInv, Queues, Sizes, Write, readerVars
<1>2. PICK n \in 1..Least(Least(Chunk, Len(obuf) - len), Cap - Len(net)) :
        /\ net' = net \o SubSeq(obuf, len + 1, len + n)
        /\ sending' = (len + n < Len(obuf))
        /\ len' = IF sending' THEN len + n ELSE 0
        /\ obuf' = IF sending' THEN obuf ELSE <<>>
  BY DEF Write
<1>3. n \in Nat /\ 1 <= n /\ n <= Len(obuf) - len /\ n <= Cap - Len(net)
  BY <1>1, <1>2 DEF Least
<1>4. Len(net') <= Cap
  <2>1. PICK a \in Int, b \in Int : a = len + 1 /\ b = len + n /\ a <= b /\ b - a + 1 = n
    BY <1>1, <1>3
  <2>2. \A i \in a..b : obuf[i] \in Chars
    <3>1. \A i \in a..b : i \in 1..Len(obuf)
      BY <1>1, <1>3, <2>1
    <3> QED
      BY <1>1, <3>1, ElementOfSeq
  <2>3. PICK s \in Seq(Chars) : s = SubSeq(obuf, len + 1, len + n) /\ Len(s) = n
    <3>1. PICK s : s = SubSeq(obuf, a, b)
      OBVIOUS
    <3>2. s \in Seq(Chars) /\ Len(s) = IF a <= b THEN b - a + 1 ELSE 0
      BY ONLY <2>2, <3>1, a \in Int, b \in Int, SubSeqProperties
    <3> QED
      BY <2>1, <3>1, <3>2
  <2>4. Len(net') = Len(net) + n
    BY <1>1, <1>2, <2>3, ConcatProperties
  <2> QED
    BY <1>1, <1>3, <2>4
<1>5. CASE sending'
  BY <1>1, <1>2, <1>4, <1>5 DEF Sizes
<1>6. CASE ~sending'
  <2>1. obuf' = <<>> /\ Len(<<>>) = 0
    BY <1>2, <1>6, EmptySeq
  <2> QED
    BY <1>1, <1>4, <1>6, <2>1 DEF Sizes
<1> QED
  BY <1>5, <1>6

(* The other actions of the writer, and Reopen, which empties the socket.  *)
LEMMA OtherWriterSizes ==
  ASSUME StreamInv, Sizes, WriteFails \/ Hear \/ Close \/ Reopen PROVE Sizes'
<1>1. OSize \in Nat \ {0} /\ Cap \in Nat /\ AnswerCap \in Nat /\ Len(<<>>) = 0
  BY StreamAssumption, EmptySeq
<1>2. CASE WriteFails
  <2>1. ~sending' /\ obuf' = <<>> /\ UNCHANGED <<net, heard, answered>>
    BY <1>2 DEF WriteFails, readerVars
  <2> QED
    BY <1>1, <2>1 DEF Sizes
<1>3. CASE Hear
  <2>1. heard' = answered /\ UNCHANGED <<obuf, sending, len, net, answered>>
    BY <1>3 DEF Hear, readerVars
  <2> QED
    BY <1>1, <2>1 DEF Sizes
<1>4. CASE Close
  BY <1>4 DEF Close, readerVars, Sizes
<1>5. CASE Reopen
  <2>1. net' = <<>> /\ heard' = 0 /\ answered' = 0 /\ UNCHANGED <<obuf, sending, len>>
    BY <1>5 DEF Reopen
  <2> QED
    BY <1>1, <2>1 DEF Sizes
<1> QED
  BY <1>2, <1>3, <1>4, <1>5

LEMMA ReaderSizes ==
  ASSUME StreamInv, Sizes, Reader \/ Unget \/ ReaderEnds PROVE Sizes'
<1>1. Cap \in Nat /\ AnswerCap \in Nat /\ Len(<<>>) = 0 /\ Room \in Nat \ {0}
  BY StreamAssumption, EmptySeq
<1>2. CASE Select \/ Get \/ UnderflowFails \/ Unget
  BY <1>2 DEF Select, Get, UnderflowFails, Unget, writerVars, Sizes
<1>3. CASE Underflow
  <2>1. UNCHANGED <<obuf, sending, len, heard, answered>>
    BY <1>3 DEF Underflow, writerVars
  <2>2. PICK n : n = Least(Room, Len(net)) /\ net' = SubSeq(net, n + 1, Len(net))
    BY <1>3 DEF Underflow
  <2>3. net \in Seq(Chars) /\ Len(net) \in Nat /\ n \in 0..Len(net)
    BY <1>1, <2>2 DEF StreamInv, Queues, Least
  <2>4. Len(net') <= Len(net) /\ Len(net') \in Nat
    BY <2>2, <2>3
  <2> QED
    BY <1>1, <2>1, <2>3, <2>4 DEF Sizes
<1>4. CASE Answer
  <2>1. answered - heard < AnswerCap /\ answered' = answered + 1
        /\ UNCHANGED <<obuf, sending, len, net, heard>>
    BY <1>4 DEF Answer, writerVars
  <2> QED
    BY <1>1, <2>1 DEF Sizes
<1>5. CASE ReaderEnds
  <2>1. net' = <<>> /\ UNCHANGED <<obuf, sending, len, heard, answered>>
    BY <1>5 DEF ReaderEnds
  <2> QED
    BY <1>1, <2>1 DEF Sizes
<1> QED
  BY <1>2, <1>3, <1>4, <1>5 DEF Reader

(* The put area never takes more than there is place for, send_blocking_   *)
(* never runs past it, and the sockets never hold more than they can.      *)
THEOREM StreamTypesHold == Spec => []StreamTypeOK
<1>1. Init => Sizes /\ Flags
  <2>1. Len(<<>>) = 0 /\ {OSize, Cap, AnswerCap} \subseteq Nat \ {0}
    BY EmptySeq, StreamAssumption
  <2>2. Init => Flags
    BY DEF Init, Flags
  <2>3. Init => Sizes
    <3> SUFFICES ASSUME Init PROVE Sizes
      OBVIOUS
    <3>1. obuf = <<>> /\ net = <<>> /\ answered = 0 /\ heard = 0 /\ ~sending
      BY DEF Init
    <3> QED
      BY <2>1, <3>1 DEF Sizes
  <2> QED
    BY <2>2, <2>3
<1>2. StreamInv /\ Sizes /\ [Next]_vars => Sizes'
  <2> SUFFICES ASSUME StreamInv, Sizes, [Next]_vars PROVE Sizes'
    OBVIOUS
  <2>1. CASE UNCHANGED vars
    BY <2>1 DEF vars, writerVars, readerVars, Sizes
  <2>2. CASE Next
    BY <2>2, PutSizes, FlushSizes, WriteSizes, OtherWriterSizes, ReaderSizes DEF Next, Writer
  <2> QED
    BY <2>1, <2>2
<1>3. StreamInv /\ Sizes /\ Flags => StreamTypeOK
  <2> SUFFICES ASSUME StreamInv, Sizes, Flags PROVE StreamTypeOK
    OBVIOUS
  <2>1. len \in 0..OSize
    BY StreamAssumption DEF StreamInv, Queues, Sizes
  <2>2. 0 <= eback
    BY DEF StreamInv, Area
  <2> QED
    BY <2>1, <2>2 DEF StreamTypeOK, StreamInv, Area, Queues, Sizes, Flags
<1> QED
  BY <1>1, <1>2, <1>3, FlagsNext, StreamInvHolds, PTL DEF Spec
=============================================================================
