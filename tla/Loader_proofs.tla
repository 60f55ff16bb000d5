---------------------------- MODULE Loader_proofs ----------------------------
(***************************************************************************)
(* Proofs about Loader for any alphabet and any length of input: what the  *)
(* parser has kept is the first word of what it has taken, and its         *)
(* assertion can only fail after an error.                                 *)
(*                                                                         *)
(* ParserInv says, for each state on top of the stack, what part of the    *)
(* text has been taken and, where a character was put back by unget(),     *)
(* which one it is.                                                        *)
(***************************************************************************)
EXTENDS Loader, SequenceTheorems, FiniteSetTheorems, WellFoundedInduction, TLAPS

(* The end of a command, and what a command consists of. *)
Ends == Controls \cup {Blank}
Plain == Chars \ (Ends \cup {"}"})

(* parse_() goes on with a character of P. *)
NextIs(P) == pc = "parsing" /\ ~failing /\ p_command # <<>> /\ Head(p_command) \in P

States == {"s_skipwhite", "s_initial", "s_scan", "s_groupscan", "s_command", "s_arg_or_control"}

LoaderTypes ==
  /\ p_command \in Seq(Chars) /\ parsed \in Seq(Chars)
  /\ new_processes_ \in Seq(Seq(Chars)) /\ current_ \in Seq(Chars)
  /\ refused \in Nat /\ status_ \in Seq(States) /\ status_ # <<>>

(* What the parser will come back to when it leaves s_skipwhite. *)
Below == status_[Len(status_) - 1]
Skips(st) == Top = "s_skipwhite" /\ Len(status_) > 1 /\ Below = st

(* The text that has been taken. *)
Taken == Text(parsed)

NoCommand == new_processes_ = <<>> /\ current_ = <<>>

HalfCommand ==
  /\ new_processes_ = <<>> /\ current_ \in Seq(Plain) /\ Taken = current_
  /\ IF current_ = <<>> THEN NextIs(Chars \ (Ends \cup {"{"})) ELSE current_[1] # "{"

WholeCommand ==
  LET w == new_processes_[1]
  IN /\ Len(new_processes_) = 1 /\ current_ = <<>>
     /\ w \in Seq(Plain) /\ w # <<>> /\ w[1] # "{"
     /\ Len(w) <= Len(Taken) /\ \A i \in 1..Len(w) : Taken[i] = w[i]
     /\ IF Len(w) = Len(Taken) THEN NextIs(Controls) ELSE Taken[Len(w) + 1] \in Ends

ParserInv ==
  \/ Skips("s_initial") /\ Taken = <<>> /\ NoCommand
  \/ /\ Top = "s_initial" /\ Taken = <<>> /\ NoCommand
     /\ refused = 0 => NextIs(Chars \ {Blank})
  \/ Top = "s_scan" /\ Taken = <<>> /\ NoCommand /\ NextIs(Chars \ Ends)
  \/ /\ Skips("s_groupscan") \/ Top = "s_groupscan"
     /\ Taken # <<>> /\ Taken[1] = "{" /\ NoCommand
  \/ Top = "s_command" /\ (superfluous \/ HalfCommand)
  \/ Top = "s_arg_or_control" /\ (superfluous \/ WholeCommand)

LoaderInv == LoaderTypes /\ ParserInv /\ AbortsAfterErrorOnly

-----------------------------------------------------------------------------
(* The first character of a kind.                                          *)

(* A nonempty set of natural numbers has a least element. *)
LEMMA Least ==
  ASSUME NEW T \in SUBSET Nat, T # {}
  PROVE  \E x \in T : \A y \in T : x <= y
<1> DEFINE R == StrictSubsetOrdering(Nat)
           U == {1..n : n \in T}
<1>1. IsWellFoundedOn(R, FiniteSubsetsOf(Nat))
  BY FS_StrictSubsetOrderingWellFounded
<1>2. U \subseteq FiniteSubsetsOf(Nat) /\ U # {}
  <2>1. \A n \in Nat : 1..n \in SUBSET Nat /\ IsFiniteSet(1..n)
    BY FS_Interval
  <2> QED
    BY <2>1 DEF FiniteSubsetsOf
<1>3. \A x, y \in Nat : x < y => <<1..x, 1..y>> \in R
  BY DEF StrictSubsetOrdering
<1> HIDE DEF R
<1>4. \E u \in U : \A v \in U : <<v, u>> \notin R
  <2> HIDE DEF U
  <2> QED
    BY <1>1, <1>2, WFMin
<1>5. PICK x \in T : \A v \in U : <<v, 1..x>> \notin R
  BY <1>4
<1>6. ASSUME NEW y \in T PROVE x <= y
  <2>1. 1..y \in U
    OBVIOUS
  <2>2. <<1..y, 1..x>> \notin R
    BY <2>1, <1>5
  <2>3. x \in Nat /\ y \in Nat
    OBVIOUS
  <2> QED
    BY ONLY <2>2, <2>3, <1>3
<1> QED
  BY <1>6

LEMMA NotEmpty ==
  ASSUME NEW S, NEW s \in Seq(S), s # <<>>
  PROVE  Len(s) \in Nat /\ Len(s) >= 1 /\ s[1] \in S /\ Head(s) = s[1]
<1>1. Len(s) \in Nat /\ Len(s) >= 1
  BY EmptySeq
<1>2. s[1] \in S
  BY <1>1, ElementOfSeq
<1>3. Head(s) = s[1]
  OBVIOUS
<1> QED
  BY <1>1, <1>2, <1>3

LEMMA FirstStays ==
  ASSUME NEW S, NEW s \in Seq(S), s # <<>>, NEW x \in S
  PROVE  Append(s, x) # <<>> /\ Append(s, x)[1] = s[1]
<1>1. 1 \in 1..Len(s)
  BY NotEmpty
<1> QED
  BY <1>1, AppendProperties

LEMMA OnlyOne ==
  ASSUME NEW S, NEW s \in Seq(S), Len(s) = 1
  PROVE  s = <<s[1]>>
<1>1. PICK x \in S : x = s[1]
  BY ElementOfSeq
<1>2. <<x>> \in Seq(S) /\ Len(<<x>>) = 1 /\ <<x>>[1] = x
  OBVIOUS
<1> QED
  BY <1>1, <1>2, SeqEqual

(* FirstOf is what its name says, and nothing else is. *)
LEMMA FirstOfIsFirst ==
  ASSUME NEW s \in Seq(Chars), NEW P
  PROVE  /\ FirstOf(s, P) \in 1..(Len(s) + 1)
         /\ \A j \in 1..(FirstOf(s, P) - 1) : s[j] \notin P
         /\ FirstOf(s, P) <= Len(s) => s[FirstOf(s, P)] \in P
<1>1. CASE \E i \in DOMAIN s : s[i] \in P
  <2> DEFINE T == {i \in DOMAIN s : s[i] \in P}
             First(i) == s[i] \in P /\ \A j \in 1..(i - 1) : s[j] \notin P
             c0 == CHOOSE i \in DOMAIN s : First(i)
  <2>1. T \in SUBSET Nat /\ T # {}
    BY <1>1
  <2>2. PICK x \in T : \A y \in T : x <= y
    BY ONLY <2>1, Least
  <2>3. x \in DOMAIN s /\ s[x] \in P /\ \A j \in 1..(x - 1) : s[j] \notin P
    BY <2>2
  <2>4. \E i \in DOMAIN s : First(i)
    BY <2>3
  <2>5. c0 \in DOMAIN s /\ First(c0)
    <3> HIDE DEF First
    <3> QED
      BY <2>4, Zenon
  <2>6. FirstOf(s, P) = c0
    BY <1>1, Zenon DEF FirstOf
  <2> HIDE DEF c0
  <2> QED
    BY <2>5, <2>6
<1>2. CASE ~\E i \in DOMAIN s : s[i] \in P
  BY <1>2 DEF FirstOf
<1> QED
  BY <1>1, <1>2

LEMMA FirstIs ==
  ASSUME NEW s \in Seq(Chars), NEW P, NEW i \in 1..(Len(s) + 1),
         \A j \in 1..(i - 1) : s[j] \notin P, i <= Len(s) => s[i] \in P
  PROVE  FirstOf(s, P) = i
BY FirstOfIsFirst

(* A sequence and what it was appended to have the same beginnings. *)
LEMMA SubSeqOfAppend ==
  ASSUME NEW S, NEW s \in Seq(S), NEW ch \in S, NEW f \in 1..(Len(s) + 1)
  PROVE  /\ SubSeq(s, f, Len(s)) \in Seq(S)
         /\ SubSeq(s, f, Len(s)) = <<>> <=> f = Len(s) + 1
         /\ SubSeq(Append(s, ch), f, Len(s) + 1) = Append(SubSeq(s, f, Len(s)), ch)
<1> DEFINE n == Len(s)
           t == Append(s, ch)
           k == n - f + 1
<1>1. n \in Nat /\ k \in Nat /\ (k = 0 <=> f = n + 1) /\ f \in Nat /\ f >= 1 /\ n = k + f - 1
  OBVIOUS
<1>2. t \in Seq(S) /\ Len(t) = n + 1 /\ (\A i \in 1..n : t[i] = s[i]) /\ t[n + 1] = ch
  BY AppendProperties
<1>3. \A i \in f..n : s[i] \in S
  BY <1>1, ElementOfSeq
<1>4. \A i \in f..(n + 1) : t[i] \in S
  BY <1>1, <1>2, ElementOfSeq
<1> HIDE DEF t
<1>5. /\ SubSeq(s, f, n) \in Seq(S) /\ Len(SubSeq(s, f, n)) = k
      /\ \A i \in 1..k : SubSeq(s, f, n)[i] = s[f + i - 1]
  <2> HIDE DEF n
  <2> QED
    BY <1>1, <1>3, SubSeqProperties
<1>6. /\ SubSeq(t, f, n + 1) \in Seq(S) /\ Len(SubSeq(t, f, n + 1)) = k + 1
      /\ \A i \in 1..(k + 1) : SubSeq(t, f, n + 1)[i] = t[f + i - 1]
  <2> HIDE DEF n
  <2> QED
    BY <1>1, <1>4, SubSeqProperties
<1> DEFINE u == Append(SubSeq(s, f, n), ch)
<1>7. u \in Seq(S) /\ Len(u) = k + 1 /\ (\A i \in 1..k : u[i] = s[f + i - 1]) /\ u[k + 1] = ch
  BY <1>5, AppendProperties
<1> HIDE DEF n, k, u
<1>8. ASSUME NEW i \in 1..(k + 1) PROVE SubSeq(t, f, n + 1)[i] = u[i]
  <2>1. CASE i = k + 1
    BY <1>1, <1>2, <1>6, <1>7, <2>1
  <2>2. CASE i \in 1..k
    <3>1. f + i - 1 \in 1..n
      BY <1>1, <2>2
    <3> QED
      BY <1>2, <1>6, <1>7, <2>2, <3>1
  <2> QED
    BY <1>1, <2>1, <2>2
<1>9. SubSeq(t, f, n + 1) = u
  BY <1>6, <1>7, <1>8, SeqEqual
<1>10. SubSeq(s, f, n) = <<>> <=> k = 0
  BY <1>1, <1>5, EmptySeq
<1> QED
  BY <1>1, <1>5, <1>9, <1>10 DEF n, t, u

(* The text grows with what is taken, from its first character on. *)
LEMMA TextGrows ==
  ASSUME NEW s \in Seq(Chars), NEW ch \in Chars
  PROVE  /\ Text(s) \in Seq(Chars)
         /\ Text(Append(s, ch)) = IF Text(s) = <<>> /\ ch = Blank THEN <<>>
                                  ELSE Append(Text(s), ch)
<1> DEFINE P == Chars \ {Blank}
<1>1. PICK f \in 1..(Len(s) + 1) :
        f = FirstOf(s, P) /\ (\A j \in 1..(f - 1) : s[j] \notin P) /\ (f <= Len(s) => s[f] \in P)
  BY FirstOfIsFirst
<1>2. PICK t \in Seq(Chars) : t = Append(s, ch)
  BY AppendProperties
<1>3. ch \in P <=> ch # Blank
  OBVIOUS
<1> HIDE DEF P
<1>4. Len(t) = Len(s) + 1 /\ t[Len(s) + 1] = ch /\ \A j \in 1..Len(s) : t[j] = s[j]
  BY <1>2
<1>5. Text(s) = SubSeq(s, f, Len(s)) /\ Text(t) = SubSeq(t, FirstOf(t, P), Len(t))
  BY <1>1 DEF Text, P
<1>6. Text(s) \in Seq(Chars) /\ (Text(s) = <<>> <=> f = Len(s) + 1)
  BY <1>5, SubSeqOfAppend
<1>7. CASE f = Len(s) + 1 /\ ch = Blank
  <2> DEFINE e == Len(s) + 2
  <2>1. ASSUME NEW j \in 1..(e - 1) PROVE t[j] \notin P
    <3>1. j \in 1..(f - 1) \/ j = Len(s) + 1
      BY <1>7
    <3> QED
      BY <1>1, <1>3, <1>4, <1>7, <3>1
  <2>2. e \in 1..(Len(t) + 1) /\ ~(e <= Len(t)) /\ e = Len(t) + 1
    BY <1>4
  <2> HIDE DEF e
  <2>3. FirstOf(t, P) = Len(t) + 1
    BY <2>1, <2>2, FirstIs
  <2> QED
    BY <1>2, <1>5, <1>6, <1>7, <2>3
<1>8. CASE ~(f = Len(s) + 1 /\ ch = Blank)
  <2>1. f \in 1..(Len(t) + 1) /\ t[f] \in P
    BY <1>1, <1>3, <1>4, <1>8
  <2>2. ASSUME NEW j \in 1..(f - 1) PROVE t[j] \notin P
    <3>1. j \in 1..Len(s)
      OBVIOUS
    <3> QED
      BY <1>1, <1>4, <3>1
  <2>3. FirstOf(t, P) = f
    BY <2>1, <2>2, FirstIs
  <2>4. SubSeq(t, f, Len(t)) = Append(SubSeq(s, f, Len(s)), ch)
    BY <1>2, <1>4, SubSeqOfAppend
  <2> QED
    BY <1>2, <1>5, <1>6, <1>8, <2>3, <2>4
<1> QED
  BY <1>2, <1>6, <1>7, <1>8

(* Whatever begins the text and is followed by the end of a command is its *)
(* first word.                                                             *)
LEMMA WordIs ==
  ASSUME NEW s \in Seq(Chars), NEW w \in Seq(Plain), Len(w) <= Len(Text(s)),
         \A i \in 1..Len(w) : Text(s)[i] = w[i],
         Len(w) < Len(Text(s)) => Text(s)[Len(w) + 1] \in Ends
  PROVE  Word(s) = w
<1>1. PICK t \in Seq(Chars) : t = Text(s)
  BY TextGrows, Blank \in Chars DEF Chars
<1>2. \A i \in 1..Len(w) : w[i] \notin Ends
  <2>1. \A x \in Plain : x \notin Ends
    BY DEF Plain
  <2> QED
    BY <2>1
<1>3. PICK n \in Nat : n = Len(w)
  OBVIOUS
<1>4. FirstOf(t, Ends) = n + 1
  <2>1. \A j \in 1..((n + 1) - 1) : t[j] \notin Ends
    BY <1>1, <1>2, <1>3
  <2>2. n + 1 \in 1..(Len(t) + 1) /\ (n + 1 <= Len(t) => t[n + 1] \in Ends)
    BY <1>1, <1>3
  <2> QED
    BY <2>1, <2>2, FirstIs
<1>5. SubSeq(t, 1, n) = w
  BY <1>1, <1>3
<1>6. (n + 1) - 1 = n
  OBVIOUS
<1> QED
  BY <1>1, <1>4, <1>5, <1>6, Zenon DEF Word, Ends

(* A text that begins with a command goes on beginning with it, and the    *)
(* first character behind the command ends it.                             *)
LEMMA BeginStays ==
  ASSUME NEW w \in Seq(Plain), NEW t \in Seq(Chars), NEW x \in Chars, w # <<>>,
         Len(w) <= Len(t), \A i \in 1..Len(w) : t[i] = w[i],
         IF Len(w) = Len(t) THEN x \in Ends ELSE t[Len(w) + 1] \in Ends
  PROVE  LET u == Append(t, x)
         IN /\ t # <<>> /\ Len(w) <= Len(u) /\ Len(w) # Len(u)
            /\ \A i \in 1..Len(w) : u[i] = w[i]
            /\ u[Len(w) + 1] \in Ends
<1>1. PICK n \in Nat, m \in Nat : n = Len(w) /\ m = Len(t)
  OBVIOUS
<1>2. n >= 1 /\ n <= m
  BY <1>1, NotEmpty
<1>3. PICK u : u = Append(t, x)
  OBVIOUS
<1>4. Len(u) = m + 1 /\ u[m + 1] = x /\ \A i \in 1..m : u[i] = t[i]
  BY <1>1, <1>3, AppendProperties
<1>5. \A i \in 1..n : u[i] = w[i]
  BY <1>1, <1>2, <1>4
<1>6. u[n + 1] \in Ends
  <2>1. CASE n = m
    BY <1>1, <1>4, <2>1
  <2>2. CASE n # m
    <3>1. n + 1 \in 1..m
      BY <1>2, <2>2
    <3> QED
      BY <1>1, <1>4, <2>2, <3>1
  <2> QED
    BY <2>1, <2>2
<1>7. t # <<>>
  BY <1>1, <1>2
<1> QED
  BY <1>1, <1>2, <1>3, <1>4, <1>5, <1>6, <1>7

(* Such a text is not the command, when it is longer. *)
LEMMA BeginIs ==
  ASSUME NEW w \in Seq(Plain), NEW t \in Seq(Chars), w # <<>>,
         Len(w) <= Len(t), \A i \in 1..Len(w) : t[i] = w[i]
  PROVE  t # <<>> /\ Head(t) = w[1] /\ (Len(w) # Len(t) => w # t)
<1>1. Len(w) \in Nat /\ Len(w) >= 1 /\ 1 \in 1..Len(w)
  BY NotEmpty
<1>2. t # <<>>
  BY <1>1
<1> QED
  BY <1>1, <1>2, NotEmpty

-----------------------------------------------------------------------------
(* The invariant.                                                          *)
LEMMA LoaderInvInit == Init => LoaderInv
<1> SUFFICES ASSUME Init PROVE LoaderInv
  OBVIOUS
<1>1. Taken = <<>>
  BY DEF Init, Taken, Text
<1>2. Skips("s_initial")
  BY DEF Init, Skips, Top, Below, Last
<1> QED
  BY <1>1, <1>2 DEF Init, LoaderInv, LoaderTypes, ParserInv, NoCommand, AbortsAfterErrorOnly, States

(* What arrives and what happens outside parse_() leaves the parser alone, *)
(* and so it leaves the character it will go on with.                      *)
LEMMA OutsideInv ==
  ASSUME LoaderInv, (\E ch \in Chars : Arrive(ch)) \/ Accept \/ Report \/ UNCHANGED vars
  PROVE  LoaderInv'
<1>1. UNCHANGED <<parserVars, parsed, refused, superfluous>> /\ (pc' = "aborted" <=> pc = "aborted")
  BY DEF Arrive, Accept, Report, vars
<1>2. p_command' \in Seq(Chars)
  <2>1. p_command \in Seq(Chars)
    BY DEF LoaderInv, LoaderTypes
  <2>2. ASSUME NEW ch \in Chars, Arrive(ch) PROVE p_command' \in Seq(Chars)
    <3>1. p_command' = Append(p_command, ch)
      BY <2>2 DEF Arrive
    <3> QED
      BY <2>1, <3>1, AppendProperties
  <2>3. Accept \/ Report \/ UNCHANGED vars => p_command' = p_command
    BY DEF Accept, Report, vars
  <2> QED
    BY <2>1, <2>2, <2>3
<1>3. ASSUME NEW P, NextIs(P) PROVE NextIs(P)'
  <2>1. CASE \E ch \in Chars : Arrive(ch)
    <3>1. PICK ch \in Chars : Arrive(ch)
      BY <2>1
    <3>2. p_command \in Seq(Chars) /\ p_command # <<>> /\ p_command' = Append(p_command, ch)
      BY <1>3, <3>1 DEF Arrive, NextIs, LoaderInv, LoaderTypes
    <3>3. Head(p_command') = Head(p_command) /\ p_command' # <<>>
      BY <3>2
    <3> QED
      BY <1>3, <3>1, <3>3 DEF Arrive, NextIs
  <2>2. CASE Accept \/ Report \/ UNCHANGED vars
    BY <1>3, <2>2 DEF Accept, Report, vars, NextIs
  <2> QED
    BY <2>1, <2>2
<1>4. LoaderTypes' /\ AbortsAfterErrorOnly'
  BY <1>1, <1>2 DEF LoaderInv, LoaderTypes, AbortsAfterErrorOnly, parserVars
<1>5. Taken' = Taken /\ NoCommand' = NoCommand
  BY <1>1 DEF parserVars, NoCommand, Taken
<1>6. HalfCommand => HalfCommand'
  BY <1>1, <1>3, <1>5 DEF HalfCommand, parserVars
<1>7. WholeCommand => WholeCommand'
  BY <1>1, <1>3, <1>5 DEF WholeCommand, parserVars
<1>8. ParserInv'
  BY <1>1, <1>3, <1>5, <1>6, <1>7
     DEF LoaderInv, ParserInv, Top, Skips, Below, parserVars
<1> QED
  BY <1>4, <1>8 DEF LoaderInv

(* What is pushed is on top, and pop() uncovers what was below.            *)
LEMMA Pushed ==
  ASSUME NEW s \in Seq(States), NEW t \in Seq(States), t # <<>>
  PROVE  /\ s \o t \in Seq(States) /\ s \o t # <<>> /\ Last(s \o t) = Last(t)
         /\ Len(t) > 1 => Len(s \o t) > 1 /\ (s \o t)[Len(s \o t) - 1] = t[Len(t) - 1]
<1>1. PICK u \in Seq(States) : u = s \o t
  BY ConcatProperties
<1>2. /\ Len(u) = Len(s) + Len(t)
      /\ \A i \in 1..(Len(s) + Len(t)) : u[i] = IF i <= Len(s) THEN s[i] ELSE t[i - Len(s)]
  BY <1>1, ConcatProperties
<1>3. Len(s) \in Nat /\ Len(t) \in Nat /\ Len(t) >= 1
  BY EmptySeq, LenProperties
<1>4. u[Len(s) + Len(t)] = t[Len(t)] /\ u # <<>>
  BY <1>2, <1>3
<1>5. Len(t) > 1 => u[Len(s) + Len(t) - 1] = t[Len(t) - 1]
  BY <1>2, <1>3
<1> QED
  BY <1>1, <1>2, <1>3, <1>4, <1>5 DEF Last

LEMMA Popped ==
  ASSUME NEW s \in Seq(States), s # <<>>
  PROVE  /\ Front(s) \in Seq(States)
         /\ Len(s) > 1 => Front(s) # <<>> /\ Last(Front(s)) = s[Len(s) - 1]
<1>1. PICK n \in Nat : n = Len(s) - 1
  BY EmptySeq
<1>2. \A i \in 1..n : s[i] \in States
  BY <1>1, LenProperties
<1>3. PICK u : u = SubSeq(s, 1, n)
  OBVIOUS
<1>4. u \in Seq(States) /\ Len(u) = n /\ (n > 0 => u[n] = s[n])
  <2>1. /\ u \in Seq(States) /\ Len(u) = IF 1 <= n THEN n - 1 + 1 ELSE 0
        /\ \A i \in 1..(n - 1 + 1) : u[i] = s[1 + i - 1]
    BY <1>2, <1>3, SubSeqProperties
  <2>2. n > 0 => n \in 1..(n - 1 + 1) /\ 1 + n - 1 = n
    OBVIOUS
  <2> QED
    BY <2>1, <2>2
<1>5. Front(s) = u
  BY <1>1, <1>3 DEF Front
<1> QED
  BY <1>1, <1>4, <1>5, EmptySeq DEF Last

(* A turn of parse_() takes a character or puts it back, or it is the last *)
(* one.                                                                    *)
LEMMA TurnTypes ==
  ASSUME LoaderInv, parse_
  PROVE  /\ c \in Chars /\ p_command \in Seq(Chars) /\ parsed \in Seq(Chars)
         /\ Take => parsed' = Append(parsed, c) /\ p_command' \in Seq(Chars) /\ parsed' \in Seq(Chars)
         /\ Taken \in Seq(Chars)
         /\ Take => Taken' = IF Taken = <<>> /\ c = Blank THEN <<>>
                                    ELSE Append(Taken, c)
         /\ UNCHANGED parsed => UNCHANGED Taken
         /\ Take /\ Taken # <<>> =>
              Taken' # <<>> /\ Taken'[1] = Taken[1]
         /\ Take /\ Taken = <<>> /\ c # Blank => Taken' = <<c>>
<1>1. p_command \in Seq(Chars) /\ parsed \in Seq(Chars) /\ p_command # <<>>
  BY DEF LoaderInv, LoaderTypes, parse_
<1>2. c \in Chars /\ Tail(p_command) \in Seq(Chars)
  BY <1>1, HeadTailProperties DEF c
<1>3. Append(parsed, c) \in Seq(Chars)
  BY <1>1, <1>2, AppendProperties
<1>4. PICK t \in Seq(Chars) : t = Taken
  BY <1>1, <1>2, TextGrows DEF Taken
<1>5. Text(Append(parsed, c)) = IF t = <<>> /\ c = Blank THEN <<>> ELSE Append(t, c)
  BY <1>1, <1>2, <1>4, TextGrows DEF Taken
<1>6. t # <<>> => Append(t, c) # <<>> /\ Append(t, c)[1] = t[1]
  <2>1. t # <<>> => 1 \in 1..Len(t)
    BY EmptySeq
  <2> QED
    BY <1>2, <2>1, AppendProperties
<1>7. Append(<<>>, c) = <<c>>
  OBVIOUS
<1>8. Take => parsed' = Append(parsed, c) /\ p_command' \in Seq(Chars) /\ parsed' \in Seq(Chars)
  BY <1>2, <1>3 DEF Take
<1>9. Take => Taken' = IF t = <<>> /\ c = Blank THEN <<>> ELSE Append(t, c)
  <2>1. Taken' = Text(parsed')
    BY DEF Taken
  <2> QED
    BY <1>5, <1>8, <2>1
<1>10. UNCHANGED parsed => UNCHANGED Taken
  BY DEF Taken
<1> QED
  BY <1>1, <1>2, <1>4, <1>6, <1>7, <1>8, <1>9, <1>10

LEMMA SkipInv ==
  ASSUME LoaderInv, parse_, s_skipwhite PROVE LoaderInv'
<1>1. \/ Skips("s_initial") /\ Taken = <<>> /\ NoCommand
      \/ Skips("s_groupscan") /\ Taken # <<>> /\ Taken[1] = "{" /\ NoCommand
  BY DEF LoaderInv, ParserInv, s_skipwhite
<1>2. UNCHANGED <<pc, refused, failing>> /\ NoCommand' /\ AbortsAfterErrorOnly'
  BY <1>1 DEF LoaderInv, s_skipwhite, Take, Unget, Calm, NoCommand, AbortsAfterErrorOnly
<1>3. CASE c = Blank
  <2>1. Take /\ UNCHANGED status_
    BY <1>3 DEF s_skipwhite
  <2>2. LoaderTypes'
    BY <1>2, <2>1, TurnTypes DEF LoaderInv, LoaderTypes, NoCommand
  <2>3. \/ Skips("s_initial")' /\ Taken' = <<>>
        \/ Skips("s_groupscan")' /\ Taken' # <<>> /\ Taken'[1] = "{"
    BY <1>1, <1>3, <2>1, TurnTypes DEF Skips, Top, Below
  <2> QED
    BY <1>2, <2>2, <2>3 DEF LoaderInv, ParserInv
<1>4. CASE c # Blank
  <2>1. Unget /\ status_' = Front(status_)
    BY <1>4 DEF s_skipwhite, Pop
  <2>2. status_' \in Seq(States) /\ status_' # <<>> /\ Top' = Below
    BY <1>1, <2>1, Popped DEF LoaderInv, LoaderTypes, Skips, Top, Below
  <2>3. LoaderTypes'
    BY <1>2, <2>1, <2>2 DEF LoaderInv, LoaderTypes, NoCommand, Unget
  <2>4. NextIs(Chars \ {Blank})'
    BY <1>2, <1>4, <2>1, TurnTypes DEF NextIs, parse_, Unget, c
  <2>5. \/ Top' = "s_initial" /\ Taken' = <<>>
        \/ Top' = "s_groupscan" /\ Taken' # <<>> /\ Taken'[1] = "{"
    BY <1>1, <2>1, <2>2 DEF Skips, Unget, Taken
  <2> QED
    BY <1>2, <2>3, <2>4, <2>5 DEF LoaderInv, ParserInv
<1> QED
  BY <1>3, <1>4

LEMMA InitialInv ==
  ASSUME LoaderInv, parse_, s_initial PROVE LoaderInv'
<1>1. /\ Top = "s_initial" /\ Taken = <<>> /\ NoCommand
      /\ refused = 0 => NextIs(Chars \ {Blank})
  BY DEF LoaderInv, ParserInv, s_initial, InitialText, Abort, Skips
<1>2. p_command \in Seq(Chars) /\ p_command # <<>> /\ Len(p_command) \in Nat \ {0} /\ refused \in Nat
  BY EmptySeq DEF LoaderInv, LoaderTypes, parse_
<1>3. CASE InitialText
  <2>1. /\ status_' = Front(status_) \o <<"s_skipwhite", "s_scan">> /\ c \notin Ends
        /\ UNCHANGED <<p_command, parsed, pc, failing, refused, new_processes_, current_>>
    BY <1>3 DEF InitialText, Pop, Unget, Calm, Ends
  <2>2. status_' \in Seq(States) /\ status_' # <<>> /\ Top' = "s_scan"
    <3>1. <<"s_skipwhite", "s_scan">> \in Seq(States) /\ Last(<<"s_skipwhite", "s_scan">>) = "s_scan"
      BY DEF Last, States
    <3> QED
      BY <2>1, <3>1, Popped, Pushed DEF LoaderInv, LoaderTypes, Top
  <2>3. NextIs(Chars \ Ends)'
    BY <2>1, TurnTypes DEF NextIs, parse_, c
  <2> QED
    BY <1>1, <2>1, <2>2, <2>3, TurnTypes
       DEF LoaderInv, LoaderTypes, ParserInv, NoCommand, AbortsAfterErrorOnly
<1>4. CASE Abort
  <2>1. UNCHANGED <<parserVars, p_command, parsed, refused>> /\ c = Blank
    BY <1>4 DEF Abort, Calm
  <2>2. refused > 0
    BY <1>1, <1>2, <2>1 DEF NextIs, c
  <2>3. LoaderTypes'
    BY <2>1, <2>2 DEF LoaderInv, LoaderTypes, parserVars
  <2>4. Top' = "s_initial" /\ Taken' = <<>> /\ NoCommand' /\ refused' # 0
    BY <1>1, <1>2, <2>1, <2>2, TurnTypes DEF Top, NoCommand, parserVars
  <2> QED
    BY <2>1, <2>2, <2>3, <2>4 DEF LoaderInv, ParserInv, AbortsAfterErrorOnly
<1>5. CASE Error
  <2>1. UNCHANGED <<parserVars, parsed>> /\ p_command' = <<>> /\ refused' = refused + Len(p_command)
    BY <1>5 DEF Error
  <2>2. refused' \in Nat /\ refused' > 0
    BY <1>2, <2>1
  <2>3. LoaderTypes'
    BY <2>1, <2>2 DEF LoaderInv, LoaderTypes, parserVars
  <2>4. Top' = "s_initial" /\ Taken' = <<>> /\ NoCommand' /\ refused' # 0
    BY <1>1, <1>2, <2>1, <2>2, TurnTypes DEF Top, NoCommand, parserVars
  <2> QED
    BY <2>1, <2>2, <2>3, <2>4 DEF LoaderInv, ParserInv, AbortsAfterErrorOnly
<1> QED
  BY <1>3, <1>4, <1>5 DEF s_initial

LEMMA ScanInv ==
  ASSUME LoaderInv, parse_, s_scan PROVE LoaderInv'
<1>1. Top = "s_scan" /\ Taken = <<>> /\ NoCommand /\ NextIs(Chars \ Ends)
  BY DEF LoaderInv, ParserInv, s_scan, Skips
<1>2. UNCHANGED <<pc, refused, failing>> /\ NoCommand' /\ AbortsAfterErrorOnly'
  BY <1>1 DEF LoaderInv, s_scan, Take, Unget, Calm, NoCommand, AbortsAfterErrorOnly
<1>3. CASE c = "{"
  <2>1. Take /\ status_' = status_ \o <<"s_groupscan", "s_skipwhite">>
    BY <1>3 DEF s_scan
  <2>2. status_' \in Seq(States) /\ status_' # <<>> /\ Skips("s_groupscan")'
    <3> DEFINE t == <<"s_groupscan", "s_skipwhite">>
    <3>1. t \in Seq(States) /\ t # <<>> /\ Last(t) = "s_skipwhite" /\ Len(t) > 1 /\ Len(t) - 1 = 1 /\ t[1] = "s_groupscan"
      BY DEF Last, States
    <3> HIDE DEF t
    <3>2. /\ status_ \o t \in Seq(States) /\ status_ \o t # <<>> /\ Last(status_ \o t) = Last(t)
          /\ Len(status_ \o t) > 1 /\ (status_ \o t)[Len(status_ \o t) - 1] = t[1]
      BY <3>1, Pushed DEF LoaderInv, LoaderTypes
    <3> QED
      BY <2>1, <3>1, <3>2 DEF Skips, Top, Below, t
  <2>3. Taken' # <<>> /\ Taken'[1] = "{"
    <3>1. Taken' = <<"{">>
      BY <1>1, <1>3, <2>1, TurnTypes DEF Blank
    <3> QED
      BY <3>1
  <2>4. LoaderTypes'
    BY <1>2, <2>1, <2>2, TurnTypes DEF LoaderInv, LoaderTypes, NoCommand
  <2> QED
    BY <1>2, <2>2, <2>3, <2>4 DEF LoaderInv, ParserInv
<1>4. CASE c # "{"
  <2>1. Unget /\ status_' = Append(status_, "s_command")
    BY <1>4 DEF s_scan
  <2>2. status_' \in Seq(States) /\ status_' # <<>> /\ Top' = "s_command"
    <3>1. "s_command" \in States
      BY DEF States
    <3> QED
      BY <2>1, <3>1, AppendProperties DEF LoaderInv, LoaderTypes, Top, Last
  <2>3. NextIs(Chars \ (Ends \cup {"{"}))'
    BY <1>1, <1>2, <1>4, <2>1 DEF NextIs, Unget, c
  <2>4. HalfCommand'
    <3>1. new_processes_' = <<>> /\ current_' = <<>> /\ Taken' = <<>>
      BY <1>1, <1>2, <2>1, TurnTypes DEF NoCommand, Unget
    <3> QED
      BY <2>3, <3>1, EmptySeq DEF HalfCommand, NextIs
  <2>5. LoaderTypes'
    BY <1>2, <2>1, <2>2 DEF LoaderInv, LoaderTypes, NoCommand, Unget
  <2> QED
    BY <1>2, <2>2, <2>4, <2>5 DEF LoaderInv, ParserInv
<1> QED
  BY <1>3, <1>4

LEMMA SwallowInv ==
  ASSUME LoaderInv, parse_, Swallow PROVE LoaderInv'
<1>1. Take /\ UNCHANGED <<parserVars, refused, superfluous, pc>>
  BY DEF Swallow, Calm, Take
<1>2. LoaderTypes' /\ AbortsAfterErrorOnly' /\ Top' = Top /\ NoCommand' = NoCommand
  BY <1>1, TurnTypes DEF LoaderInv, LoaderTypes, AbortsAfterErrorOnly, Top, NoCommand, parserVars
<1>3. CASE Top = "s_groupscan"
  <2>1. Taken # <<>> /\ Taken[1] = "{" /\ NoCommand
    BY <1>3 DEF LoaderInv, ParserInv, Skips
  <2> QED
    BY <1>1, <1>2, <1>3, <2>1, TurnTypes DEF LoaderInv, ParserInv
<1>4. CASE Top = "s_arg_or_control" /\ superfluous
  BY <1>1, <1>2, <1>4 DEF LoaderInv, ParserInv
<1>5. CASE Top = "s_arg_or_control" /\ ~superfluous
  <2>1. WholeCommand
    BY <1>5 DEF LoaderInv, ParserInv, Skips
  <2> DEFINE w == new_processes_[1]
  <2>2. /\ Len(new_processes_) = 1 /\ current_ = <<>> /\ w \in Seq(Plain) /\ w # <<>> /\ w[1] # "{"
        /\ Len(w) <= Len(Taken) /\ \A i \in 1..Len(w) : Taken[i] = w[i]
        /\ IF Len(w) = Len(Taken) THEN NextIs(Controls) ELSE Taken[Len(w) + 1] \in Ends
    BY <2>1 DEF WholeCommand
  <2>3. PICK v \in Seq(Plain), t \in Seq(Chars), x \in Chars : v = w /\ t = Taken /\ x = c
    BY <2>2, TurnTypes
  <2>4. v # <<>> /\ v[1] # "{" /\ Len(v) <= Len(t) /\ \A i \in 1..Len(v) : t[i] = v[i]
    BY <2>2, <2>3
  <2>5. IF Len(v) = Len(t) THEN x \in Ends ELSE t[Len(v) + 1] \in Ends
    BY <2>2, <2>3 DEF NextIs, Ends, c
  <2>6. /\ t # <<>> /\ Len(v) <= Len(Append(t, x)) /\ Len(v) # Len(Append(t, x))
        /\ \A i \in 1..Len(v) : Append(t, x)[i] = v[i]
        /\ Append(t, x)[Len(v) + 1] \in Ends
    BY <2>4, <2>5, BeginStays
  <2>7. Taken' = Append(t, x) /\ new_processes_'[1] = v /\ Len(new_processes_') = 1 /\ current_' = <<>>
    BY <1>1, <2>2, <2>3, <2>6, TurnTypes DEF parserVars
  <2>8. WholeCommand'
    <3> HIDE DEF w
    <3> QED
      BY <2>4, <2>6, <2>7 DEF WholeCommand
  <2> QED
    BY <1>2, <1>5, <2>8 DEF LoaderInv, ParserInv
<1> QED
  BY <1>3, <1>4, <1>5 DEF Swallow

(* What a command consists of are characters. *)
LEMMA PlainIsText ==
  ASSUME NEW s \in Seq(Plain) PROVE s \in Seq(Chars)
BY SeqMonotonic DEF Plain

LEMMA CommandEndsInv ==
  ASSUME LoaderInv, parse_, CommandEnds PROVE LoaderInv'
<1>1. /\ Top = "s_command" /\ c \in Ends
      /\ new_processes_' = Append(new_processes_, current_) /\ current_' = <<>>
      /\ UNCHANGED <<failing, refused, superfluous, pc>>
  BY DEF CommandEnds, Ends, Calm, Take, Unget
<1>2. Unget => UNCHANGED <<p_command, parsed, Taken>>
  BY TurnTypes DEF Unget
<1>3. Top' = "s_arg_or_control" /\ status_' \in Seq(States) /\ status_' # <<>>
  <2> DEFINE s == IF c = Blank THEN <<"s_skipwhite">> ELSE <<>>
             t == <<"s_arg_or_control">>
  <2>1. t \in Seq(States) /\ t # <<>> /\ Last(t) = "s_arg_or_control"
    BY DEF States, Last
  <2>4. s \in Seq(States)
    <3>1. <<"s_skipwhite">> \in Seq(States) /\ <<>> \in Seq(States)
      BY DEF States
    <3> QED
      BY <3>1, Zenon
  <2>2. status_' = status_ \o s \o t
    BY DEF CommandEnds
  <2> HIDE DEF s, t
  <2>3. status_ \o s \in Seq(States)
    BY <2>4, ConcatProperties DEF LoaderInv, LoaderTypes
  <2> QED
    BY <2>1, <2>2, <2>3, Pushed DEF Top
<1>4. LoaderTypes' /\ AbortsAfterErrorOnly'
  <2>1. new_processes_' \in Seq(Seq(Chars)) /\ current_' \in Seq(Chars)
    BY <1>1, AppendProperties DEF LoaderInv, LoaderTypes
  <2>2. p_command' \in Seq(Chars) /\ parsed' \in Seq(Chars)
    BY <1>2, TurnTypes DEF CommandEnds
  <2> QED
    BY <1>1, <1>3, <2>1, <2>2 DEF LoaderInv, LoaderTypes, AbortsAfterErrorOnly
<1>5. CASE superfluous
  BY <1>1, <1>3, <1>4, <1>5 DEF LoaderInv, ParserInv
<1>6. CASE ~superfluous
  <2>1. HalfCommand
    BY <1>1, <1>6 DEF LoaderInv, ParserInv, Skips
  <2>2. current_ # <<>> /\ current_[1] # "{" /\ current_ \in Seq(Plain) /\ Taken = current_
        /\ new_processes_ = <<>>
    BY <1>1, <2>1 DEF HalfCommand, NextIs, c
  <2>3. PICK w \in Seq(Plain) : w = current_
    BY <2>2
  <2>4. w \in Seq(Chars) /\ Len(w) \in Nat
    BY PlainIsText
  <2>5. Len(new_processes_') = 1 /\ new_processes_'[1] = w /\ current_' = <<>>
    <3>1. Append(<<>>, w) = <<w>> /\ Len(<<w>>) = 1 /\ <<w>>[1] = w
      OBVIOUS
    <3> QED
      BY <1>1, <2>2, <2>3, <3>1
  <2>6. w # <<>> /\ w[1] # "{"
    BY <2>2, <2>3
  <2>7. CASE c = Blank
    <3>1. PICK x \in Chars : x = c
      BY TurnTypes
    <3>2. Taken' = Append(w, x)
      BY <2>2, <2>3, <2>7, <3>1, TurnTypes DEF CommandEnds
    <3>3. /\ Len(w) <= Len(Append(w, x)) /\ Len(w) # Len(Append(w, x))
          /\ \A i \in 1..Len(w) : Append(w, x)[i] = w[i]
          /\ Append(w, x)[Len(w) + 1] \in Ends
      <4>1. x \in Ends
        BY <1>1, <3>1
      <4>2. /\ Len(Append(w, x)) = Len(w) + 1 /\ Append(w, x)[Len(w) + 1] = x
            /\ \A i \in 1..Len(w) : Append(w, x)[i] = w[i]
        BY <2>4, AppendProperties
      <4> QED
        BY <2>4, <4>1, <4>2
    <3> QED
      BY <1>3, <1>4, <2>5, <2>6, <3>2, <3>3 DEF LoaderInv, ParserInv, WholeCommand
  <2>8. CASE c # Blank
    <3>1. Unget /\ c \in Controls
      BY <1>1, <2>8 DEF CommandEnds, Ends
    <3>2. Taken' = w
      BY <1>2, <2>2, <2>3, <3>1
    <3>3. pc' = "parsing" /\ ~failing' /\ p_command' # <<>> /\ Head(p_command') \in Controls
      BY <1>1, <1>2, <3>1 DEF parse_, c
    <3>4. Len(w) <= Len(Taken') /\ Len(w) = Len(Taken') /\ \A i \in 1..Len(w) : Taken'[i] = w[i]
      BY <2>4, <3>2
    <3>5. WholeCommand'
      BY <2>5, <2>6, <3>3, <3>4 DEF WholeCommand, NextIs
    <3> QED
      BY <1>3, <1>4, <3>5 DEF LoaderInv, ParserInv
  <2> QED
    BY <2>7, <2>8
<1> QED
  BY <1>5, <1>6

LEMMA CommandInv ==
  ASSUME LoaderInv, parse_, s_command PROVE LoaderInv'
<1>1. CASE CommandEnds
  BY <1>1, CommandEndsInv
<1>2. CASE Top = "s_command" /\ c = "}" /\ Error
  <2>1. /\ UNCHANGED <<parserVars, parsed, pc>> /\ p_command' = <<>> /\ superfluous'
        /\ refused' = refused + Len(p_command)
    BY <1>2 DEF Error
  <2>2. refused' \in Nat /\ refused' >= refused /\ refused \in Nat
    BY <2>1 DEF LoaderInv, LoaderTypes
  <2>3. LoaderTypes'
    BY <2>1, <2>2 DEF LoaderInv, LoaderTypes, parserVars
  <2>4. AbortsAfterErrorOnly' /\ Top' = "s_command"
    BY <1>2, <2>1 DEF parse_, AbortsAfterErrorOnly, Top, parserVars
  <2> QED
    BY <2>1, <2>3, <2>4 DEF LoaderInv, ParserInv
<1>3. CASE /\ Top = "s_command" /\ c \notin Ends \cup {"}"} /\ current_' = Append(current_, c)
           /\ Take /\ UNCHANGED <<status_, new_processes_, refused, superfluous, pc>>
  <2>1. c \in Chars /\ c \in Plain
    BY <1>3, TurnTypes DEF Plain
  <2>2. current_' \in Seq(Chars)
    BY <1>3, <2>1, AppendProperties DEF LoaderInv, LoaderTypes
  <2>3. LoaderTypes' /\ AbortsAfterErrorOnly' /\ Top' = "s_command"
    BY <1>3, <2>2, TurnTypes DEF LoaderInv, LoaderTypes, AbortsAfterErrorOnly, Top
  <2>4. CASE superfluous
    BY <1>3, <2>3, <2>4 DEF LoaderInv, ParserInv
  <2>5. CASE ~superfluous
    <3>1. HalfCommand
      BY <1>3, <2>5 DEF LoaderInv, ParserInv, Skips
    <3>2. PICK w \in Seq(Plain) : w = current_ /\ w = Taken
      BY <3>1 DEF HalfCommand
    <3>3. Append(w, c) \in Seq(Plain) /\ Append(w, c) # <<>>
      BY <2>1, AppendProperties
    <3>4. Append(w, c)[1] # "{"
      <4>1. CASE w = <<>>
        <5>1. c # "{"
          BY <3>1, <3>2, <4>1 DEF HalfCommand, NextIs, c
        <5>2. Append(w, c) = <<c>>
          BY <4>1
        <5>3. <<c>>[1] = c
          OBVIOUS
        <5> QED
          BY <5>1, <5>2, <5>3
      <4>2. CASE w # <<>>
        <5>1. w[1] # "{"
          BY <3>1, <3>2, <4>2 DEF HalfCommand
        <5> QED
          BY <2>1, <4>2, <5>1, FirstStays
      <4> QED
        BY <4>1, <4>2
    <3>5. current_' = Append(w, c) /\ Taken' = Append(w, c) /\ new_processes_' = <<>>
      BY <1>3, <3>1, <3>2, TurnTypes DEF HalfCommand, Ends
    <3>6. HalfCommand'
      BY <3>3, <3>4, <3>5 DEF HalfCommand
    <3> QED
      BY <2>3, <3>6 DEF LoaderInv, ParserInv
  <2> QED
    BY <2>4, <2>5
<1> QED
  BY <1>1, <1>2, <1>3 DEF s_command, Ends, Calm, Take

LEMMA LoaderInvHolds == Spec => []LoaderInv
<1>1. LoaderInv /\ [Next]_vars => LoaderInv'
  BY OutsideInv, SkipInv, InitialInv, ScanInv, SwallowInv, CommandInv DEF Next, parse_
<1> QED
  BY <1>1, LoaderInvInit, PTL DEF Spec

-----------------------------------------------------------------------------
(* Whatever arrives, in whatever pieces, and whatever errors were at its   *)
(* beginning: when the parser waits, what it keeps is the first word of    *)
(* what it has taken.                                                      *)
THEOREM KeepsFirstWord == Spec => []CommandIsFirstWord
<1>1. ASSUME LoaderInv, pc = "waiting", ~superfluous
      PROVE  IF Taken = <<>> \/ Head(Taken) = "{"
             THEN new_processes_ = <<>> /\ current_ = <<>>
             ELSE LET whole == Word(parsed) # Taken
                  IN /\ new_processes_ = IF whole THEN <<Word(parsed)>> ELSE <<>>
                     /\ current_ = IF whole THEN <<>> ELSE Word(parsed)
  <2>1. \/ Taken = <<>> /\ NoCommand
        \/ Taken # <<>> /\ Taken[1] = "{" /\ NoCommand
        \/ HalfCommand \/ WholeCommand
    BY <1>1 DEF LoaderInv, ParserInv
  <2>2. parsed \in Seq(Chars) /\ Taken \in Seq(Chars)
    BY <1>1, TextGrows, Blank \in Chars DEF LoaderInv, LoaderTypes, Taken, Chars
  <2>3. CASE HalfCommand
    <3>1. current_ # <<>> /\ current_[1] # "{" /\ current_ = Taken /\ current_ \in Seq(Plain)
          /\ new_processes_ = <<>>
      BY <1>1, <2>3 DEF HalfCommand, NextIs
    <3>2. PICK w \in Seq(Plain) : w = current_
      BY <3>1
    <3>3. w \in Seq(Chars) /\ w # <<>> /\ Text(parsed) = w /\ Taken = w /\ Head(w) # "{"
      BY <3>1, <3>2, PlainIsText, NotEmpty DEF Taken
    <3>4. Word(parsed) = w
      <4>1. Len(w) \in Nat /\ Len(w) <= Len(w) /\ ~(Len(w) < Len(w))
        OBVIOUS
      <4> QED
        BY <2>2, <3>3, <4>1, WordIs
    <3> QED
      BY <3>1, <3>2, <3>3, <3>4
  <2>4. CASE WholeCommand
    <3>1. PICK w \in Seq(Plain) :
            /\ w = new_processes_[1] /\ Len(new_processes_) = 1 /\ current_ = <<>>
            /\ w # <<>> /\ w[1] # "{" /\ Len(w) <= Len(Taken) /\ Len(w) # Len(Taken)
            /\ Taken[Len(w) + 1] \in Ends /\ \A i \in 1..Len(w) : Taken[i] = w[i]
      BY <1>1, <2>4 DEF WholeCommand, NextIs
    <3>2. Word(parsed) = w
      BY <2>2, <3>1, WordIs DEF Taken
    <3>3. new_processes_ = <<w>>
      <4>1. new_processes_ \in Seq(Seq(Chars))
        BY <1>1 DEF LoaderInv, LoaderTypes
      <4> QED
        BY <3>1, <4>1, OnlyOne
    <3>4. Taken # <<>> /\ Head(Taken) # "{" /\ w # Taken
      BY <2>2, <3>1, BeginIs
    <3> QED
      BY <3>1, <3>2, <3>3, <3>4
  <2>5. Taken # <<>> /\ Taken[1] = "{" => Head(Taken) = "{"
    BY <2>2, NotEmpty
  <2> QED
    BY <2>1, <2>3, <2>4, <2>5 DEF NoCommand
<1>2. LoaderInv => CommandIsFirstWord
  BY <1>1 DEF CommandIsFirstWord, Taken
<1> QED
  BY <1>2, LoaderInvHolds, PTL

(* The assertion in s_initial fails only for input that comes after an     *)
(* error.                                                                  *)
THEOREM AssertionHolds == Spec => []AbortsAfterErrorOnly
<1>1. LoaderInv => AbortsAfterErrorOnly
  BY DEF LoaderInv
<1> QED
  BY <1>1, LoaderInvHolds, PTL
=============================================================================
