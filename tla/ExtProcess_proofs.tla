------------------------- MODULE ExtProcess_proofs -------------------------
(***************************************************************************)
(* Who holds which end of which socket, for any programs, any number of    *)
(* forks, and every order of forking, failing, closing, terminating and    *)
(* dying.                                                                  *)
(***************************************************************************)
EXTENDS ExtProcess, SequenceTheorems, FiniteSetTheorems, WellFoundedInduction, TLAPS

-----------------------------------------------------------------------------
(* Loops.  What a loop over a sequence has made of its variable after n    *)
(* steps, and what holds before the first step and after each holds at the *)
(* end.                                                                    *)
(* A nonempty set of natural numbers has a least element. *)
LEMMA Least ==
  ASSUME NEW T \in SUBSET Nat, T # {}
  PROVE  \E x \in T : \A y \in T : x <= y
<1> DEFINE R == StrictSubsetOrdering(Nat)
           U == {1..n : n \in T}
<1>1. IsWellFoundedOn(R, FiniteSubsetsOf(Nat))
  BY FS_StrictSubsetOrderingWellFounded
<1>2. U \subseteq FiniteSubsetsOf(Nat) /\ U # {}
  <2>1. \A n \in Nat : 1..n \in SUBSET Nat /\ IsFiniteSet(1..n)
    BY FS_Interval
  <2> QED
    BY <2>1 DEF FiniteSubsetsOf
<1>3. \A x, y \in Nat : x < y => <<1..x, 1..y>> \in R
  BY DEF StrictSubsetOrdering
<1> HIDE DEF R
<1>4. \E u \in U : \A v \in U : <<v, u>> \notin R
  <2> HIDE DEF U
  <2> QED
    BY <1>1, <1>2, WFMin
<1>5. PICK x \in T : \A v \in U : <<v, 1..x>> \notin R
  BY <1>4
<1>6. ASSUME NEW y \in T PROVE x <= y
  <2>1. 1..y \in U
    OBVIOUS
  <2>2. <<1..y, 1..x>> \notin R
    BY <2>1, <1>5
  <2>3. x \in Nat /\ y \in Nat
    OBVIOUS
  <2> QED
    BY ONLY <2>2, <2>3, <1>3
<1> QED
  BY <1>6

LEMMA Induct ==
  ASSUME NEW N \in Nat, NEW T, 0 \in T, \A n \in 0..(N - 1) : n \in T => n + 1 \in T
  PROVE  \A n \in 0..N : n \in T
<1> DEFINE U == {n \in 0..N : n \notin T}
<1>1. CASE U = {}
  BY <1>1
<1>2. CASE U # {}
  <2>1. U \in SUBSET Nat
    OBVIOUS
  <2>2. PICK x \in U : \A y \in U : x <= y
    BY <1>2, <2>1, Least
  <2>3. x \in 1..N /\ x \notin T /\ x - 1 \in 0..(N - 1)
    OBVIOUS
  <2>4. x - 1 \in T
    <3>1. x - 1 \notin U
      BY <2>2, <2>3
    <3> QED
      BY <2>3, <3>1
  <2>5. (x - 1) + 1 \in T
    BY <2>3, <2>4
  <2> QED
    BY <2>3, <2>5
<1> QED
  BY <1>1, <1>2

(* A loop of N steps from x0, its n-th step being step[n]. *)
Steps(X, N) == [1..N -> [X -> X]]
Runs(X, x0, N, step, g) ==
  g \in [0..N -> X] /\ g[0] = x0 /\ \A n \in 1..N : g[n] = step[n][g[n - 1]]

LEMMA Loop ==
  ASSUME NEW X, NEW x0 \in X, NEW N \in Nat, NEW step \in Steps(X, N)
  PROVE  \E g : Runs(X, x0, N, step, g)
<1> DEFINE T == {k \in 0..N : \E g : Runs(X, x0, k, step, g)}
<1>1. 0 \in T
  <2> DEFINE g == [n \in 0..0 |-> x0]
  <2>1. Runs(X, x0, 0, step, g) /\ 0 \in 0..N
    BY DEF Runs
  <2> HIDE DEF g
  <2> QED
    BY <2>1
<1>2. ASSUME NEW k \in 0..(N - 1), k \in T PROVE k + 1 \in T
  <2>1. PICK g : Runs(X, x0, k, step, g)
    BY <1>2
  <2> DEFINE h == [n \in 0..(k + 1) |-> IF n = k + 1 THEN step[k + 1][g[k]] ELSE g[n]]
  <2>2. k + 1 \in 1..N /\ k \in 0..k /\ step[k + 1] \in [X -> X] /\ g[k] \in X
    BY <2>1 DEF Runs, Steps
  <2>3. h \in [0..(k + 1) -> X]
    <3>1. step[k + 1][g[k]] \in X
      BY <2>2
    <3>2. \A n \in 0..(k + 1) : n # k + 1 => n \in 0..k
      OBVIOUS
    <3> QED
      BY <2>1, <3>1, <3>2 DEF Runs
  <2>4. Runs(X, x0, k + 1, step, h)
    <3>1. h[0] = x0
      BY <2>1 DEF Runs
    <3>2. ASSUME NEW n \in 1..(k + 1) PROVE h[n] = step[n][h[n - 1]]
      <4>1. CASE n = k + 1
        <5>1. n - 1 = k /\ k \in 0..(k + 1) /\ k # k + 1 /\ n \in 0..(k + 1)
          BY <4>1
        <5>2. h[n] = step[k + 1][g[k]] /\ h[n - 1] = g[k]
          BY <4>1, <5>1
        <5> QED
          BY <4>1, <5>2
      <4>2. CASE n # k + 1
        <5>1. n \in 1..k /\ n - 1 \in 0..(k + 1) /\ n - 1 # k + 1 /\ n \in 0..(k + 1)
          BY <4>2
        <5>2. h[n] = g[n] /\ h[n - 1] = g[n - 1]
          BY <4>2, <5>1
        <5>3. g[n] = step[n][g[n - 1]]
          BY <2>1, <5>1 DEF Runs
        <5> QED
          BY <5>2, <5>3
      <4> QED
        BY <4>1, <4>2
    <3> HIDE DEF h
    <3> QED
      BY <2>3, <3>1, <3>2 DEF Runs
  <2> HIDE DEF h
  <2> QED
    BY <2>2, <2>4
<1>3. N \in T
  <2> HIDE DEF T
  <2>1. \A n \in 0..N : n \in T
    BY <1>1, <1>2, Induct
  <2> QED
    BY <2>1
<1> QED
  BY <1>3

(* The search, byte by byte. *)
LEMMA HitsAre ==
  ASSUME NEW X, NEW image \in Seq(X)
  PROVE  /\ hits(image)[0] = 0
         /\ \A n \in 1..Len(image) : hits(image)[n] = Advance(hits(image)[n - 1], image[n])
         /\ \A n \in 0..Len(image) : hits(image)[n] \in Nat
<1> DEFINE N == Len(image)
           step == [n \in 1..N |-> [h \in Nat |-> Advance(h, image[n])]]
<1>1. N \in Nat /\ Len(Sought) \in Nat
  BY SoughtAssumption
<1>2. \A n \in 1..N : \A h \in Nat : Advance(h, image[n]) \in Nat
  BY <1>1 DEF Advance
<1>3. step \in Steps(Nat, N)
  BY <1>2 DEF Steps
<1>4. \A n \in 1..N : \A h \in Nat : step[n][h] = Advance(h, image[n])
  OBVIOUS
<1> HIDE DEF step
<1>5. PICK g \in [0..N -> Nat] : g[0] = 0 /\ \A n \in 1..N : g[n] = step[n][g[n - 1]]
  <2> HIDE DEF N
  <2> QED
    <3>1. PICK g : Runs(Nat, 0, N, step, g)
      BY <1>1, <1>3, Loop
    <3> QED
      BY <3>1 DEF Runs
<1>6. \A n \in 1..N : g[n] = Advance(g[n - 1], image[n])
  <2>1. ASSUME NEW n \in 1..N PROVE g[n] = Advance(g[n - 1], image[n])
    <3>1. n - 1 \in 0..N
      BY <1>1
    <3>2. g[n - 1] \in Nat
      BY <3>1
    <3> QED
      BY <1>4, <1>5, <3>2
  <2> QED
    BY <2>1
<1>7. g = [n \in 0..N |-> IF n = 0 THEN 0 ELSE Advance(g[n - 1], image[n])]
  <2>1. \A n \in 0..N : n # 0 => n \in 1..N
    BY <1>1
  <2> QED
    BY <1>5, <1>6, <2>1
<1>8. hits(image) = [n \in 0..N |-> IF n = 0 THEN 0 ELSE Advance(hits(image)[n - 1], image[n])]
  BY <1>7 DEF hits
<1> HIDE DEF N
<1>9. PICK h : h = hits(image)
  OBVIOUS
<1>10. /\ h[0] = 0 /\ \A n \in 1..N : h[n] = Advance(h[n - 1], image[n])
  <2>1. h = [n \in 0..N |-> IF n = 0 THEN 0 ELSE Advance(h[n - 1], image[n])]
    BY <1>8, <1>9
  <2>2. 0 \in 0..N /\ \A n \in 1..N : n \in 0..N /\ n # 0
    BY <1>1
  <2> QED
    BY <2>1, <2>2
<1>11. \A n \in 0..N : h[n] \in Nat
  <2> DEFINE T == {n \in 0..N : h[n] \in Nat}
  <2>1. 0 \in T
    BY <1>1, <1>10
  <2>2. ASSUME NEW n \in 0..(N - 1), n \in T PROVE n + 1 \in T
    <3>1. n + 1 \in 1..N /\ (n + 1) - 1 = n
      BY <1>1
    <3>2. h[n + 1] = Advance(h[n], image[n + 1])
      BY <1>10, <3>1
    <3>3. h[n] \in Nat
      BY <2>2
    <3>4. Advance(h[n], image[n + 1]) \in Nat
      BY <1>1, <3>3 DEF Advance
    <3> QED
      BY <3>1, <3>2, <3>4
  <2> HIDE DEF T
  <2>3. \A n \in 0..N : n \in T
    BY <1>1, <2>1, <2>2, Induct
  <2> QED
    BY <2>3 DEF T
<1> QED
  BY <1>9, <1>10, <1>11 DEF N

(* What a loop takes from a sequence. *)
LEMMA TakingIs ==
  ASSUME NEW X, NEW s \in Seq(X), NEW S
  PROVE  /\ Taking(s, S)[0] = <<>>
         /\ \A n \in 1..Len(s) : Taking(s, S)[n] =
              IF s[n] \in S THEN Append(Taking(s, S)[n - 1], s[n]) ELSE Taking(s, S)[n - 1]
<1> DEFINE N == Len(s)
           step == [n \in 1..N |-> [q \in Seq(X) |-> IF s[n] \in S THEN Append(q, s[n]) ELSE q]]
<1>1. N \in Nat /\ <<>> \in Seq(X)
  BY EmptySeq
<1>2. \A n \in 1..N : \A q \in Seq(X) : (IF s[n] \in S THEN Append(q, s[n]) ELSE q) \in Seq(X)
  BY ElementOfSeq, AppendProperties
<1>3. step \in Steps(Seq(X), N)
  BY <1>2 DEF Steps
<1>4. \A n \in 1..N : \A q \in Seq(X) :
        step[n][q] = IF s[n] \in S THEN Append(q, s[n]) ELSE q
  OBVIOUS
<1> HIDE DEF step
<1>5. PICK g \in [0..N -> Seq(X)] : g[0] = <<>> /\ \A n \in 1..N : g[n] = step[n][g[n - 1]]
  <2> HIDE DEF N
  <2>1. PICK g : Runs(Seq(X), <<>>, N, step, g)
    BY <1>1, <1>3, Loop
  <2> QED
    BY <2>1 DEF Runs
<1>6. \A n \in 1..N : g[n] = IF s[n] \in S THEN Append(g[n - 1], s[n]) ELSE g[n - 1]
  <2>1. ASSUME NEW n \in 1..N
        PROVE  g[n] = IF s[n] \in S THEN Append(g[n - 1], s[n]) ELSE g[n - 1]
    <3>1. n - 1 \in 0..N
      BY <1>1
    <3>2. g[n - 1] \in Seq(X)
      BY <3>1
    <3> QED
      BY <1>4, <1>5, <3>2
  <2> QED
    BY <2>1
<1>7. g = [n \in 0..N |-> IF n = 0 THEN <<>>
                        ELSE IF s[n] \in S THEN Append(g[n - 1], s[n]) ELSE g[n - 1]]
  <2>1. \A n \in 0..N : n # 0 => n \in 1..N
    BY <1>1
  <2> QED
    BY <1>5, <1>6, <2>1
<1>8. PICK h : h = Taking(s, S)
  OBVIOUS
<1>9. h = [n \in 0..N |-> IF n = 0 THEN <<>>
                        ELSE IF s[n] \in S THEN Append(h[n - 1], s[n]) ELSE h[n - 1]]
  BY <1>7, <1>8 DEF Taking
<1> HIDE DEF N
<1>10. /\ h[0] = <<>>
       /\ \A n \in 1..N : h[n] = IF s[n] \in S THEN Append(h[n - 1], s[n]) ELSE h[n - 1]
  <2>1. 0 \in 0..N /\ \A n \in 1..N : n \in 0..N /\ n # 0
    BY <1>1
  <2> QED
    BY <1>9, <2>1
<1> QED
  BY <1>8, <1>10 DEF N

LEMMA ToSetOfAppend ==
  ASSUME NEW X, NEW q \in Seq(X), NEW x \in X
  PROVE  Append(q, x) \in Seq(X) /\ ToSet(Append(q, x)) = ToSet(q) \cup {x}
<1>1. PICK a : a = Append(q, x)
  OBVIOUS
<1>2. /\ a \in Seq(X) /\ Len(a) = Len(q) + 1 /\ a[Len(q) + 1] = x
      /\ \A i \in 1..Len(q) : a[i] = q[i]
  BY <1>1, AppendProperties
<1>3. PICK n \in Nat : n = Len(q)
  OBVIOUS
<1>4. DOMAIN a = 1..(n + 1) /\ DOMAIN q = 1..n /\ 1..(n + 1) = 1..n \cup {n + 1}
  BY <1>2, <1>3, LenProperties
<1> QED
  BY <1>1, <1>2, <1>3, <1>4 DEF ToSet

LEMMA TakenIs ==
  ASSUME NEW X, NEW s \in Seq(X), NEW S
  PROVE  Taken(s, S) \in Seq(X) /\ ToSet(Taken(s, S)) = ToSet(s) \cap S
<1>1. PICK h : h = Taking(s, S)
  OBVIOUS
<1>2. PICK N \in Nat : N = Len(s)
  OBVIOUS
<1>3. /\ h[0] = <<>>
      /\ \A n \in 1..N : h[n] = IF s[n] \in S THEN Append(h[n - 1], s[n]) ELSE h[n - 1]
  BY <1>1, <1>2, TakingIs
<1> DEFINE First(n) == {s[i] : i \in 1..n}
           T == {n \in 0..N : h[n] \in Seq(X) /\ ToSet(h[n]) = First(n) \cap S}
<1>4. 0 \in T
  <2>1. <<>> \in Seq(X) /\ ToSet(<<>>) = {}
    BY EmptySeq DEF ToSet
  <2>2. First(0) = {} /\ 0 \in 0..N
    OBVIOUS
  <2> QED
    BY <1>3, <2>1, <2>2
<1>5. ASSUME NEW n \in 0..(N - 1), n \in T PROVE n + 1 \in T
  <2>1. n + 1 \in 1..N /\ n + 1 \in 0..N /\ (n + 1) - 1 = n /\ 1..(n + 1) = 1..n \cup {n + 1}
    OBVIOUS
  <2>2. s[n + 1] \in X
    BY <1>2, <2>1, ElementOfSeq
  <2>3. First(n + 1) = First(n) \cup {s[n + 1]}
    BY <2>1
  <2>4. h[n + 1] = IF s[n + 1] \in S THEN Append(h[n], s[n + 1]) ELSE h[n]
    BY <1>3, <2>1
  <2>5. h[n] \in Seq(X) /\ ToSet(h[n]) = First(n) \cap S
    BY <1>5
  <2> HIDE DEF First
  <2>6. CASE s[n + 1] \in S
    <3>1. PICK q, x : q = h[n] /\ x = s[n + 1]
      OBVIOUS
    <3>2. Append(q, x) \in Seq(X) /\ ToSet(Append(q, x)) = ToSet(q) \cup {x}
      BY <2>2, <2>5, <3>1, ToSetOfAppend
    <3>3. h[n + 1] = Append(q, x)
      BY <2>4, <2>6, <3>1
    <3>4. ToSet(h[n + 1]) = First(n + 1) \cap S
      BY <2>3, <2>5, <2>6, <3>1, <3>2, <3>3
    <3> QED
      BY <2>1, <3>2, <3>3, <3>4
  <2>7. CASE s[n + 1] \notin S
    BY <2>1, <2>3, <2>4, <2>5, <2>7
  <2> QED
    BY <2>6, <2>7
<1>6. N \in T
  <2> HIDE DEF T
  <2>1. \A n \in 0..N : n \in T
    BY <1>4, <1>5, Induct
  <2> QED
    BY <2>1
<1>7. First(N) = ToSet(s)
  BY <1>2, LenProperties DEF ToSet
<1> QED
  BY <1>1, <1>2, <1>6, <1>7 DEF Taken

LEMMA ToSetOfConcat ==
  ASSUME NEW X, NEW s \in Seq(X), NEW t \in Seq(X)
  PROVE  s \o t \in Seq(X) /\ ToSet(s \o t) = ToSet(s) \cup ToSet(t)
<1>1. PICK u : u = s \o t
  OBVIOUS
<1>2. PICK n \in Nat, m \in Nat : n = Len(s) /\ m = Len(t)
  OBVIOUS
<1>3. /\ u \in Seq(X) /\ Len(u) = n + m
      /\ \A i \in 1..(n + m) : u[i] = IF i <= n THEN s[i] ELSE t[i - n]
  BY <1>1, <1>2, ConcatProperties
<1>4. DOMAIN u = 1..(n + m) /\ DOMAIN s = 1..n /\ DOMAIN t = 1..m
  BY <1>2, <1>3, LenProperties
<1>5. ToSet(u) \subseteq ToSet(s) \cup ToSet(t)
  <2>1. ASSUME NEW i \in 1..(n + m) PROVE u[i] \in ToSet(s) \cup ToSet(t)
    <3>1. CASE i <= n
      <4>1. i \in 1..n
        BY <3>1
      <4> QED
        BY <1>3, <1>4, <3>1, <4>1 DEF ToSet
    <3>2. CASE ~(i <= n)
      <4>1. i - n \in 1..m
        BY <3>2
      <4> QED
        BY <1>3, <1>4, <3>2, <4>1 DEF ToSet
    <3> QED
      BY <3>1, <3>2
  <2> QED
    BY <1>4, <2>1 DEF ToSet
<1>6. ToSet(s) \subseteq ToSet(u)
  <2>1. ASSUME NEW i \in 1..n PROVE s[i] \in ToSet(u)
    <3>1. i \in 1..(n + m) /\ i <= n
      OBVIOUS
    <3> QED
      BY <1>3, <1>4, <3>1 DEF ToSet
  <2> QED
    BY <1>4, <2>1 DEF ToSet
<1>7. ToSet(t) \subseteq ToSet(u)
  <2>1. ASSUME NEW i \in 1..m PROVE t[i] \in ToSet(u)
    <3>1. n + i \in 1..(n + m) /\ ~(n + i <= n) /\ (n + i) - n = i
      OBVIOUS
    <3>2. u[n + i] = t[i]
      BY <1>3, <3>1
    <3> QED
      BY <1>4, <3>1, <3>2 DEF ToSet
  <2> QED
    BY <1>4, <2>1 DEF ToSet
<1> QED
  BY <1>1, <1>3, <1>5, <1>6, <1>7

-----------------------------------------------------------------------------
(* The search.  hit counts the bytes before the n-th that begin comp, or   *)
(* comp has been met.                                                      *)
Matches(image, n, k) == k <= n /\ \A j \in 1..k : image[n - k + j] = Sought[j]

Searched(image, n) ==
  LET hit == hits(image)[n]
  IN /\ hit \in 0..Len(Sought)
     /\ hit < Len(Sought) => Matches(image, n, hit)
     /\ hit = Len(Sought) => \E m \in 0..n : Matches(image, m, Len(Sought))

LEMMA SearchedAll ==
  ASSUME NEW X, NEW image \in Seq(X)
  PROVE  \A n \in 0..Len(image) : Searched(image, n)
<1>1. PICK N \in Nat, L \in Nat : N = Len(image) /\ L = Len(Sought) /\ L > 0
  BY SoughtAssumption, EmptySeq
<1>2. PICK h : /\ h = hits(image) /\ h[0] = 0
               /\ \A n \in 1..N : h[n] = Advance(h[n - 1], image[n])
  BY <1>1, HitsAre
<1> DEFINE T == {n \in 0..N : Searched(image, n)}
<1>3. 0 \in T
  <2>1. Matches(image, 0, 0)
    BY DEF Matches
  <2> QED
    BY <1>1, <1>2, <2>1 DEF Searched
<1>4. ASSUME NEW n \in 0..(N - 1), n \in T PROVE n + 1 \in T
  <2>1. n + 1 \in 1..N /\ (n + 1) - 1 = n /\ n + 1 \in 0..N /\ n \in Nat
    OBVIOUS
  <2>2. /\ h[n] \in 0..L /\ (h[n] < L => Matches(image, n, h[n]))
        /\ h[n] = L => \E m \in 0..n : Matches(image, m, L)
    BY <1>1, <1>2, <1>4 DEF Searched
  <2>3. h[n + 1] = IF h[n] = L THEN h[n]
                   ELSE IF image[n + 1] = Sought[h[n] + 1] THEN h[n] + 1 ELSE 0
    BY <1>1, <1>2, <2>1 DEF Advance
  <2>4. CASE h[n] = L
    <3>1. PICK m \in 0..n : Matches(image, m, L)
      BY <2>2, <2>4
    <3>2. m \in 0..(n + 1)
      BY <2>1
    <3> QED
      BY <1>1, <1>2, <2>1, <2>3, <2>4, <3>1, <3>2 DEF Searched
  <2>5. CASE h[n] # L /\ image[n + 1] = Sought[h[n] + 1]
    <3>1. PICK k \in Nat : k = h[n] /\ k < L
      BY <1>1, <2>2, <2>5
    <3>2. k <= n /\ \A j \in 1..k : image[n - k + j] = Sought[j]
      BY <2>2, <3>1 DEF Matches
    <3>3. ASSUME NEW j \in 1..(k + 1) PROVE image[(n + 1) - (k + 1) + j] = Sought[j]
      <4>1. (n + 1) - (k + 1) + j = n - k + j
        BY <2>1
      <4>2. CASE j = k + 1
        <5>1. n - k + j = n + 1
          BY <2>1, <4>2
        <5> QED
          BY <2>5, <3>1, <4>1, <4>2, <5>1
      <4>3. CASE j # k + 1
        <5>1. j \in 1..k
          BY <4>3
        <5> QED
          BY <3>2, <4>1, <5>1
      <4> QED
        BY <4>2, <4>3
    <3>4. Matches(image, n + 1, k + 1)
      <4>1. k + 1 <= n + 1
        BY <2>1, <3>2
      <4> QED
        BY <3>3, <4>1 DEF Matches
    <3>5. h[n + 1] = k + 1 /\ k + 1 \in 0..L /\ n + 1 \in 0..(n + 1)
      BY <1>1, <2>1, <2>3, <2>5, <3>1
    <3> QED
      BY <1>1, <1>2, <2>1, <3>4, <3>5 DEF Searched
  <2>6. CASE h[n] # L /\ image[n + 1] # Sought[h[n] + 1]
    <3>1. h[n + 1] = 0 /\ Matches(image, n + 1, 0)
      BY <2>1, <2>3, <2>6 DEF Matches
    <3> QED
      BY <1>1, <1>2, <2>1, <3>1 DEF Searched
  <2> QED
    BY <2>4, <2>5, <2>6
<1>5. \A n \in 0..N : n \in T
  <2> HIDE DEF T
  <2> QED
    BY <1>3, <1>4, Induct
<1> QED
  BY <1>1, <1>5

LEMMA SeqOfMore ==
  ASSUME NEW A, NEW B, A \subseteq B, NEW s \in Seq(A) PROVE s \in Seq(B)
<1>1. s \in [1..Len(s) -> A] /\ Len(s) \in Nat
  BY LenProperties, ElementOfSeq
<1>2. s \in [1..Len(s) -> B]
  BY <1>1
<1> QED
  BY <1>1, <1>2, IsASeq

(* What BeginsAt says, index by index. *)
LEMMA BeginsWhere ==
  ASSUME NEW X, NEW image \in Seq(X), NEW s \in Seq(X), s # <<>>, NEW i \in 1..Len(image)
  PROVE  i \in BeginsAt(image, s) <=>
           i + Len(s) - 1 <= Len(image) /\ \A j \in 1..Len(s) : s[j] = image[i + j - 1]
<1>1. PICK N \in Nat, L \in Nat : N = Len(image) /\ L = Len(s) /\ L > 0
  BY EmptySeq
<1>2. PICK t : t = SubSeq(image, i, N)
  OBVIOUS
<1>3. i \in Int /\ N \in Int /\ i <= N /\ N - i + 1 \in Nat /\ 1 <= L /\ L - 1 + 1 = L
  BY <1>1
<1>4. \A m \in i..N : image[m] \in X
  <2>1. \A m \in i..N : m \in 1..N
    BY <1>1
  <2> QED
    BY <1>1, <2>1, ElementOfSeq
<1>5. /\ t \in Seq(X) /\ Len(t) = N - i + 1
      /\ \A j \in 1..(N - i + 1) : t[j] = image[i + j - 1]
  BY <1>2, <1>3, <1>4, SubSeqProperties
<1>6. /\ SubSeq(s, 1, L) = s
  BY <1>1, SubSeqFull
<1>7. DOMAIN image = 1..N
  BY <1>1, LenProperties
<1>8. i \in BeginsAt(image, s) <=> L <= Len(t) /\ s = SubSeq(t, 1, L)
  BY <1>1, <1>2, <1>6, <1>7 DEF BeginsAt, IsPrefix
<1>9. ASSUME L <= Len(t)
      PROVE  s = SubSeq(t, 1, L) <=> \A j \in 1..L : s[j] = image[i + j - 1]
  <2>1. \A j \in 1..L : j \in 1..(N - i + 1) /\ t[j] = image[i + j - 1] /\ t[j] \in X
    <3>1. \A j \in 1..L : j \in 1..(N - i + 1)
      BY <1>3, <1>5, <1>9
    <3> QED
      BY <1>5, <3>1, ElementOfSeq
  <2>2. PICK u : u = SubSeq(t, 1, L)
    OBVIOUS
  <2>3. /\ u \in Seq(X) /\ Len(u) = L /\ \A j \in 1..L : u[j] = t[j]
    <3>1. /\ u \in Seq(X) /\ Len(u) = IF 1 <= L THEN L - 1 + 1 ELSE 0
          /\ \A j \in 1..(L - 1 + 1) : u[j] = t[1 + j - 1]
      <4>1. 1 \in Int /\ L \in Int /\ \A j \in 1..L : t[j] \in X
        BY <2>1
      <4> QED
        BY ONLY <2>2, <4>1, SubSeqProperties
    <3>2. \A j \in 1..L : j \in 1..(L - 1 + 1) /\ 1 + j - 1 = j
      OBVIOUS
    <3> QED
      BY <1>3, <3>1, <3>2
  <2>4. ASSUME \A j \in 1..L : s[j] = image[i + j - 1] PROVE s = u
    <3>1. Len(s) = Len(u) /\ \A j \in 1..Len(s) : s[j] = u[j]
      BY <1>1, <2>1, <2>3, <2>4
    <3> QED
      BY <2>3, <3>1, SeqEqual
  <2> QED
    BY <2>1, <2>2, <2>3, <2>4
<1>10. L <= Len(t) <=> i + L - 1 <= N
  BY <1>3, <1>5
<1> QED
  BY <1>1, <1>8, <1>9, <1>10

(* A hit is kept. *)
LEMMA FoundStays ==
  ASSUME NEW X, NEW image \in Seq(X), NEW m \in 0..Len(image), hits(image)[m] = Len(Sought)
  PROVE  modglue_binary_(image)
<1>1. PICK N \in Nat, L \in Nat : N = Len(image) /\ L = Len(Sought)
  BY SoughtAssumption
<1>2. PICK h : /\ h = hits(image)
               /\ \A n \in 1..N : h[n] = Advance(h[n - 1], image[n])
  BY <1>1, HitsAre
<1> DEFINE T == {n \in 0..N : n >= m => h[n] = L}
<1>3. 0 \in T
  BY <1>1, <1>2
<1>4. ASSUME NEW n \in 0..(N - 1), n \in T PROVE n + 1 \in T
  <2>1. n + 1 \in 1..N /\ (n + 1) - 1 = n /\ n + 1 \in 0..N
    OBVIOUS
  <2>2. h[n + 1] = Advance(h[n], image[n + 1])
    BY <1>2, <2>1
  <2>3. CASE n + 1 = m
    BY <1>1, <1>2, <2>1, <2>3
  <2>4. CASE n + 1 # m /\ n + 1 >= m
    <3>1. h[n] = L
      BY <1>1, <1>4, <2>4
    <3> QED
      BY <1>1, <2>1, <2>2, <3>1 DEF Advance
  <2> QED
    BY <2>1, <2>3, <2>4
<1>5. N \in T
  <2> HIDE DEF T
  <2>1. \A n \in 0..N : n \in T
    BY <1>3, <1>4, Induct
  <2> QED
    BY <2>1
<1> QED
  BY <1>1, <1>2, <1>5 DEF modglue_binary_

LEMMA FoundIsThere ==
  ASSUME NEW X, Sought \in Seq(X), NEW image \in Seq(X), modglue_binary_(image)
  PROVE  BeginsAt(image, Sought) # {}
<1>1. PICK N \in Nat, L \in Nat : N = Len(image) /\ L = Len(Sought) /\ L > 0
  BY SoughtAssumption, EmptySeq
<1>2. Searched(image, N) /\ hits(image)[N] = L
  BY <1>1, SearchedAll DEF modglue_binary_
<1>3. PICK m \in 0..N : L <= m /\ \A j \in 1..L : image[m - L + j] = Sought[j]
  <2>1. PICK m \in 0..N : Matches(image, m, L)
    BY <1>1, <1>2 DEF Searched
  <2> QED
    BY <2>1 DEF Matches
<1>4. PICK i \in 1..N : i = m - L + 1 /\ i + L - 1 = m
  BY <1>1, <1>3
<1>5. \A j \in 1..L : i + j - 1 = m - L + j
  BY <1>1, <1>4
<1>6. i + L - 1 <= N /\ \A j \in 1..L : Sought[j] = image[i + j - 1]
  BY <1>3, <1>4, <1>5
<1>7. i \in BeginsAt(image, Sought)
  BY <1>1, <1>6, SoughtAssumption, BeginsWhere
<1> QED
  BY <1>7

LEMMA ThereIsFound ==
  ASSUME NEW X, Sought \in Seq(X), NEW image \in Seq(X), BeginsAt(image, Sought) # {},
         ~FalseStart(image)
  PROVE  modglue_binary_(image)
<1>1. PICK N \in Nat, L \in Nat : N = Len(image) /\ L = Len(Sought) /\ L > 0
  BY SoughtAssumption, EmptySeq
<1>2. PICK i \in 1..N : i \in BeginsAt(image, Sought)
  BY <1>1, LenProperties DEF BeginsAt
<1>3. i + L - 1 <= N /\ \A j \in 1..L : Sought[j] = image[i + j - 1]
  BY <1>1, <1>2, SoughtAssumption, BeginsWhere
<1>4. PICK h : /\ h = hits(image)
               /\ \A n \in 1..N : h[n] = Advance(h[n - 1], image[n])
  BY <1>1, HitsAre
<1>5. i - 1 \in 0..N /\ i \in Nat
  OBVIOUS
<1>6. h[i - 1] \in 0..L /\ (h[i - 1] < L => Matches(image, i - 1, h[i - 1]))
  BY <1>1, <1>4, <1>5, SearchedAll DEF Searched
<1>7. PICK k \in 0..L : k = h[i - 1]
  BY <1>6
<1>8. CASE k = L
  BY <1>1, <1>4, <1>5, <1>7, <1>8, FoundStays
<1>9. CASE k = 0
  <2> DEFINE T == {j \in 0..L : h[i - 1 + j] = j}
  <2>1. 0 \in T
    <3>1. i - 1 + 0 = i - 1 /\ 0 \in 0..L
      BY <1>1
    <3> QED
      BY <1>7, <1>9, <3>1
  <2>2. ASSUME NEW j \in 0..(L - 1), j \in T PROVE j + 1 \in T
    <3>1. i - 1 + (j + 1) \in 1..N /\ (i - 1 + (j + 1)) - 1 = i - 1 + j
          /\ j + 1 \in 1..L /\ i + (j + 1) - 1 = i - 1 + (j + 1) /\ j # L /\ j + 1 \in 0..L
      BY <1>1, <1>3
    <3>2. h[i - 1 + (j + 1)] = Advance(h[i - 1 + j], image[i - 1 + (j + 1)])
      BY <1>4, <3>1
    <3>3. h[i - 1 + j] = j
      BY <2>2
    <3>4. image[i - 1 + (j + 1)] = Sought[j + 1]
      BY <1>3, <3>1
    <3> QED
      BY <1>1, <3>1, <3>2, <3>3, <3>4 DEF Advance
  <2>3. L \in T
    <3> HIDE DEF T
    <3>1. \A j \in 0..L : j \in T
      BY <2>1, <2>2, Induct
    <3> QED
      BY <3>1
  <2>4. PICK m \in 0..N : m = i - 1 + L
    BY <1>1, <1>3
  <2>5. hits(image)[m] = Len(Sought)
    BY <1>1, <1>4, <2>3, <2>4
  <2> QED
    BY <1>1, <2>5, FoundStays
<1>10. CASE k # L /\ k # 0
  <2>1. k \in 1..(L - 1) /\ k <= i - 1 /\ \A j \in 1..k : image[(i - 1) - k + j] = Sought[j]
    <3>1. k \in 1..(L - 1) /\ k < L
      BY <1>1, <1>10
    <3>2. Matches(image, i - 1, k)
      BY <1>6, <1>7, <3>1
    <3> QED
      BY <3>1, <3>2 DEF Matches
  <2>2. Sought[1] = image[i] /\ Sought[1] \in X
    <3>1. 1 \in 1..L /\ i + 1 - 1 = i
      BY <1>1
    <3> QED
      BY <1>1, <1>3, <3>1, ElementOfSeq
  <2>3. PICK b : b = SubSeq(Sought, 1, k)
    OBVIOUS
  <2>4. b \in Seq(X) /\ Len(b) = k /\ \A j \in 1..k : b[j] = Sought[j]
    BY <1>1, <2>1, <2>3
  <2>5. PICK s : s = Append(b, Sought[1])
    OBVIOUS
  <2>6. /\ s \in Seq(X) /\ Len(s) = k + 1 /\ s[k + 1] = Sought[1] /\ \A j \in 1..k : s[j] = b[j]
    BY <2>2, <2>4, <2>5, AppendProperties
  <2>7. PICK a \in 1..N : a = i - k
    BY <2>1
  <2>8. a + (k + 1) - 1 = i /\ i <= N
    BY <2>1, <2>7
  <2>9. ASSUME NEW j \in 1..(k + 1) PROVE s[j] = image[a + j - 1]
    <3>1. CASE j = k + 1
      <4>1. a + j - 1 = i
        BY <2>8, <3>1
      <4> QED
        BY <2>2, <2>6, <3>1, <4>1
    <3>2. CASE j # k + 1
      <4>1. j \in 1..k /\ a + j - 1 = (i - 1) - k + j
        BY <2>1, <2>7, <3>2
      <4> QED
        BY <2>1, <2>4, <2>6, <4>1
    <3> QED
      BY <3>1, <3>2
  <2>10. s # <<>>
    BY <2>1, <2>6, EmptySeq
  <2>11. a \in BeginsAt(image, s)
    <3>1. a + Len(s) - 1 <= Len(image) /\ \A j \in 1..Len(s) : s[j] = image[a + j - 1]
      BY <1>1, <2>6, <2>8, <2>9
    <3> QED
      BY <1>1, <2>6, <2>10, <3>1, BeginsWhere
  <2>12. FalseStart(image)
    BY <1>1, <2>1, <2>3, <2>5, <2>11 DEF FalseStart
  <2> QED
    BY <2>12
<1> QED
  BY <1>8, <1>9, <1>10

-----------------------------------------------------------------------------
(* The list of pipes and what the other side makes of it.                  *)
LEMMA ToSetIn ==
  ASSUME NEW X, NEW s \in Seq(X) PROVE ToSet(s) \subseteq X /\ (ToSet(s) = {} => s = <<>>)
<1>1. PICK n \in Nat : n = Len(s)
  OBVIOUS
<1>2. DOMAIN s = 1..n /\ \A i \in 1..n : s[i] \in X
  BY <1>1, LenProperties, ElementOfSeq
<1>3. n # 0 => ToSet(s) # {}
  <2>1. n # 0 => 1 \in 1..n
    OBVIOUS
  <2> QED
    BY <1>2, <2>1 DEF ToSet
<1>4. n = 0 => s = <<>>
  BY <1>1, EmptySeq
<1> QED
  BY <1>2, <1>3, <1>4 DEF ToSet

LEMMA ListIs ==
  ASSUME NEW ps \in Seq(PipeTypes)
  PROVE  build_pipe_list(ps) \in Seq(PipeTypes) /\ ToSet(build_pipe_list(ps)) = ToSet(ps)
<1>1. PICK a, b : a = OfType(ps, "input") /\ b = OfType(ps, "output")
  OBVIOUS
<1>2. a \in Seq(PipeTypes) /\ ToSet(a) = ToSet(ps) \cap {q \in ToSet(ps) : q.type = "input"}
  BY <1>1, TakenIs DEF OfType
<1>3. b \in Seq(PipeTypes) /\ ToSet(b) = ToSet(ps) \cap {q \in ToSet(ps) : q.type = "output"}
  BY <1>1, TakenIs DEF OfType
<1>4. a \o b \in Seq(PipeTypes) /\ ToSet(a \o b) = ToSet(a) \cup ToSet(b)
  BY <1>2, <1>3, ToSetOfConcat
<1>5. \A q \in ToSet(ps) : q.type = "input" \/ q.type = "output"
  <2>1. ToSet(ps) \subseteq PipeTypes
    BY ToSetIn
  <2>2. \A q \in PipeTypes : q.type = "input" \/ q.type = "output"
    BY DEF PipeTypes
  <2> QED
    BY <2>1, <2>2
<1>6. ToSet(a) \cup ToSet(b) = ToSet(ps)
  BY <1>2, <1>3, <1>5
<1> QED
  BY <1>1, <1>4, <1>6 DEF build_pipe_list

OtherEnd(q) == [name |-> q.name, type |-> Flipped(q.type)]

LEMMA LearntIs ==
  ASSUME NEW desc \in Seq(PipeTypes)
  PROVE  /\ setup_pipes_from_string_(desc) \in Seq(PipeTypes)
         /\ ToSet(setup_pipes_from_string_(desc))
              = {OtherEnd(q) : q \in {r \in ToSet(desc) : r.name \notin Unread}}
<1>1. PICK S : S = {q \in ToSet(desc) : q.name \notin Unread}
  OBVIOUS
<1>2. PICK read : read = Taken(desc, S) /\ read \in Seq(PipeTypes) /\ ToSet(read) = S
  <2>1. Taken(desc, S) \in Seq(PipeTypes) /\ ToSet(Taken(desc, S)) = ToSet(desc) \cap S
    BY TakenIs
  <2>2. ToSet(desc) \cap S = S
    BY <1>1
  <2> QED
    BY <2>1, <2>2
<1>3. PICK n \in Nat : n = Len(read) /\ DOMAIN read = 1..n
  BY LenProperties
<1>4. \A i \in 1..n : read[i] \in PipeTypes
  BY <1>2, <1>3, ElementOfSeq
<1>5. \A q \in PipeTypes : [q EXCEPT !.type = Flipped(@)] = OtherEnd(q) /\ OtherEnd(q) \in PipeTypes
  BY DEF PipeTypes, OtherEnd, Flipped
<1>6. PICK f : f = [i \in DOMAIN read |-> [read[i] EXCEPT !.type = Flipped(@)]]
  OBVIOUS
<1>7. f = [i \in 1..n |-> OtherEnd(read[i])]
  BY <1>3, <1>4, <1>5, <1>6
<1>8. f \in Seq(PipeTypes) /\ DOMAIN f = 1..n
  <2>1. f \in [1..n -> PipeTypes]
    BY <1>4, <1>5, <1>7
  <2> QED
    BY <2>1, IsASeq
<1>9. ToSet(f) = {OtherEnd(q) : q \in S}
  <2>1. ToSet(f) = {OtherEnd(read[i]) : i \in 1..n}
    BY <1>7, <1>8 DEF ToSet
  <2>2. S = {read[i] : i \in 1..n}
    BY <1>2, <1>3 DEF ToSet
  <2> QED
    BY <2>1, <2>2
<1>10. setup_pipes_from_string_(desc) = build_pipe_list(f)
  BY <1>1, <1>2, <1>6 DEF setup_pipes_from_string_
<1> QED
  BY <1>1, <1>8, <1>9, <1>10, ListIs

-----------------------------------------------------------------------------
(* The options.                                                            *)
LEMMA Greatest ==
  ASSUME NEW N \in Nat, NEW T \in SUBSET (0..N), T # {}
  PROVE  \E x \in T : \A y \in T : y <= x
<1> DEFINE U == {N - x : x \in T}
<1>1. U \in SUBSET Nat /\ U # {}
  <2>1. \A x \in 0..N : N - x \in Nat
    OBVIOUS
  <2>2. T \subseteq 0..N
    OBVIOUS
  <2>3. U \subseteq Nat
    BY <2>1, <2>2
  <2>4. PICK x : x \in T
    OBVIOUS
  <2>5. N - x \in U
    BY <2>4
  <2> HIDE DEF U
  <2> QED
    BY <2>3, <2>5
<1>2. PICK u \in U : \A v \in U : u <= v
  BY <1>1, Least
<1>3. PICK x \in T : u = N - x
  BY <1>2
<1>4. ASSUME NEW y \in T PROVE y <= x
  <2>1. N - y \in U
    OBVIOUS
  <2>2. N - x <= N - y /\ x \in Nat /\ y \in Nat
    BY <1>2, <1>3, <2>1
  <2> QED
    BY <2>2
<1> QED
  BY <1>4

(* Every pipe of the child has an option, and the last of its name counts, *)
(* unless an argument hides them, for a name that is not cut and that no   *)
(* other is cut to.                                                        *)
LEMMA OptionsReach ==
  ASSUME NEW args \in Seq({Word, Flag}), Word \notin ToSet(args), NEW ps \in Seq(PipeTypes),
         NEW fds, NEW i0 \in DOMAIN ps, ps[i0].name \notin DOMAIN Misread,
         \A i \in DOMAIN ps : Cut(ps[i].name, NoFd).name = ps[i0].name => ps[i].name = ps[i0].name
  PROVE  LET given == pipe_fds_(realargs(args, ps, fds))
         IN /\ ps[i0].name \in DOMAIN given
            /\ \E i \in DOMAIN ps : ps[i].name = ps[i0].name /\ given[ps[i0].name] = fds[i]
<1>1. PICK a \in Nat, b \in Nat : a = Len(args) /\ b = Len(ps) /\ DOMAIN ps = 1..b
                                  /\ DOMAIN args = 1..a
  BY LenProperties
<1>2. PICK opts : opts = [i \in 1..b |-> PipeOption(ps[i].name, fds[i])]
  OBVIOUS
<1> DEFINE X == {Word, Flag} \cup {PipeOption(ps[i].name, fds[i]) : i \in 1..b}
<1>3. opts \in Seq(X) /\ Len(opts) = b
  <2>1. opts \in [1..b -> X]
    BY <1>2
  <2> HIDE DEF X
  <2> QED
    BY <2>1, IsASeq, LenProperties
<1>4. args \in Seq(X)
  <2>1. {Word, Flag} \subseteq X
    OBVIOUS
  <2> HIDE DEF X
  <2> QED
    BY <2>1, SeqOfMore
<1>5. PICK argv : argv = args \o opts
  OBVIOUS
<1>6. /\ argv \in Seq(X) /\ Len(argv) = a + b
      /\ \A i \in 1..(a + b) : argv[i] = IF i <= a THEN args[i] ELSE opts[i - a]
  <2> HIDE DEF X
  <2>1. /\ args \o opts \in Seq(X) /\ Len(args \o opts) = Len(args) + Len(opts)
        /\ \A i \in 1..(Len(args) + Len(opts)) : (args \o opts)[i] =
             IF i <= Len(args) THEN args[i] ELSE opts[i - Len(args)]
    BY ONLY <1>3, <1>4, ConcatProperties
  <2> QED
    BY <1>1, <1>3, <1>5, <2>1
<1> HIDE DEF X
<1>7. DOMAIN argv = 1..(a + b)
  BY <1>1, <1>6, LenProperties
<1>8. \A i \in 1..a : argv[i].kind = "flag"
  <2>1. \A i \in 1..a : args[i] \in {Word, Flag} /\ args[i] # Word
    BY <1>1, ElementOfSeq DEF ToSet
  <2>2. \A i \in 1..a : i \in 1..(a + b) /\ i <= a
    OBVIOUS
  <2> QED
    BY <1>6, <2>1, <2>2 DEF Flag
<1>9. \A i \in 1..b : argv[a + i] = PipeOption(ps[i].name, fds[i])
  <2>1. \A i \in 1..b : a + i \in 1..(a + b) /\ ~(a + i <= a) /\ (a + i) - a = i
    OBVIOUS
  <2> QED
    BY <1>2, <1>6, <2>1
<1>10. \A i \in 1..(a + b) : i \in 1..a \/ \E j \in 1..b : i = a + j
  <2>1. \A i \in 1..(a + b) : i \notin 1..a => i - a \in 1..b /\ i = a + (i - a)
    OBVIOUS
  <2> QED
    BY <2>1
<1>11. \A i \in 1..b : argv[a + i].kind = "pipe" /\ argv[a + i].name = ps[i].name
                       /\ argv[a + i].fd = fds[i]
  <2>1. \A m, d : PipeOption(m, d).kind = "pipe" /\ PipeOption(m, d).name = m
                 /\ PipeOption(m, d).fd = d
    BY DEF PipeOption
  <2> QED
    BY <1>9, <2>1
<1> DEFINE read == {i \in DOMAIN argv : /\ argv[i].kind = "pipe"
                                        /\ \A j \in 1..i : argv[j].kind # "word"}
           cut(i) == Cut(argv[i].name, argv[i].fd)
<1>12. read = {a + i : i \in 1..b}
  <2>1. ASSUME NEW i \in 1..b PROVE a + i \in read
    <3>1. a + i \in 1..(a + b) /\ \A j \in 1..(a + i) : j \in 1..(a + b)
      OBVIOUS
    <3>2. ASSUME NEW j \in 1..(a + b) PROVE argv[j].kind # "word"
      <4>1. CASE j \in 1..a
        <5>1. argv[j].kind = "flag"
          BY <1>8, <4>1
        <5> QED
          BY <5>1
      <4>2. CASE \E m \in 1..b : j = a + m
        <5>1. argv[j].kind = "pipe"
          BY <1>11, <4>2
        <5> QED
          BY <5>1
      <4> QED
        BY <1>10, <4>1, <4>2
    <3> QED
      BY <1>7, <1>11, <3>1, <3>2
  <2>2. ASSUME NEW i \in read PROVE \E j \in 1..b : i = a + j
    <3>1. i \in 1..(a + b) /\ argv[i].kind = "pipe"
      BY <1>7
    <3>2. i \notin 1..a
      BY <1>8, <3>1
    <3> QED
      BY <1>10, <3>1, <3>2
  <2> HIDE DEF read
  <2> QED
    BY <2>1, <2>2
<1> DEFINE n == ps[i0].name
           last(m) == CHOOSE i \in read :
                        cut(i).name = m /\ \A j \in read : cut(j).name = m => j <= i
           given == pipe_fds_(realargs(args, ps, fds))
<1>13. given = [m \in {cut(i).name : i \in read} |-> cut(last(m)).fd]
  <2>1. realargs(args, ps, fds) = argv
    BY <1>1, <1>2, <1>5 DEF realargs
  <2> QED
    BY <2>1 DEF pipe_fds_
<1>14. last(n) \in read /\ cut(last(n)).name = n
  <2> DEFINE T == {i \in read : cut(i).name = n}
  <2>1. T \in SUBSET (0..(a + b))
    BY <1>7
  <2>2. T # {}
    <3>1. a + i0 \in read /\ cut(a + i0).name = n
      <4>1. i0 \in 1..b /\ a + i0 \in read
        BY <1>1, <1>12
      <4>2. argv[a + i0].name = n
        BY <1>11, <4>1
      <4> QED
        BY <4>1, <4>2 DEF Cut
    <3> QED
      BY <3>1
  <2>3. PICK x \in T : \A y \in T : y <= x
    <3> HIDE DEF T
    <3>1. a + b \in Nat
      OBVIOUS
    <3> QED
      BY <2>1, <2>2, <3>1, Greatest
  <2>4. x \in read /\ cut(x).name = n /\ \A j \in read : cut(j).name = n => j <= x
    BY <2>3
  <2> HIDE DEF read, n, T, cut
  <2> QED
    BY <2>4
<1>15. PICK i \in 1..b : last(n) = a + i
  <2> HIDE DEF read, last, cut
  <2> QED
    BY <1>12, <1>14
<1>16. ps[i].name = n /\ cut(last(n)).fd = fds[i]
  <2>1. PICK c : c = last(n) /\ c = a + i
    BY <1>15
  <2>2. cut(c) = Cut(ps[i].name, fds[i]) /\ cut(c).name = n
    <3> HIDE DEF last, n
    <3>1. argv[c].name = ps[i].name /\ argv[c].fd = fds[i]
      BY <1>11, <2>1
    <3> QED
      BY <1>14, <2>1, <3>1
  <2>3. i \in DOMAIN ps
    BY <1>1
  <2>4. ps[i].name = n
    <3>1. CASE ps[i].name \in DOMAIN Misread
      <4>1. Cut(ps[i].name, NoFd).name = n
        BY <2>2, <3>1 DEF Cut
      <4> QED
        BY <2>3, <4>1
    <3>2. CASE ps[i].name \notin DOMAIN Misread
      BY <2>2, <3>2 DEF Cut
    <3> QED
      BY <3>1, <3>2
  <2>5. cut(c).fd = fds[i]
    <3> HIDE DEF cut
    <3> QED
      BY <2>2, <2>4 DEF Cut
  <2> HIDE DEF last, n, cut
  <2> QED
    BY <2>1, <2>4, <2>5
<1>17. n \in {cut(j).name : j \in read}
  <2> HIDE DEF read, last, n, cut
  <2> QED
    BY <1>14
<1> HIDE DEF read, last, cut
<1>18. n \in DOMAIN given /\ given[n] = fds[i]
  BY <1>13, <1>16, <1>17
<1> QED
  BY <1>1, <1>16, <1>18

-----------------------------------------------------------------------------
(* The descriptors.                                                        *)
USE ForksAssumption DEF Forks, NoPid, Failed, Main

Shapes ==
  /\ pc \in {"user", "forked", "ended"}
  /\ pid \in [Procs -> Forks \cup {NoPid, Failed}]
  /\ forks \in 0..MaxForks
  /\ of \in [Forks -> Procs \cup {NoProc}]
  /\ kid \in [Forks -> {"none", "born", "run", "ended"}]
  /\ DOMAIN held = Forks \cup {Main}
  /\ spoilt \subseteq Procs

(* Ends belong to forks that have been tried; there is no child behind the *)
(* last of them, and none where the fork failed.                           *)
Tried ==
  /\ \A f \in Forks : f > forks => kid[f] = "none"
  /\ \A f \in 1..forks : of[f] \in Procs /\ (kid[f] = "none" => of[f] \in spoilt)
  /\ \A h \in Forks \cup {Main} : \A e \in held[h] :
       e.fork \in 1..forks /\ e.side \in {"near", "far"}

AtFork == pc = "forked" => forks > 0 /\ kid[forks] # "none"

(* A child holds nothing before and after its life, and nothing of those   *)
(* that are forked after it.                                               *)
Inherits ==
  \A h \in Forks :
    /\ kid[h] \in {"none", "ended"} => held[h] = {}
    /\ \A e \in held[h] : e.fork <= h /\ (kid[h] = "run" /\ e.side = "near" => e.fork < h)

(* Far ends: in the parent only of the child being forked or of a fork     *)
(* that failed, in a child of its own or of a fork that failed.            *)
FarEnds ==
  /\ \A e \in held[Main] :
       e.side = "far" => kid[e.fork] = "none" \/ (pc = "forked" /\ e.fork = forks)
  /\ \A h \in Forks : \A e \in held[h] :
       e.side = "far" => e.fork = h \/ kid[e.fork] = "none"

Clean == \A p \in Procs \ spoilt : pid[p] = NoPid => \A e \in held[Main] : of[e.fork] # p

ExtInv == Shapes /\ Tried /\ AtFork /\ Inherits /\ FarEnds /\ Clean

LEMMA ExtInvInit == Init => ExtInv
BY DEF Init, ExtInv, Shapes, Tried, AtFork, Inherits, FarEnds, Clean

-----------------------------------------------------------------------------
(* Steps that touch no descriptor and no child. *)
LEMMA SetupInv ==
  ASSUME ExtInv, UNCHANGED <<pc, pid, kidVars, held>>, spoilt \subseteq spoilt', spoilt' \subseteq Procs
  PROVE  ExtInv'
BY DEF ExtInv, Shapes, Tried, AtFork, Inherits, FarEnds, Clean, kidVars

(* Steps by which the parent only closes descriptors. *)
LEMMA ParentClosesInv ==
  ASSUME ExtInv, NEW S, held' = [held EXCEPT ![Main] = S], S \subseteq held[Main],
         UNCHANGED <<objVars, kidVars>>,
         pc' \in {"user", "ended", pc}, pc' = "forked" => pc = "forked",
         pc' # pc => \A e \in S : ~(e.side = "far" /\ e.fork = forks /\ pc = "forked")
  PROVE  ExtInv'
<1> USE DEF ExtInv, objVars, kidVars
<1>1. /\ held'[Main] = S
      /\ \A h \in Forks : held'[h] = held[h]
      /\ DOMAIN held' = Forks \cup {Main}
  BY DEF Shapes
<1>2. Shapes'
  BY <1>1 DEF Shapes
<1>3. Tried'
  BY <1>1 DEF Tried
<1>4. AtFork' /\ Inherits'
  BY <1>1 DEF AtFork, Inherits
<1>5. FarEnds'
  BY <1>1 DEF FarEnds
<1>6. Clean'
  BY <1>1 DEF Clean
<1> QED
  BY <1>2, <1>3, <1>4, <1>5, <1>6

LEMMA ParentEndsInv == ExtInv /\ ParentEnds => ExtInv'
BY ParentClosesInv DEF ParentEnds

LEMMA ClosePipeInv ==
  ASSUME ExtInv, NEW p, NEW i, ClosePipe(p, i) PROVE ExtInv'
<1>1. PICK S : S = {e \in held[Main] : ~(Near(e, p) /\ e.pipe = i)}
  OBVIOUS
<1> QED
  BY <1>1, ParentClosesInv DEF ClosePipe

LEMMA ChildsideInv == ExtInv /\ close_childside_ => ExtInv'
<1> SUFFICES ASSUME ExtInv, close_childside_ PROVE ExtInv'
  OBVIOUS
<1>1. PICK S : S = {e \in held[Main] : ~Far(e, of[forks])}
  OBVIOUS
<1>2. \A e \in S : ~(e.side = "far" /\ e.fork = forks)
  BY <1>1 DEF Far
<1> QED
  BY <1>1, <1>2, ParentClosesInv DEF close_childside_

(* terminate(): what stays open of p is a far end, and so of a fork that   *)
(* failed.                                                                 *)
LEMMA TerminateInv ==
  ASSUME ExtInv, pc = "user", NEW p \in Procs, Terminate(p) PROVE ExtInv'
<1> USE DEF ExtInv, kidVars
<1>1. /\ held'[Main] = {e \in held[Main] : ~Near(e, p)}
      /\ \A h \in Forks : held'[h] = held[h]
      /\ DOMAIN held' = Forks \cup {Main}
  BY DEF Terminate, Shapes
<1>2. /\ \A r \in Procs : pid'[r] = IF r = p THEN NoPid ELSE pid[r]
      /\ UNCHANGED <<pc, spoilt, forks, of, kid>>
  BY DEF Terminate, Shapes
<1>3. Shapes'
  BY <1>1, <1>2 DEF Terminate, Shapes
<1>4. Tried' /\ AtFork' /\ Inherits' /\ FarEnds'
  BY <1>1, <1>2 DEF Tried, AtFork, Inherits, FarEnds
<1>5. \A e \in held'[Main] : of[e.fork] = p => p \in spoilt
  BY <1>1 DEF Near, Tried, FarEnds
<1>6. Clean'
  BY <1>1, <1>2, <1>5 DEF Clean
<1> QED
  BY <1>3, <1>4, <1>6

-----------------------------------------------------------------------------
(* Fork number forks + 1, of process p: what the three outcomes share.     *)
LEMMA TryFacts ==
  ASSUME ExtInv, NEW p \in Procs, MayFork(p), Try(p)
  PROVE  /\ forks' = forks + 1 /\ forks' \in Forks
         /\ of' \in [Forks -> Procs \cup {NoProc}] /\ of'[forks'] = p
         /\ \A f \in Forks : f # forks' => of'[f] = of[f]
         /\ kid[forks'] = "none" /\ held[forks'] = {}
<1>1. forks' = forks + 1 /\ forks' \in Forks
  BY DEF ExtInv, Shapes, MayFork, Try, NextFork
<1>2. of' = [of EXCEPT ![forks'] = p]
  BY <1>1 DEF Try, NextFork
<1>3. kid[forks'] = "none"
  BY <1>1 DEF ExtInv, Shapes, Tried
<1> QED
  BY <1>1, <1>2, <1>3 DEF ExtInv, Shapes, Inherits

LEMMA SocketFacts ==
  ASSUME NEW n, NEW e \in Sockets(n)
  PROVE  e.fork = NextFork /\ e.side \in {"near", "far"}
BY DEF Sockets

(* open_pipes_() or ::fork() fails: the sockets that are there stay. *)
LEMMA FailInv ==
  ASSUME ExtInv, pc = "user", NEW p \in Procs, MayFork(p), Try(p), ~AlreadyOpen(p),
         NEW n, held' = [held EXCEPT ![Main] = @ \cup Sockets(n)],
         spoilt' = spoilt \cup {p},
         pid' \in {pid, [pid EXCEPT ![p] = Failed]},
         UNCHANGED <<pc, kid>>
  PROVE  ExtInv'
<1> USE DEF ExtInv
<1>1. /\ forks' = forks + 1 /\ forks' \in Forks
      /\ of' \in [Forks -> Procs \cup {NoProc}] /\ of'[forks'] = p
      /\ \A f \in Forks : f # forks' => of'[f] = of[f]
      /\ kid[forks'] = "none"
  BY TryFacts
<1>2. /\ \A e \in held'[Main] : e \in held[Main] \/ (e.fork = forks' /\ e.side \in {"near", "far"})
      /\ \A h \in Forks : held'[h] = held[h]
      /\ DOMAIN held' = Forks \cup {Main}
  BY <1>1, SocketFacts DEF Shapes, NextFork
<1>3. Shapes'
  <2>1. pid' \in [Procs -> Forks \cup {NoPid, Failed}]
    BY DEF Shapes
  <2> QED
    BY <1>1, <1>2, <2>1 DEF Shapes
<1>4. Tried'
  <2>1. \A f \in Forks : f > forks' => kid'[f] = "none"
    BY <1>1 DEF Tried, Shapes
  <2>2. \A f \in 1..forks' : of'[f] \in Procs /\ (kid'[f] = "none" => of'[f] \in spoilt')
    BY <1>1 DEF Tried, Shapes
  <2>3. \A h \in Forks \cup {Main} : \A e \in held'[h] :
          e.fork \in 1..forks' /\ e.side \in {"near", "far"}
    BY <1>1, <1>2 DEF Tried, Shapes
  <2> QED
    BY <2>1, <2>2, <2>3 DEF Tried
<1>5. AtFork' /\ Inherits'
  BY <1>1, <1>2 DEF AtFork, Inherits
<1>6. FarEnds'
  BY <1>1, <1>2 DEF FarEnds
<1>7. Clean'
  <2> SUFFICES ASSUME NEW r \in Procs \ spoilt', pid'[r] = NoPid, NEW e \in held'[Main]
               PROVE  of'[e.fork] # r
    BY DEF Clean
  <2>1. r # p /\ r \in Procs \ spoilt /\ pid[r] = NoPid
    BY DEF Shapes
  <2>2. CASE e \in held[Main]
    <3>1. e.fork \in Forks /\ e.fork # forks'
      BY <1>1, <2>2 DEF Tried, Shapes
    <3> QED
      BY <1>1, <2>1, <2>2, <3>1 DEF Clean
  <2>3. CASE e.fork = forks'
    BY <1>1, <2>1, <2>3
  <2> QED
    BY <1>2, <2>2, <2>3
<1> QED
  BY <1>3, <1>4, <1>5, <1>6, <1>7

LEMMA ForkInv ==
  ASSUME ExtInv, pc = "user", NEW p \in Procs, Fork(p) PROVE ExtInv'
<1> USE DEF ExtInv
<1>1. /\ forks' = forks + 1 /\ forks' \in Forks
      /\ of' \in [Forks -> Procs \cup {NoProc}] /\ of'[forks'] = p
      /\ \A f \in Forks : f # forks' => of'[f] = of[f]
      /\ kid[forks'] = "none"
  BY TryFacts DEF Fork
<1>2. /\ \A e \in held'[Main] : e \in held[Main] \/ (e.fork = forks' /\ e.side \in {"near", "far"})
      /\ held'[forks'] = held'[Main]
      /\ \A h \in Forks : h # forks' => held'[h] = held[h]
      /\ DOMAIN held' = Forks \cup {Main}
  BY <1>1, SocketFacts DEF Fork, Shapes, NextFork
<1>3. /\ kid' \in [Forks -> {"none", "born", "run", "ended"}]
      /\ kid'[forks'] = "born" /\ \A f \in Forks : f # forks' => kid'[f] = kid[f]
      /\ pid' \in [Procs -> Forks \cup {NoPid, Failed}]
      /\ pid'[p] = forks' /\ \A r \in Procs : r # p => pid'[r] = pid[r]
      /\ pc' = "forked" /\ spoilt' = spoilt
  BY <1>1 DEF Fork, Shapes, NextFork
<1>4. \A h \in Forks \cup {Main} : \A e \in held[h] : e.fork \in Forks /\ e.fork < forks'
  BY <1>1 DEF Tried, Shapes
<1>5. Shapes'
  BY <1>1, <1>2, <1>3 DEF Shapes
<1>6. Tried'
  <2>1. \A f \in Forks : f > forks' => kid'[f] = "none"
    BY <1>1, <1>3 DEF Tried, Shapes
  <2>2. \A f \in 1..forks' : of'[f] \in Procs /\ (kid'[f] = "none" => of'[f] \in spoilt')
    BY <1>1, <1>3 DEF Tried, Shapes
  <2>3. \A h \in Forks \cup {Main} : \A e \in held'[h] :
          e.fork \in 1..forks' /\ e.side \in {"near", "far"}
    BY <1>1, <1>2 DEF Tried, Shapes
  <2> QED
    BY <2>1, <2>2, <2>3 DEF Tried
<1>7. AtFork'
  BY <1>1, <1>3 DEF AtFork
<1>8. Inherits'
  <2>1. ASSUME NEW h \in Forks, h # forks'
        PROVE  /\ kid'[h] \in {"none", "ended"} => held'[h] = {}
               /\ \A e \in held'[h] : e.fork <= h /\ (kid'[h] = "run" /\ e.side = "near" => e.fork < h)
    BY <1>2, <1>3, <2>1 DEF Inherits
  <2>2. \A e \in held'[forks'] : e.fork <= forks'
    BY <1>1, <1>2, <1>4
  <2> QED
    BY <1>3, <2>1, <2>2 DEF Inherits
<1>9. FarEnds'
  <2>1. ASSUME NEW e \in held'[Main], e.side = "far"
        PROVE  e.fork = forks' \/ kid'[e.fork] = "none"
    BY <1>2, <1>3, <1>4, <2>1 DEF FarEnds
  <2>2. ASSUME NEW h \in Forks, h # forks', NEW e \in held'[h], e.side = "far"
        PROVE  e.fork = h \/ kid'[e.fork] = "none"
    BY <1>2, <1>3, <1>4, <2>2 DEF FarEnds
  <2> QED
    BY <1>2, <1>3, <2>1, <2>2 DEF FarEnds
<1>10. Clean'
  <2> SUFFICES ASSUME NEW r \in Procs \ spoilt', pid'[r] = NoPid, NEW e \in held'[Main]
               PROVE  of'[e.fork] # r
    BY DEF Clean
  <2>1. r # p /\ r \in Procs \ spoilt /\ pid[r] = NoPid
    BY <1>1, <1>3
  <2>2. CASE e \in held[Main]
    BY <1>1, <1>4, <2>1, <2>2 DEF Clean
  <2>3. CASE e.fork = forks'
    BY <1>1, <2>1, <2>3
  <2> QED
    BY <1>2, <2>2, <2>3
<1> QED
  BY <1>5, <1>6, <1>7, <1>8, <1>9, <1>10

-----------------------------------------------------------------------------
(* A child that goes on in its life and closes descriptors, its own near   *)
(* ends if it runs then, all if it ends.                                   *)
LEMMA ChildInv ==
  ASSUME ExtInv, NEW f \in Forks, NEW S, NEW k \in {"run", "ended"},
         kid[f] \in {"born", "run"},
         kid' = [kid EXCEPT ![f] = k],
         held' = [held EXCEPT ![f] = S], S \subseteq held[f],
         k = "ended" => S = {},
         \A e \in S : ~(e.side = "near" /\ e.fork = f),
         UNCHANGED <<pc, objVars, forks, of>>
  PROVE  ExtInv'
<1> USE DEF ExtInv, objVars
<1>1. /\ held'[f] = S
      /\ \A h \in Forks \cup {Main} : h # f => held'[h] = held[h]
      /\ DOMAIN held' = Forks \cup {Main}
  BY DEF Shapes
<1>2. /\ kid' \in [Forks -> {"none", "born", "run", "ended"}]
      /\ kid'[f] = k /\ \A h \in Forks : h # f => kid'[h] = kid[h]
  BY DEF Shapes
<1>3. \A h \in Forks : kid'[h] = "none" <=> kid[h] = "none"
  BY <1>2
<1>4. \A h \in Forks \cup {Main} : held'[h] \subseteq held[h]
  BY <1>1
<1>5. \A h \in Forks \cup {Main} : \A e \in held[h] : e.fork \in Forks
  BY DEF Tried, Shapes
<1>6. Shapes'
  BY <1>1, <1>2 DEF Shapes
<1>7. Tried'
  <2>1. \A g \in 1..forks : g \in Forks
    BY DEF Shapes
  <2> QED
    BY <1>3, <1>4, <2>1 DEF Tried, Shapes
<1>8. AtFork'
  BY <1>3 DEF AtFork, Shapes
<1>9. Inherits'
  <2>1. \A h \in Forks : h # f =>
          /\ kid'[h] \in {"none", "ended"} => held'[h] = {}
          /\ \A e \in held'[h] : e.fork <= h /\ (kid'[h] = "run" /\ e.side = "near" => e.fork < h)
    BY <1>1, <1>2 DEF Inherits
  <2>2. \A e \in S : e.fork <= f /\ (e.side = "near" => e.fork < f)
    BY <1>5 DEF Inherits
  <2> QED
    BY <1>1, <1>2, <2>1, <2>2 DEF Inherits
<1>10. FarEnds'
  BY <1>1, <1>3, <1>4, <1>5 DEF FarEnds
<1>11. Clean'
  BY <1>1 DEF Clean
<1> QED
  BY <1>6, <1>7, <1>8, <1>9, <1>10, <1>11

LEMMA ExecInv ==
  ASSUME ExtInv, NEW f \in Forks, Exec(f) PROVE ExtInv'
<1>1. \A e \in close_parentside_(f) : e \in held[f] /\ ~(e.side = "near" /\ e.fork = f)
  BY DEF close_parentside_, Near
<1> QED
  BY <1>1, ChildInv DEF Exec

LEMMA EndInv ==
  ASSUME ExtInv, NEW f \in Forks, kid[f] \in {"born", "run"}, End(f) PROVE ExtInv'
<1>1. PICK S : S = {}
  OBVIOUS
<1>2. PICK k \in {"run", "ended"} : k = "ended"
  OBVIOUS
<1>3. kid' = [kid EXCEPT ![f] = k] /\ held' = [held EXCEPT ![f] = S]
  BY <1>1, <1>2 DEF End
<1>4. UNCHANGED <<pc, objVars, forks, of>>
  BY DEF End
<1>5. S \subseteq held[f] /\ \A e \in S : ~(e.side = "near" /\ e.fork = f)
  BY <1>1
<1> QED
  BY <1>1, <1>3, <1>4, <1>5, ChildInv

-----------------------------------------------------------------------------
LEMMA UserInv ==
  ASSUME ExtInv, pc = "user", NEW p \in Procs,
         \/ NotFound(p) \/ SetupUnix(p) \/ SetupModglue(p)
         \/ ForkRefused(p) \/ (\E n \in 0..(Len(pipes[p]) - 1) : OpenFails(p, n)) \/ ForkFails(p) \/ Fork(p)
         \/ Terminate(p) \/ PauseOrRestart(p) \/ (\E i \in DOMAIN pipes[p] : ClosePipe(p, i))
  PROVE  ExtInv'
<1>1. CASE NotFound(p)
  BY <1>1, SetupInv DEF NotFound, vars, objVars, ExtInv, Shapes
<1>2. CASE SetupUnix(p) \/ SetupModglue(p)
  BY <1>2, SetupInv DEF SetupUnix, SetupModglue, ExtInv, Shapes
<1>3. CASE ForkRefused(p)
  BY <1>3, SetupInv DEF ForkRefused, ExtInv, Shapes
<1>4. ASSUME NEW n, OpenFails(p, n) PROVE ExtInv'
  BY <1>4, FailInv DEF OpenFails
<1>5. CASE ForkFails(p)
  BY <1>5, FailInv DEF ForkFails
<1>6. CASE Fork(p)
  BY <1>6, ForkInv
<1>7. CASE Terminate(p)
  BY <1>7, TerminateInv
<1>8. CASE PauseOrRestart(p)
  BY <1>8, SetupInv DEF PauseOrRestart, ExtInv, Shapes
<1>9. ASSUME NEW i, ClosePipe(p, i) PROVE ExtInv'
  BY <1>9, ClosePipeInv
<1> QED
  BY <1>1, <1>2, <1>3, <1>4, <1>5, <1>6, <1>7, <1>8, <1>9

LEMMA ExtInvNext == ExtInv /\ [Next]_vars => ExtInv'
<1> SUFFICES ASSUME ExtInv, [Next]_vars PROVE ExtInv'
  OBVIOUS
<1>1. CASE pc = "user" /\ User
  BY <1>1, UserInv DEF User
<1>2. CASE close_childside_
  BY <1>2, ChildsideInv
<1>3. CASE ParentEnds
  BY <1>3, ParentEndsInv
<1>4. ASSUME NEW f \in Forks, Exec(f) \/ ExecFails(f) \/ Exits(f) \/ ReadsEOF(f) PROVE ExtInv'
  BY <1>4, ExecInv, EndInv DEF ExecFails, Exits, ReadsEOF
<1>5. CASE UNCHANGED vars
  BY <1>5, SetupInv DEF vars, objVars, ExtInv, Shapes
<1> QED
  BY <1>1, <1>2, <1>3, <1>4, <1>5 DEF Next

THEOREM ExtInvHolds == Spec => []ExtInv
BY ExtInvInit, ExtInvNext, PTL DEF Spec

(* When a child has ended, nobody holds its end of any of its sockets: the *)
(* parent reads an end of file on each.                                    *)
THEOREM DeathShows == Spec => []DeathIsEOF
<1>1. ExtInv => DeathIsEOF
  BY DEF ExtInv, DeathIsEOF, Shapes, Tried, Inherits, FarEnds
<1> QED
  BY ExtInvHolds, <1>1, PTL

(* The parent's ends of a child's sockets are inherited by later children  *)
(* only.                                                                   *)
THEOREM NoCycleOfLeaks == Spec => []LeaksGoForward
<1>1. ExtInv => LeaksGoForward
  BY DEF ExtInv, LeaksGoForward, Inherits
<1> QED
  BY ExtInvHolds, <1>1, PTL

(* A process that is given up can be forked again, unless a fork() of it   *)
(* has thrown.                                                             *)
THEOREM CanBeForkedAgain == Spec => []GivenUpIsClean
<1>1. ExtInv => GivenUpIsClean
  BY DEF ExtInv, GivenUpIsClean, Clean
<1> QED
  BY ExtInvHolds, <1>1, PTL

-----------------------------------------------------------------------------
(* The search for the signature, in a file of any length and for any       *)
(* signature: a hit means that it is there, and it is missed only behind   *)
(* a part of itself.                                                       *)
THEOREM SearchHolds == Spec => []SearchIsRight
<1>1. ASSUME NEW image \in Images
      PROVE  /\ modglue_binary_(image) => BeginsAt(image, Sought) # {}
             /\ BeginsAt(image, Sought) # {} /\ ~FalseStart(image) => modglue_binary_(image)
  <2>1. PICK X : X = ToSet(image) \cup ToSet(Sought)
    OBVIOUS
  <2>2. image \in Seq(X)
    BY <2>1, ImagesAssumption, SeqOfMore
  <2>3. Sought \in Seq(X)
    BY <2>1, SoughtAssumption, SeqOfMore
  <2> QED
    BY <2>2, <2>3, FoundIsThere, ThereIsFound
<1>2. SearchIsRight
  BY <1>1 DEF SearchIsRight
<1> QED
  BY <1>2, PTL

-----------------------------------------------------------------------------
(* The types of the rest of the state: the lists of pipes, the sockets.    *)
LEMMA SetupLists ==
  /\ UnixPipes \in Seq(PipeTypes)
  /\ StartupArgs \in Seq(PipeTypes)
  /\ ToSet(StartupArgs) = {[name |-> "startup_args", type |-> "output"]}
<1>1. {"startup_args", "stdin", "stdout", "stderr"} \subseteq Names
  BY DEF Names
<1>2. \A n \in Names, t \in {"input", "output"} : [name |-> n, type |-> t] \in PipeTypes
  BY DEF PipeTypes
<1>3. PICK a, b, c, d : /\ a = [name |-> "stdout", type |-> "input"]
                        /\ b = [name |-> "stderr", type |-> "input"]
                        /\ c = [name |-> "startup_args", type |-> "output"]
                        /\ d = [name |-> "stdin", type |-> "output"]
  OBVIOUS
<1>4. a \in PipeTypes /\ b \in PipeTypes /\ c \in PipeTypes /\ d \in PipeTypes
  BY <1>1, <1>2, <1>3
<1>5. StartupArgs = <<c>> /\ UnixPipes = <<a, b>> \o StartupArgs \o <<d>>
  BY <1>3 DEF StartupArgs, UnixPipes
<1>6. StartupArgs \in Seq(PipeTypes)
  BY <1>4, <1>5
<1>7. ToSet(StartupArgs) = {c}
  <2>1. DOMAIN <<c>> = {1} /\ <<c>>[1] = c
    OBVIOUS
  <2> QED
    BY <1>5, <2>1 DEF ToSet
<1>8. UnixPipes \in Seq(PipeTypes)
  <2>1. <<a, b>> \in Seq(PipeTypes) /\ <<c>> \in Seq(PipeTypes) /\ <<d>> \in Seq(PipeTypes)
    BY <1>4
  <2>2. <<a, b>> \o <<c>> \in Seq(PipeTypes)
    BY <2>1, ConcatProperties
  <2>3. <<a, b>> \o <<c>> \o <<d>> \in Seq(PipeTypes)
    BY <2>1, <2>2, ConcatProperties
  <2> QED
    BY <1>5, <2>3
<1> QED
  BY <1>3, <1>6, <1>7, <1>8

LEMMA LearntType ==
  ASSUME NEW p \in Procs
  PROVE  /\ Learnt[p] \in Seq(PipeTypes)
         /\ StartupArgs \o Learnt[p] \in Seq(PipeTypes)
         /\ build_pipe_list(StartupArgs \o Learnt[p]) \in Seq(PipeTypes)
         /\ ToSet(Learnt[p]) \subseteq ToSet(build_pipe_list(StartupArgs \o Learnt[p]))
<1>1. Program[p].pipes \in Seq(PipeTypes)
  BY ProgramAssumption
<1>2. Listing(p) \in Seq(PipeTypes)
  <2>1. build_pipe_list(Program[p].pipes) \in Seq(PipeTypes) /\ <<>> \in Seq(PipeTypes)
    BY <1>1, ListIs, EmptySeq
  <2> QED
    BY <2>1 DEF Listing
<1>3. Learnt[p] = setup_pipes_from_string_(Listing(p))
  BY DEF Learnt
<1>4. Learnt[p] \in Seq(PipeTypes)
  BY <1>2, <1>3, LearntIs
<1>5. PICK a, l : a = StartupArgs /\ l = Learnt[p]
  OBVIOUS
<1>6. a \o l \in Seq(PipeTypes) /\ ToSet(a \o l) = ToSet(a) \cup ToSet(l)
  BY <1>4, <1>5, SetupLists, ToSetOfConcat
<1>7. build_pipe_list(a \o l) \in Seq(PipeTypes) /\ ToSet(build_pipe_list(a \o l)) = ToSet(a \o l)
  BY <1>6, ListIs
<1> QED
  BY <1>4, <1>5, <1>6, <1>7

Types ==
  /\ setup \in [Procs -> {"none", "half", "done"}]
  /\ DOMAIN pipes = Procs /\ \A p \in Procs : pipes[p] \in Seq(PipeTypes)
  /\ paused \in [Procs -> BOOLEAN]
  /\ held \in [Forks \cup {Main} -> SUBSET Ends]
  /\ \A p \in Procs : pid[p] \in Forks => of[pid[p]] = p /\ kid[pid[p]] # "none"

LEMMA TypesInit == Init => Types
<1>1. <<>> \in Seq(PipeTypes)
  BY EmptySeq
<1> QED
  BY <1>1 DEF Init, Types

LEMMA SocketsAreEnds ==
  ASSUME ExtInv, forks < MaxForks, NEW n \in Int PROVE Sockets(n) \subseteq Ends
<1>1. NextFork \in Forks /\ 1..n \subseteq Nat \ {0}
  BY DEF ExtInv, Shapes, NextFork
<1> QED
  BY <1>1 DEF Sockets, Ends

(* Steps that make no fork, and after which one holder of descriptors      *)
(* holds fewer than before.                                                *)
LEMMA FewerEndsTypes ==
  ASSUME Types, UNCHANGED <<setup, pipes, of>>, paused' \in [Procs -> BOOLEAN],
         NEW h \in Forks \cup {Main}, NEW S \in SUBSET held[h], held' = [held EXCEPT ![h] = S],
         \A p \in Procs : pid'[p] \in Forks => pid'[p] = pid[p],
         \A f \in Forks : kid[f] # "none" => kid'[f] # "none"
  PROVE  Types'
<1>1. held' \in [Forks \cup {Main} -> SUBSET Ends]
  BY DEF Types
<1> QED
  BY <1>1 DEF Types

LEMMA SetupTypes ==
  ASSUME Types, NEW p \in Procs, SetupUnix(p) \/ SetupModglue(p) PROVE Types'
<1>1. PICK new : new \in Seq(PipeTypes) /\ pipes' = [pipes EXCEPT ![p] = new]
  <2>1. CASE SetupUnix(p)
    BY <2>1, SetupLists DEF SetupUnix
  <2>2. CASE SetupModglue(p)
    BY <2>2, LearntType DEF SetupModglue
  <2> QED
    BY <2>1, <2>2
<1>2. setup' \in [Procs -> {"none", "half", "done"}]
  BY DEF Types, SetupUnix, SetupModglue
<1>3. UNCHANGED <<paused, held, pid, of, kid>>
  BY DEF SetupUnix, SetupModglue, kidVars
<1>4. DOMAIN pipes' = Procs /\ \A r \in Procs : pipes'[r] \in Seq(PipeTypes)
  BY <1>1 DEF Types
<1> QED
  BY <1>2, <1>3, <1>4 DEF Types

(* A fork() of p that opens n of its sockets; no pid was fork number       *)
(* forks + 1 before.                                                       *)
LEMMA TryTypes ==
  ASSUME ExtInv, Types, NEW p \in Procs, MayFork(p), Try(p), NEW n \in Int,
         Sockets(n) \subseteq Ends => held' \in [Forks \cup {Main} -> SUBSET Ends],
         UNCHANGED <<setup, pipes>>, paused' \in [Procs -> BOOLEAN],
         \A r \in Procs : r # p => pid'[r] = pid[r],
         pid'[p] \in {NoPid, Failed} \/ (pid'[p] = forks' /\ kid'[forks'] = "born"),
         \A f \in Forks : f # forks' => kid'[f] = kid[f]
  PROVE  Types'
<1>1. /\ forks' \in Forks /\ of'[forks'] = p
      /\ \A f \in Forks : f # forks' => of'[f] = of[f]
      /\ kid[forks'] = "none"
  BY TryFacts
<1>2. Sockets(n) \subseteq Ends
  BY SocketsAreEnds DEF MayFork
<1>3. held' \in [Forks \cup {Main} -> SUBSET Ends]
  BY <1>2
<1>4. ASSUME NEW r \in Procs, pid'[r] \in Forks
      PROVE  of'[pid'[r]] = r /\ kid'[pid'[r]] # "none"
  <2>1. CASE r = p
    BY <1>1, <1>4, <2>1
  <2>2. CASE r # p
    <3>1. of[pid[r]] = r /\ kid[pid[r]] # "none" /\ pid[r] \in Forks /\ pid'[r] = pid[r]
      BY <1>4, <2>2 DEF Types
    <3>2. pid[r] # forks'
      BY <1>1, <3>1
    <3> QED
      BY <1>1, <3>1, <3>2
  <2> QED
    BY <2>1, <2>2
<1> QED
  BY <1>3, <1>4 DEF Types

LEMMA ForkTypes ==
  ASSUME ExtInv, Types, NEW p \in Procs,
         \/ \E n \in 0..(Len(pipes[p]) - 1) : OpenFails(p, n)
         \/ ForkFails(p)
         \/ Fork(p)
  PROVE  Types'
<1>1. Len(pipes[p]) \in Int
  BY DEF Types
<1>2. held \in [Forks \cup {Main} -> SUBSET Ends] /\ pid \in [Procs -> Forks \cup {NoPid, Failed}]
      /\ kid \in [Forks -> {"none", "born", "run", "ended"}] /\ paused \in [Procs -> BOOLEAN]
      /\ pid[p] \in Forks \cup {NoPid, Failed}
  BY DEF ExtInv, Shapes, Types
<1>3. ASSUME NEW n \in 0..(Len(pipes[p]) - 1), OpenFails(p, n) PROVE Types'
  <2>1. n \in Int
    BY <1>1
  <2>2. Sockets(n) \subseteq Ends => held' \in [Forks \cup {Main} -> SUBSET Ends]
    BY <1>2, <1>3 DEF OpenFails
  <2>3. pid'[p] = NoPid
    BY <1>3 DEF OpenFails, MayFork
  <2> QED
    BY <1>2, <1>3, <2>1, <2>2, <2>3, TryTypes DEF OpenFails
<1>4. CASE ForkFails(p)
  <2>1. Sockets(Len(pipes[p])) \subseteq Ends => held' \in [Forks \cup {Main} -> SUBSET Ends]
    BY <1>2, <1>4 DEF ForkFails
  <2>2. pid'[p] = Failed /\ \A r \in Procs : r # p => pid'[r] = pid[r]
    BY <1>2, <1>4 DEF ForkFails
  <2>3. paused' \in [Procs -> BOOLEAN]
    BY <1>2, <1>4 DEF ForkFails
  <2> QED
    BY <1>1, <1>4, <2>1, <2>2, <2>3, TryTypes DEF ForkFails
<1>5. CASE Fork(p)
  <2>1. Sockets(Len(pipes[p])) \subseteq Ends => held' \in [Forks \cup {Main} -> SUBSET Ends]
    BY <1>2, <1>5 DEF Fork
  <2>2. forks' = NextFork /\ forks' \in Forks
    BY <1>5, TryFacts DEF Fork, Try
  <2>3. pid'[p] = forks' /\ \A r \in Procs : r # p => pid'[r] = pid[r]
    BY <1>2, <1>5, <2>2 DEF Fork
  <2>4. kid'[forks'] = "born" /\ \A f \in Forks : f # forks' => kid'[f] = kid[f]
    BY <1>2, <1>5, <2>2 DEF Fork
  <2>5. paused' \in [Procs -> BOOLEAN]
    BY <1>2, <1>5 DEF Fork
  <2> QED
    BY <1>1, <1>5, <2>1, <2>3, <2>4, <2>5, TryTypes DEF Fork
<1> QED
  BY <1>3, <1>4, <1>5

LEMMA UserTypes ==
  ASSUME ExtInv, Types, pc = "user", User PROVE Types'
<1>1. DOMAIN held = Forks \cup {Main} /\ pid \in [Procs -> Forks \cup {NoPid, Failed}]
  BY DEF ExtInv, Shapes
<1>2. PICK p \in Procs :
        \/ NotFound(p) \/ ForkRefused(p) \/ PauseOrRestart(p)
        \/ SetupUnix(p) \/ SetupModglue(p)
        \/ (\E n \in 0..(Len(pipes[p]) - 1) : OpenFails(p, n)) \/ ForkFails(p) \/ Fork(p)
        \/ Terminate(p)
        \/ \E i \in DOMAIN pipes[p] : ClosePipe(p, i)
  BY DEF User
<1>3. CASE NotFound(p) \/ ForkRefused(p)
  BY <1>3 DEF NotFound, ForkRefused, vars, objVars, kidVars, Types
<1>4. CASE PauseOrRestart(p)
  <2>1. paused' \in [Procs -> BOOLEAN]
    BY <1>4 DEF PauseOrRestart, Types
  <2> QED
    BY <1>4, <2>1 DEF PauseOrRestart, kidVars, Types
<1>5. CASE SetupUnix(p) \/ SetupModglue(p)
  BY <1>5, SetupTypes
<1>6. CASE (\E n \in 0..(Len(pipes[p]) - 1) : OpenFails(p, n)) \/ ForkFails(p) \/ Fork(p)
  BY <1>6, ForkTypes
<1>7. CASE Terminate(p)
  <2>1. PICK S \in SUBSET held[Main] : held' = [held EXCEPT ![Main] = S]
    BY <1>7 DEF Terminate
  <2>2. \A r \in Procs : pid'[r] \in Forks => pid'[r] = pid[r]
    BY <1>1, <1>7 DEF Terminate
  <2> QED
    BY <1>7, <2>1, <2>2, FewerEndsTypes DEF Terminate, kidVars, Types
<1>8. ASSUME NEW i, ClosePipe(p, i) PROVE Types'
  <2>1. PICK S \in SUBSET held[Main] : held' = [held EXCEPT ![Main] = S]
    BY <1>8 DEF ClosePipe
  <2> QED
    BY <1>8, <2>1, FewerEndsTypes DEF ClosePipe, objVars, kidVars, Types
<1> QED
  BY <1>2, <1>3, <1>4, <1>5, <1>6, <1>7, <1>8

LEMMA TypesNext == ExtInv /\ Types /\ [Next]_vars => Types'
<1> SUFFICES ASSUME ExtInv, Types, [Next]_vars PROVE Types'
  OBVIOUS
<1>1. DOMAIN held = Forks \cup {Main} /\ kid \in [Forks -> {"none", "born", "run", "ended"}]
  BY DEF ExtInv, Shapes
<1>2. CASE pc = "user" /\ User
  BY <1>2, UserTypes
<1>3. CASE close_childside_ \/ ParentEnds
  <2>1. PICK S \in SUBSET held[Main] : held' = [held EXCEPT ![Main] = S]
    BY <1>3 DEF close_childside_, ParentEnds
  <2> QED
    BY <1>3, <2>1, FewerEndsTypes DEF close_childside_, ParentEnds, objVars, kidVars, Types
<1>4. ASSUME NEW f \in Forks, Exec(f) \/ ExecFails(f) \/ Exits(f) \/ ReadsEOF(f) PROVE Types'
  <2>1. PICK S \in SUBSET held[f] : held' = [held EXCEPT ![f] = S]
    BY <1>4 DEF Exec, ExecFails, Exits, ReadsEOF, End, close_parentside_
  <2>2. \A g \in Forks : kid[g] # "none" => kid'[g] # "none"
    BY <1>1, <1>4 DEF Exec, ExecFails, Exits, ReadsEOF, End
  <2>3. UNCHANGED <<setup, pipes, of, paused, pid>>
    BY <1>4 DEF Exec, ExecFails, Exits, ReadsEOF, End, objVars
  <2> QED
    BY <2>1, <2>2, <2>3, FewerEndsTypes DEF Types
<1>5. CASE UNCHANGED vars
  BY <1>5 DEF vars, objVars, kidVars, Types
<1> QED
  BY <1>2, <1>3, <1>4, <1>5 DEF Next

THEOREM TypesHold == Spec => []Types
BY ExtInvInit, ExtInvNext, TypesInit, TypesNext, PTL DEF Spec

(* Every variable keeps its type, and a pid_ is that of a child of the     *)
(* same process.                                                           *)
THEOREM ExtTypesHold == Spec => []ExtTypeOK
<1>1. ExtInv /\ Types => ExtTypeOK
  BY DEF ExtInv, Shapes, Types, ExtTypeOK
<1> QED
  BY ExtInvHolds, TypesHold, <1>1, PTL

-----------------------------------------------------------------------------
(* The pipes of a modglue child.  What the parent has learnt from the      *)
(* listing is, but for the names that sscanf stops in, the other end of    *)
(* each of the child's pipes; all of these get an option; and the option   *)
(* of a pipe that is alone with its name is the one for its other end.     *)
Opened(p, ps) ==
  [j \in DOMAIN Program[p].pipes |->
     add(pipe_fds_(realargs(Program[p].args, ps, [i \in DOMAIN ps |-> FarFd(i)])),
         Program[p].pipes[j])]

LEMMA LearntFromListing ==
  ASSUME NEW p \in Procs, Learnt[p] # <<>>
  PROVE  ToSet(Learnt[p]) = {OtherEnd(q) : q \in {r \in ToSet(Program[p].pipes) : r.name \notin Unread}}
<1>1. PICK own : own = Program[p].pipes /\ own \in Seq(PipeTypes)
  BY ProgramAssumption
<1>2. build_pipe_list(own) \in Seq(PipeTypes) /\ ToSet(build_pipe_list(own)) = ToSet(own)
  BY <1>1, ListIs
<1>3. <<>> \in Seq(PipeTypes) /\ ToSet(<<>>) = {}
  BY EmptySeq DEF ToSet
<1>4. Listing(p) \in {<<>>, build_pipe_list(own)}
  BY <1>1 DEF Listing
<1>5. Learnt[p] = setup_pipes_from_string_(Listing(p))
  BY DEF Learnt
<1>6. Listing(p) # <<>>
  <2> SUFFICES ASSUME Listing(p) = <<>> PROVE FALSE
    OBVIOUS
  <2>1. Learnt[p] \in Seq(PipeTypes) /\ ToSet(Learnt[p]) = {}
    BY <1>3, <1>5, LearntIs
  <2> QED
    BY <2>1, ToSetIn
<1>7. Listing(p) = build_pipe_list(own)
  BY <1>4, <1>6
<1> QED
  BY <1>1, <1>2, <1>5, <1>7, LearntIs

LEMMA PipesMeet ==
  ASSUME NEW p \in Procs, Word \notin ToSet(Program[p].args), Learnt[p] # <<>>,
         NEW ps, ps = build_pipe_list(StartupArgs \o Learnt[p]),
         NEW j \in DOMAIN Program[p].pipes, Alone(Program[p].pipes, j)
  PROVE  \E i \in DOMAIN ps :
           /\ Opened(p, ps)[j] = FarFd(i)
           /\ ps[i] = OtherEnd(Program[p].pipes[j])
<1>1. PICK own : own = Program[p].pipes /\ own \in Seq(PipeTypes)
  BY ProgramAssumption
<1>2. PICK args : args = Program[p].args /\ args \in Seq({Word, Flag})
  BY ProgramAssumption
<1>3. PICK q0 : q0 = own[j] /\ q0 \in ToSet(own)
  BY <1>1 DEF ToSet
<1>4. q0.name \notin Unread \cup DOMAIN Misread /\ q0.name # "startup_args"
      /\ \A q \in ToSet(own) : Cut(q.name, NoFd).name = q0.name => q = q0
  <2>1. \A m \in DOMAIN own : Cut(own[m].name, NoFd).name = q0.name => m = j
    BY <1>1, <1>3 DEF Alone
  <2> QED
    BY <1>1, <1>3, <2>1 DEF Alone, ToSet
<1>5. ps \in Seq(PipeTypes)
      /\ ToSet(ps) = {[name |-> "startup_args", type |-> "output"]} \cup ToSet(Learnt[p])
  <2>1. PICK a, l : a = StartupArgs /\ l = Learnt[p]
    OBVIOUS
  <2>2. a \in Seq(PipeTypes) /\ l \in Seq(PipeTypes)
    BY <2>1, SetupLists, LearntType
  <2>3. a \o l \in Seq(PipeTypes) /\ ToSet(a \o l) = ToSet(a) \cup ToSet(l)
    BY <2>2, ToSetOfConcat
  <2>4. build_pipe_list(a \o l) \in Seq(PipeTypes)
        /\ ToSet(build_pipe_list(a \o l)) = ToSet(a \o l)
    BY <2>3, ListIs
  <2> QED
    BY <2>1, <2>3, <2>4, SetupLists
<1>6. ToSet(Learnt[p]) = {OtherEnd(q) : q \in {r \in ToSet(own) : r.name \notin Unread}}
  BY <1>1, LearntFromListing
<1>7. PICK i0 \in DOMAIN ps : ps[i0] = OtherEnd(q0)
  <2>1. OtherEnd(q0) \in ToSet(ps)
    BY <1>3, <1>4, <1>5, <1>6
  <2> QED
    BY <2>1 DEF ToSet
<1>8. ps[i0].name = q0.name
  BY <1>7 DEF OtherEnd
<1>9. PICK fds : fds = [i \in DOMAIN ps |-> FarFd(i)]
  OBVIOUS
<1>10. PICK given : given = pipe_fds_(realargs(args, ps, fds))
  OBVIOUS
<1>11. q0.name \in DOMAIN given
       /\ \E i \in DOMAIN ps : ps[i].name = q0.name /\ given[q0.name] = fds[i]
  <2>1. ASSUME NEW i \in DOMAIN ps, Cut(ps[i].name, NoFd).name = q0.name
        PROVE  ps[i].name = q0.name
    <3>1. ps[i] \in ToSet(ps)
      BY DEF ToSet
    <3>2. CASE ps[i] = [name |-> "startup_args", type |-> "output"]
      <4>1. ps[i].name = "startup_args" /\ "startup_args" \notin DOMAIN Misread
        BY <3>2, MisreadAssumption
      <4> QED
        BY <2>1, <4>1 DEF Cut
    <3>3. CASE \E q \in ToSet(own) : ps[i] = OtherEnd(q)
      <4>1. PICK q \in ToSet(own) : ps[i] = OtherEnd(q)
        BY <3>3
      <4>2. ps[i].name = q.name
        BY <4>1 DEF OtherEnd
      <4> QED
        BY <1>4, <2>1, <4>2
    <3> QED
      BY <1>5, <1>6, <3>1, <3>2, <3>3
  <2>2. PICK n : n = q0.name
    OBVIOUS
  <2>3. ps[i0].name = n /\ n \notin DOMAIN Misread
        /\ \A i \in DOMAIN ps : Cut(ps[i].name, NoFd).name = n => ps[i].name = n
    BY <1>4, <1>8, <2>1, <2>2
  <2> QED
    BY <1>2, <1>5, <1>10, <2>2, <2>3, OptionsReach
<1>12. PICK i \in DOMAIN ps : ps[i].name = q0.name /\ given[q0.name] = fds[i]
  BY <1>11
<1>13. Opened(p, ps)[j] = FarFd(i)
  <2>1. Opened(p, ps)[j] = add(given, q0)
    BY <1>1, <1>2, <1>3, <1>9, <1>10 DEF Opened
  <2>2. add(given, q0) = given[q0.name]
    BY <1>11 DEF add
  <2> QED
    BY <1>9, <1>12, <2>1, <2>2
<1>14. ps[i] = OtherEnd(q0)
  <2>1. ps[i] \in ToSet(ps)
    BY DEF ToSet
  <2>2. PICK q \in ToSet(own) : ps[i] = OtherEnd(q)
    <3>1. ps[i] # [name |-> "startup_args", type |-> "output"]
      BY <1>4, <1>12
    <3> QED
      BY <1>5, <1>6, <2>1, <3>1
  <2>3. q.name = q0.name
    BY <1>12, <2>2 DEF OtherEnd
  <2>4. q = q0
    BY <1>4, <2>2, <2>3 DEF Cut
  <2> QED
    BY <2>2, <2>4
<1> QED
  BY <1>1, <1>3, <1>13, <1>14

(* What the setup has found stays as it is, and is what the children run   *)
(* on.                                                                     *)
Handed ==
  /\ DOMAIN conn = Forks
  /\ \A p \in Procs : setup[p] = "done" /\ IsModglue[p] =>
       Learnt[p] # <<>> /\ pipes[p] = build_pipe_list(StartupArgs \o Learnt[p])
  /\ \A f \in Forks : kid[f] # "none" => setup[of[f]] = "done"
  /\ \A f \in Forks : kid[f] = "run" /\ IsModglue[of[f]] =>
       conn[f] = Opened(of[f], pipes[of[f]])

LEMMA HandedInit == Init => Handed
BY DEF Init, Handed

(* Steps that leave the setup and the descriptors of the children alone.   *)
LEMMA HandedKept ==
  ASSUME Handed, UNCHANGED <<setup, pipes, conn>>,
         \A f \in Forks : kid[f] # "none" => of'[f] = of[f],
         \A f \in Forks : kid'[f] # "none" => kid[f] # "none" \/ setup[of'[f]] = "done",
         \A f \in Forks : kid'[f] = "run" => kid[f] = "run"
  PROVE  Handed'
<1>1. \A f \in Forks : kid'[f] # "none" => setup'[of'[f]] = "done"
  BY DEF Handed
<1>2. \A f \in Forks : kid'[f] = "run" => kid[f] = "run" /\ kid[f] # "none"
  OBVIOUS
<1>3. \A f \in Forks : kid'[f] = "run" => of'[f] = of[f]
  BY <1>2
<1>4. \A f \in Forks : kid'[f] = "run" /\ IsModglue[of'[f]] =>
        conn'[f] = Opened(of'[f], pipes'[of'[f]])
  BY <1>2, <1>3 DEF Handed
<1> QED
  BY <1>1, <1>4 DEF Handed

LEMMA SetupHanded ==
  ASSUME ExtInv, Types, Handed, NEW p \in Procs, SetupUnix(p) \/ SetupModglue(p) PROVE Handed'
<1>1. UNCHANGED <<of, kid, conn>> /\ setup[p] = "none"
  BY DEF SetupUnix, SetupModglue, kidVars
<1>2. \A r \in Procs : r # p => setup'[r] = setup[r] /\ pipes'[r] = pipes[r]
  BY DEF Types, SetupUnix, SetupModglue
<1>3. \A f \in Forks : kid[f] # "none" => of[f] \in Procs /\ of[f] # p
  <2>1. \A f \in Forks : kid[f] # "none" => f \in 1..forks
    BY DEF ExtInv, Shapes, Tried
  <2> QED
    BY <1>1, <2>1 DEF ExtInv, Tried, Handed
<1>4. setup'[p] = "done" /\ IsModglue[p] =>
        Learnt[p] # <<>> /\ pipes'[p] = build_pipe_list(StartupArgs \o Learnt[p])
  <2>1. CASE SetupUnix(p)
    BY <2>1 DEF SetupUnix
  <2>2. CASE SetupModglue(p)
    <3>1. setup'[p] = IF Learnt[p] = <<>> THEN "half" ELSE "done"
      BY <2>2 DEF SetupModglue, Types
    <3>2. pipes'[p] = build_pipe_list(StartupArgs \o Learnt[p])
      BY <2>2 DEF SetupModglue, Types
    <3>3. "half" # "done"
      OBVIOUS
    <3> QED
      BY <3>1, <3>2, <3>3
  <2> QED
    BY <2>1, <2>2
<1>5. \A r \in Procs : setup'[r] = "done" /\ IsModglue[r] =>
        Learnt[r] # <<>> /\ pipes'[r] = build_pipe_list(StartupArgs \o Learnt[r])
  BY <1>2, <1>4 DEF Handed
<1>6. \A f \in Forks : kid[f] # "none" =>
        setup'[of[f]] = setup[of[f]] /\ pipes'[of[f]] = pipes[of[f]]
  BY <1>2, <1>3
<1>7. \A f \in Forks : kid[f] = "run" => kid[f] # "none"
  OBVIOUS
<1>8. \A f \in Forks : kid'[f] # "none" => setup'[of'[f]] = "done"
  BY <1>1, <1>6 DEF Handed
<1>9. \A f \in Forks : kid'[f] = "run" /\ IsModglue[of'[f]] =>
        conn'[f] = Opened(of'[f], pipes'[of'[f]])
  BY <1>1, <1>6, <1>7 DEF Handed
<1>10. DOMAIN conn' = Forks
  BY <1>1 DEF Handed
<1> QED
  BY <1>5, <1>8, <1>9, <1>10 DEF Handed

LEMMA UserHanded ==
  ASSUME ExtInv, Types, Handed, pc = "user", User PROVE Handed'
<1>1. kid \in [Forks -> {"none", "born", "run", "ended"}]
  BY DEF ExtInv, Shapes
<1>2. PICK p \in Procs :
        \/ NotFound(p) \/ ForkRefused(p) \/ PauseOrRestart(p) \/ Terminate(p)
        \/ (\E i \in DOMAIN pipes[p] : ClosePipe(p, i))
        \/ SetupUnix(p) \/ SetupModglue(p)
        \/ (\E n \in 0..(Len(pipes[p]) - 1) : OpenFails(p, n)) \/ ForkFails(p) \/ Fork(p)
  BY DEF User
<1>3. CASE NotFound(p) \/ ForkRefused(p) \/ PauseOrRestart(p) \/ Terminate(p)
  BY <1>3, HandedKept
     DEF NotFound, ForkRefused, PauseOrRestart, Terminate, vars, objVars, kidVars
<1>4. CASE \E i \in DOMAIN pipes[p] : ClosePipe(p, i)
  BY <1>4, HandedKept DEF ClosePipe, objVars, kidVars
<1>5. CASE SetupUnix(p) \/ SetupModglue(p)
  BY <1>5, SetupHanded
<1>6. ASSUME MayFork(p), Try(p)
      PROVE  /\ setup[p] = "done" /\ forks' \in Forks /\ of'[forks'] = p /\ kid[forks'] = "none"
             /\ \A f \in Forks : kid[f] # "none" => of'[f] = of[f]
  BY <1>6, TryFacts DEF MayFork
<1>7. CASE (\E n \in 0..(Len(pipes[p]) - 1) : OpenFails(p, n)) \/ ForkFails(p)
  <2>1. MayFork(p) /\ Try(p) /\ UNCHANGED <<setup, pipes, conn, kid>>
    BY <1>7 DEF OpenFails, ForkFails
  <2> QED
    BY <1>6, <2>1, HandedKept
<1>8. CASE Fork(p)
  <2>1. MayFork(p) /\ Try(p) /\ UNCHANGED <<setup, pipes, conn>> /\ forks' = NextFork
    BY <1>8 DEF Fork, Try
  <2>2. \A f \in Forks : kid'[f] = IF f = forks' THEN "born" ELSE kid[f]
    BY <1>1, <1>8, <2>1 DEF Fork
  <2>3. \A f \in Forks : kid'[f] # "none" => kid[f] # "none" \/ setup[of'[f]] = "done"
    BY <1>6, <2>1, <2>2
  <2>4. \A f \in Forks : kid'[f] = "run" => kid[f] = "run"
    BY <2>2
  <2> QED
    BY <1>6, <2>1, <2>3, <2>4, HandedKept
<1> QED
  BY <1>2, <1>3, <1>4, <1>5, <1>7, <1>8

LEMMA ExecHanded ==
  ASSUME ExtInv, Handed, NEW f \in Forks, Exec(f) PROVE Handed'
<1>1. kid \in [Forks -> {"none", "born", "run", "ended"}] /\ DOMAIN conn = Forks
  BY DEF ExtInv, Shapes, Handed
<1>2. UNCHANGED <<setup, pipes, of>> /\ kid[f] = "born" /\ kid[f] # "none"
  BY DEF Exec, objVars
<1>3. \A g \in Forks : g # f => kid'[g] = kid[g] /\ conn'[g] = conn[g]
  BY <1>1 DEF Exec
<1>4. IsModglue[of[f]] => conn'[f] = Opened(of[f], pipes[of[f]])
  BY <1>1 DEF Exec, Fds, Opened
<1>5. DOMAIN conn' = Forks
  BY <1>1 DEF Exec
<1>6. \A g \in Forks : kid'[g] # "none" => setup'[of'[g]] = "done"
  BY <1>2, <1>3 DEF Handed
<1>7. ASSUME NEW g \in Forks, kid'[g] = "run", IsModglue[of'[g]]
      PROVE  conn'[g] = Opened(of'[g], pipes'[of'[g]])
  <2>1. CASE g = f
    BY <1>2, <1>4, <1>7, <2>1
  <2>2. CASE g # f
    BY <1>2, <1>3, <1>7, <2>2 DEF Handed
  <2> QED
    BY <2>1, <2>2
<1>8. \A p \in Procs : setup'[p] = "done" /\ IsModglue[p] =>
        Learnt[p] # <<>> /\ pipes'[p] = build_pipe_list(StartupArgs \o Learnt[p])
  BY <1>2 DEF Handed
<1> QED
  BY <1>5, <1>6, <1>7, <1>8 DEF Handed

LEMMA HandedNext == ExtInv /\ Types /\ Handed /\ [Next]_vars => Handed'
<1> SUFFICES ASSUME ExtInv, Types, Handed, [Next]_vars PROVE Handed'
  OBVIOUS
<1>1. CASE pc = "user" /\ User
  BY <1>1, UserHanded
<1>2. CASE close_childside_ \/ ParentEnds \/ UNCHANGED vars
  BY <1>2, HandedKept DEF close_childside_, ParentEnds, vars, objVars, kidVars
<1>3. ASSUME NEW f \in Forks, Exec(f) PROVE Handed'
  BY <1>3, ExecHanded
<1>4. ASSUME NEW f \in Forks, ExecFails(f) \/ Exits(f) \/ ReadsEOF(f) PROVE Handed'
  <2>1. kid[f] # "none" /\ kid' = [kid EXCEPT ![f] = "ended"]
        /\ UNCHANGED <<setup, pipes, conn, of>>
    BY <1>4 DEF ExecFails, Exits, ReadsEOF, End, objVars
  <2>2. \A g \in Forks : kid'[g] = IF g = f THEN "ended" ELSE kid[g]
    BY <2>1 DEF ExtInv, Shapes
  <2>3. \A g \in Forks : /\ kid'[g] # "none" => kid[g] # "none"
                         /\ kid'[g] = "run" => kid[g] = "run"
    BY <2>1, <2>2
  <2> QED
    BY <2>1, <2>3, HandedKept
<1> QED
  BY <1>1, <1>2, <1>3, <1>4 DEF Next

THEOREM HandedHolds == Spec => []Handed
BY ExtInvInit, ExtInvNext, TypesInit, TypesNext, HandedInit, HandedNext, PTL DEF Spec

(* A modglue child that runs has each of its pipes on the far end of the   *)
(* parent's pipe of that name and the other type, whatever the order in    *)
(* which the pipes were added, listed and given as options, and whatever   *)
(* becomes of those beside it whose names are too long, have a blank or    *)
(* are cut at a comma, unless it is cut to this very name.                 *)
THEOREM PipesAreFound == Spec => []FindsItsPipes
<1>1. ExtInv /\ Handed => FindsItsPipes
  <2> SUFFICES ASSUME ExtInv, Handed, NEW f \in Forks, kid[f] = "run", IsModglue[of[f]],
                      Word \notin ToSet(Program[of[f]].args),
                      NEW j \in DOMAIN Program[of[f]].pipes, Alone(Program[of[f]].pipes, j)
               PROVE  \E i \in DOMAIN pipes[of[f]] :
                        /\ conn[f][j] = FarFd(i)
                        /\ pipes[of[f]][i] = [name |-> Program[of[f]].pipes[j].name,
                                              type |-> Flipped(Program[of[f]].pipes[j].type)]
    BY DEF FindsItsPipes
  <2>1. kid[f] # "none"
    OBVIOUS
  <2>2. f \in 1..forks
    BY <2>1 DEF ExtInv, Shapes, Tried
  <2>3. PICK p \in Procs : p = of[f]
    BY <2>2 DEF ExtInv, Tried
  <2>4. setup[p] = "done" /\ IsModglue[p]
    BY <2>1, <2>3 DEF Handed
  <2>5. PICK ps : ps = pipes[p] /\ Learnt[p] # <<>>
                  /\ ps = build_pipe_list(StartupArgs \o Learnt[p])
    BY <2>4 DEF Handed
  <2>6. conn[f] = Opened(p, ps)
    BY <2>3, <2>5 DEF Handed
  <2>7. \E i \in DOMAIN ps : /\ Opened(p, ps)[j] = FarFd(i)
                             /\ ps[i] = OtherEnd(Program[p].pipes[j])
    BY <2>3, <2>5, PipesMeet
  <2> QED
    BY <2>3, <2>5, <2>6, <2>7 DEF OtherEnd
<1> QED
  BY ExtInvHolds, HandedHolds, <1>1, PTL
=============================================================================
