----------------------------- MODULE LoopProofs -----------------------------
(***************************************************************************)
(* What a round of io_loop promises, for queues and tables of any size:    *)
(* the send queue loses, repeats and reorders nothing and is never left    *)
(* without a registration (SendQ), and no event is left overdue (Event).   *)
(***************************************************************************)
EXTENDS SendQ, Event, SequenceTheorems, WellFoundedInduction, TLAPS

(* The order of the naturals, as a relation the library's WFMin applies to. *)
LEMMA NatWellFounded ==
  \E R : IsWellFoundedOn(R, Nat) /\ \A x, y \in Nat : x < y => <<x, y>> \in R
<1>1. IsWellFoundedOn(OpToRel(<, Nat), Nat)
  BY NatLessThanWellFounded
<1>2. \A x, y \in Nat : x < y => <<x, y>> \in OpToRel(<, Nat)
  BY DEF OpToRel
<1> QED BY <1>1, <1>2, Zenon

(* A set of naturals has a least element.                                  *)
LEMMA LeastNat ==
  ASSUME NEW T \in SUBSET Nat, T # {}
  PROVE  \E x \in T : \A y \in T : x <= y
<1>1. PICK R : IsWellFoundedOn(R, Nat) /\ \A x, y \in Nat : x < y => <<x, y>> \in R
  BY NatWellFounded
<1>2. IsWellFoundedOn(R, Nat)
  BY <1>1
<1>3. \E x \in T : \A y \in T : ~ (<<y, x>> \in R)
  BY <1>2, WFMin
<1>4. PICK x \in T : \A y \in T : ~ (<<y, x>> \in R)
  BY <1>3
<1>5. T \subseteq Nat
  OBVIOUS
<1>6. \A y \in T : ~(y < x)
  BY <1>1, <1>4, <1>5, Zenon
<1> QED BY <1>5, <1>6

(* Induction up to a bound, for a property given as a set.                 *)
LEMMA Induction ==
  ASSUME NEW n \in Nat, NEW S, 0 \in S, \A i \in 1 .. n : i - 1 \in S => i \in S
  PROVE  \A i \in 0 .. n : i \in S
<1> DEFINE T == {i \in 0 .. n : i \notin S}
<1>1. SUFFICES ASSUME T # {} PROVE FALSE
  OBVIOUS
<1>2. T \in SUBSET Nat
  OBVIOUS
<1>3. PICK x \in T : \A y \in T : x <= y
  BY <1>1, <1>2, LeastNat
<1>4. x \in 1 .. n /\ x - 1 \in 0 .. n
  BY <1>3
<1>5. x - 1 \in S
  BY <1>3, <1>4
<1> QED BY <1>3, <1>4, <1>5

(* A recursion over 1 .. n has a solution, for a step given as a function. *)
Solution(f, n, V, v, G) ==
  f \in [0 .. n -> V] /\ f[0] = v /\ \A i \in 1 .. n : f[i] = G[i][f[i - 1]]

(* The solution is built one index at a time.                              *)
LEMMA Recursion ==
  ASSUME NEW n \in Nat, NEW V, NEW v \in V, NEW G \in [1 .. n -> [V -> V]]
  PROVE  \E f : Solution(f, n, V, v, G)
<1> DEFINE P(m) == \E f \in [0 .. m -> V] :
                     f[0] = v /\ \A i \in 1 .. m : f[i] = G[i][f[i - 1]]
           S == {m \in 0 .. n : P(m)}
<1>1. 0 \in S
  <2> DEFINE f == [i \in 0 .. 0 |-> v]
  <2>1. f \in [0 .. 0 -> V] /\ f[0] = v /\ \A i \in 1 .. 0 : f[i] = G[i][f[i - 1]]
    OBVIOUS
  <2>2. P(0)
    BY <2>1
  <2> HIDE DEF P
  <2> QED BY <2>2
<1>2. ASSUME NEW m \in 1 .. n, m - 1 \in S PROVE m \in S
  <2>1. PICK f \in [0 .. (m - 1) -> V] :
          f[0] = v /\ \A i \in 1 .. (m - 1) : f[i] = G[i][f[i - 1]]
    BY <1>2
  <2> DEFINE u == G[m][f[m - 1]]
             g == [i \in 0 .. m |-> IF i = m THEN u ELSE f[i]]
  <2>2. u \in V
    BY <1>2, <2>1
  <2> HIDE DEF u
  <2>3. g \in [0 .. m -> V] /\ g[0] = v
    BY <1>2, <2>1, <2>2
  <2>4. ASSUME NEW i \in 1 .. m PROVE g[i] = G[i][g[i - 1]]
    <3>1. i - 1 \in 0 .. m /\ i - 1 # m /\ i \in 0 .. m /\ m \in 1 .. n
      BY <1>2
    <3>2. g[i - 1] = f[i - 1]
      BY <3>1
    <3>3. CASE i = m
      BY <3>1, <3>2, <3>3 DEF u
    <3>4. CASE i # m
      <4>1. i \in 1 .. (m - 1)
        BY <3>1, <3>4
      <4> QED BY <2>1, <3>1, <3>2, <3>4, <4>1
    <3> QED BY <3>3, <3>4
  <2>5. P(m)
    BY <2>3, <2>4
  <2>6. m \in 0 .. n
    BY <1>2
  <2> HIDE DEF P
  <2> QED BY <2>5, <2>6
<1>3. n \in S
  <2> HIDE DEF S
  <2>1. \A i \in 0 .. n : i \in S
    BY <1>1, <1>2, Induction
  <2> QED BY <2>1
<1> QED BY <1>3 DEF Solution

-----------------------------------------------------------------------------
(* The sum of a sequence of lengths.                                       *)

(* f[i] is the sum of the first i entries of s.                            *)
Sums(f, s) ==
  /\ f \in [0 .. Len(s) -> Nat] /\ f[0] = 0
  /\ \A i \in 1 .. Len(s) : f[i] = f[i - 1] + s[i]

(* The partial sums of a sequence exist ...                                *)
LEMMA SumsExist ==
  ASSUME NEW s \in Seq(Nat)
  PROVE  \E f : Sums(f, s)
<1> DEFINE n == Len(s)
           G == [i \in 1 .. n |-> [x \in Nat |-> x + s[i]]]
<1>0. n \in Nat /\ 0 \in Nat /\ \A i \in 1 .. n : s[i] \in Nat
  OBVIOUS
<1>1. G \in [1 .. n -> [Nat -> Nat]]
  BY <1>0
<1>2. PICK f : Solution(f, n, Nat, 0, G)
  <2> HIDE DEF G, n
  <2> QED BY <1>0, <1>1, Recursion
<1>3. f \in [0 .. n -> Nat] /\ f[0] = 0 /\ \A i \in 1 .. n : f[i] = G[i][f[i - 1]]
  BY <1>2 DEF Solution
<1>4. ASSUME NEW i \in 1 .. n PROVE f[i] = f[i - 1] + s[i]
  <2>0. i - 1 \in 0 .. n
    BY <1>0
  <2>1. f[i - 1] \in Nat
    BY <1>3, <2>0
  <2> QED BY <1>3, <2>1
<1> QED BY <1>3, <1>4 DEF Sums

(* ... and the last of them is what SumOf computes.                        *)
LEMMA SumsUnique ==
  ASSUME NEW s \in Seq(Nat), NEW f, Sums(f, s)
  PROVE  SumOf(s) = f[Len(s)]
<1> DEFINE R(g) == [i \in 0 .. Len(s) |-> IF i = 0 THEN 0 ELSE g[i - 1] + s[i]]
           F == CHOOSE g : g = R(g)
<1>0. Len(s) \in Nat
  OBVIOUS
<1>1. SumOf(s) = F[Len(s)]
  BY DEF SumOf
<1>2. f = R(f)
  BY DEF Sums
<1>3. F = R(F)
  BY <1>2
<1> HIDE DEF F
<1> DEFINE S == {i \in 0 .. Len(s) : F[i] = f[i]}
<1>4. 0 \in S
  BY <1>0, <1>2, <1>3
<1>5. ASSUME NEW i \in 1 .. Len(s), i - 1 \in S PROVE i \in S
  <2>1. F[i - 1] = f[i - 1] /\ i \in 0 .. Len(s) /\ i # 0
    BY <1>0, <1>5
  <2>2. F[i] = F[i - 1] + s[i] /\ f[i] = f[i - 1] + s[i]
    BY <1>2, <1>3, <2>1
  <2> QED BY <2>1, <2>2
<1>6. Len(s) \in S
  <2> HIDE DEF S
  <2>1. \A i \in 0 .. Len(s) : i \in S
    BY <1>0, <1>4, <1>5, Induction
  <2> QED BY <1>0, <2>1
<1> QED BY <1>1, <1>6

(* SumOf of no line, ...                                                   *)
LEMMA SumEmpty == SumOf(<< >>) = 0
<1> DEFINE f == [i \in 0 .. 0 |-> 0]
<1>1. << >> \in Seq(Nat) /\ Sums(f, << >>) /\ f[Len(<< >>)] = 0
  BY DEF Sums
<1> QED BY <1>1, SumsUnique

(* ... of any queue, ...                                                   *)
LEMMA SumNat ==
  ASSUME NEW s \in Seq(Nat)
  PROVE  SumOf(s) \in Nat
<1>1. PICK f : Sums(f, s)
  BY SumsExist
<1> QED BY <1>1, SumsUnique DEF Sums

(* ... of two queues one behind the other, ...                             *)
LEMMA SumConcat ==
  ASSUME NEW s \in Seq(Nat), NEW t \in Seq(Nat)
  PROVE  SumOf(s \o t) = SumOf(s) + SumOf(t)
<1>1. PICK f : Sums(f, s)
  BY SumsExist
<1>2. PICK g : Sums(g, t)
  BY SumsExist
<1>3. SumOf(s) = f[Len(s)] /\ SumOf(t) = g[Len(t)]
  BY <1>1, <1>2, SumsUnique
<1> DEFINE u == s \o t
           h == [i \in 0 .. Len(u) |-> IF i <= Len(s) THEN f[i] ELSE f[Len(s)] + g[i - Len(s)]]
<1>4. /\ u \in Seq(Nat) /\ Len(u) = Len(s) + Len(t) /\ Len(s) \in Nat /\ Len(t) \in Nat
      /\ \A i \in 1 .. Len(s) : u[i] = s[i]
      /\ \A i \in 1 .. Len(t) : u[Len(s) + i] = t[i]
  OBVIOUS
<1> HIDE DEF u
<1>5. h \in [0 .. Len(u) -> Nat] /\ h[0] = 0
  <2>1. \A i \in 0 .. Len(s) : f[i] \in Nat
    BY <1>1 DEF Sums
  <2>2. \A i \in 0 .. Len(t) : g[i] \in Nat
    BY <1>2 DEF Sums
  <2>3. f[0] = 0
    BY <1>1 DEF Sums
  <2>4. ASSUME NEW i \in 0 .. Len(u)
        PROVE  (IF i <= Len(s) THEN f[i] ELSE f[Len(s)] + g[i - Len(s)]) \in Nat
    <3>1. CASE i <= Len(s)
      BY <1>4, <2>1, <3>1
    <3>2. CASE ~ (i <= Len(s))
      <4>1. i - Len(s) \in 0 .. Len(t) /\ Len(s) \in 0 .. Len(s)
        BY <1>4, <3>2
      <4>2. f[Len(s)] \in Nat /\ g[i - Len(s)] \in Nat
        BY <2>1, <2>2, <4>1
      <4> QED BY <3>2, <4>2
    <3> QED BY <3>1, <3>2
  <2>5. 0 \in 0 .. Len(u) /\ 0 <= Len(s)
    BY <1>4
  <2>6. h \in [0 .. Len(u) -> Nat]
    BY <2>4
  <2>7. h[0] = 0
    BY <2>3, <2>5
  <2> QED BY <2>6, <2>7
<1>6. ASSUME NEW i \in 1 .. Len(u) PROVE h[i] = h[i - 1] + u[i]
  <2>1. CASE i <= Len(s)
    BY <1>1, <1>4, <2>1 DEF Sums
  <2>2. CASE i = Len(s) + 1
    <3>1. h[i] = f[Len(s)] + g[1] /\ h[i - 1] = f[Len(s)] /\ u[i] = t[1]
      BY <1>4, <2>2
    <3>2. g[1] = g[0] + t[1] /\ g[0] = 0
      BY <1>2, <1>4, <2>2 DEF Sums
    <3>3. f[Len(s)] \in Nat /\ t[1] \in Nat
      <4>1. Len(s) \in 0 .. Len(s) /\ 1 \in 1 .. Len(t)
        BY <1>4, <2>2
      <4>2. f[Len(s)] \in Nat
        BY <1>1, <4>1 DEF Sums
      <4>3. t[1] \in Nat
        BY <4>1, ElementOfSeq
      <4> QED BY <4>2, <4>3
    <3> QED BY <3>1, <3>2, <3>3
  <2>3. CASE i > Len(s) + 1
    <3> DEFINE k == i - Len(s)
    <3>1. k \in 1 .. Len(t) /\ k - 1 \in 0 .. Len(t) /\ i = Len(s) + k
      BY <1>4, <2>3
    <3>2. h[i] = f[Len(s)] + g[k] /\ h[i - 1] = f[Len(s)] + g[k - 1] /\ u[i] = t[k]
      <4>1. u[Len(s) + k] = t[k]
        BY <1>4, <3>1
      <4>2. /\ i \in 0 .. Len(u) /\ i - 1 \in 0 .. Len(u) /\ ~ (i <= Len(s))
            /\ ~ (i - 1 <= Len(s)) /\ (i - 1) - Len(s) = k - 1
        BY <1>4, <2>3
      <4> QED BY <3>1, <4>1, <4>2
    <3>3. g[k] = g[k - 1] + t[k] /\ g[k - 1] \in Nat /\ t[k] \in Nat /\ f[Len(s)] \in Nat
      <4>1. Len(s) \in 0 .. Len(s)
        BY <1>4
      <4>2. f[Len(s)] \in Nat
        BY <1>1, <4>1 DEF Sums
      <4> HIDE DEF k
      <4>3. g[k] = g[k - 1] + t[k] /\ g[k - 1] \in Nat
        BY <1>2, <3>1 DEF Sums
      <4>4. t[k] \in Nat
        BY <3>1, ElementOfSeq
      <4> QED BY <4>2, <4>3, <4>4
    <3> HIDE DEF k
    <3> QED BY <3>2, <3>3
  <2>4. i <= Len(s) \/ i = Len(s) + 1 \/ i > Len(s) + 1
    <3>1. Len(s) \in Int /\ i \in Int
      BY <1>4
    <3>2. \A a, b \in Int : a <= b \/ a = b + 1 \/ a > b + 1
      OBVIOUS
    <3> QED BY <3>1, <3>2, Zenon
  <2> HIDE DEF h
  <2> QED BY <2>1, <2>2, <2>3, <2>4
<1>7. Sums(h, u)
  BY <1>5, <1>6 DEF Sums
<1>8. SumOf(u) = h[Len(u)]
  BY <1>4, <1>7, SumsUnique
<1>9. h[Len(u)] = f[Len(s)] + g[Len(t)]
  <2>1. CASE Len(t) = 0
    BY <1>1, <1>2, <1>4, <2>1 DEF Sums
  <2>2. CASE Len(t) # 0
    BY <1>4, <2>2
  <2> QED BY <2>1, <2>2
<1> QED BY <1>3, <1>8, <1>9 DEF u

(* ... of one line, ...                                                    *)
LEMMA SumOne ==
  ASSUME NEW n \in Nat
  PROVE  SumOf(<<n>>) = n
<1> DEFINE f == [i \in 0 .. 1 |-> IF i = 0 THEN 0 ELSE n]
<1>1. <<n>> \in Seq(Nat) /\ Sums(f, <<n>>) /\ f[Len(<<n>>)] = n
  BY DEF Sums
<1> HIDE DEF f
<1> QED BY <1>1, SumsUnique

(* ... and of a queue with one line more.                                  *)
LEMMA SumAppend ==
  ASSUME NEW s \in Seq(Nat), NEW n \in Nat
  PROVE  SumOf(Append(s, n)) = SumOf(s) + n
<1>1. Append(s, n) = s \o <<n>> /\ <<n>> \in Seq(Nat)
  OBVIOUS
<1> QED BY <1>1, SumOne, SumConcat

-----------------------------------------------------------------------------
(* What every function preserves of a connection: while it is open, len is *)
(* the sum of the queue, writeofs lies inside the first line, and the      *)
(* queue is the end of all lines, the socket having taken the rest.        *)

Links == [sendQ : Seq(Lengths), writeofs : Nat, len : Int,
          status : {"open", "dead", "sendqex"}, write : BOOLEAN, sobsent : BOOLEAN,
          lines : Seq(Lengths), wire : Nat]

InOrder(l) ==
  /\ l.len = SumOf(l.sendQ)
  /\ l.writeofs < IF l.sendQ = << >> THEN 1 ELSE l.sendQ[1]
  /\ \E d \in Seq(Lengths) : l.lines = d \o l.sendQ /\ l.wire = SumOf(d) + l.writeofs

Sound(l) == l \in Links /\ (Alive(l) => InOrder(l))

Armed(l) == Alive(l) /\ l.sendQ # << >> => l.write

(* A line has at least one byte, ...                                       *)
LEMMA LengthSeqs ==
  ASSUME NEW s \in Seq(Lengths)
  PROVE  s \in Seq(Nat) /\ \A i \in 1 .. Len(s) : s[i] \in Nat \ {0}
<1>1. Lengths \subseteq Nat /\ Lengths \subseteq Nat \ {0}
  BY LengthsPositive
<1>2. s \in Seq(Nat)
  BY <1>1, SeqMonotonic
<1> QED BY <1>1, <1>2, ElementOfSeq

(* ... so a queue is empty when its length is 0.                           *)
LEMMA QueueLength ==
  ASSUME NEW s \in Seq(Lengths)
  PROVE  SumOf(s) \in Nat /\ (SumOf(s) = 0 <=> s = << >>)
<1>1. s \in Seq(Nat) /\ SumOf(s) \in Nat
  BY LengthSeqs, SumNat
<1>2. CASE s = << >>
  BY <1>1, <1>2, SumEmpty
<1>3. CASE s # << >>
  <2>1. Len(s) \in Nat \ {0} /\ Tail(s) \in Seq(Nat) /\ s = <<s[1]>> \o Tail(s)
    BY <1>1, <1>3
  <2>2. s[1] \in Nat \ {0} /\ <<s[1]>> \in Seq(Nat)
    BY <2>1, LengthSeqs
  <2>3. SumOf(<<s[1]>>) = s[1]
    BY <2>2, SumOne
  <2>4. SumOf(s) = s[1] + SumOf(Tail(s)) /\ SumOf(Tail(s)) \in Nat
    BY <2>1, <2>2, <2>3, SumConcat, SumNat
  <2> QED BY <1>1, <1>3, <2>2, <2>4
<1> QED BY <1>2, <1>3

(* dead_link_on_write drops the queue.                                     *)
LEMMA DeadSound ==
  ASSUME NEW l, Sound(l), NEW s \in {"dead", "sendqex"}
  PROVE  Sound(dead_link_on_write(l, s)) /\ Armed(dead_link_on_write(l, s))
<1>1. l \in Links /\ l.sendQ \in Seq(Lengths)
  BY DEF Sound, Links
<1> DEFINE n == l.len - SumOf(l.sendQ)
           d == dead_link_on_write(l, s)
<1>2. n \in Int /\ << >> \in Seq(Lengths)
  BY <1>1, QueueLength DEF Links
<1>3. d = [l EXCEPT !.status = s, !.sendQ = << >>, !.len = n]
  BY DEF dead_link_on_write
<1> HIDE DEF d, n
<1>4. d \in Links /\ d.status = s
  BY <1>1, <1>2, <1>3 DEF Links
<1> QED BY <1>4 DEF Sound, Armed, Alive, d

(* The number of lines that K bytes complete.                              *)
Complete(q, K, n) ==
  /\ SumOf(SubSeq(q, 1, n)) <= K
  /\ n < Len(q) => SumOf(SubSeq(q, 1, n + 1)) > K

(* A number of lines is complete after K bytes.                            *)
LEMMA CompleteExists ==
  ASSUME NEW q \in Seq(Lengths), NEW K \in Nat
  PROVE  \E n \in 0 .. Len(q) : Complete(q, K, n)
<1> DEFINE T == {n \in 0 .. Len(q) : n < Len(q) => SumOf(SubSeq(q, 1, n + 1)) > K}
<1>1. Len(q) \in Nat /\ Len(q) \in T /\ T \in SUBSET Nat
  OBVIOUS
<1>2. PICK n \in T : \A m \in T : n <= m
  BY <1>1, LeastNat
<1>3. n \in 0 .. Len(q) /\ (n < Len(q) => SumOf(SubSeq(q, 1, n + 1)) > K)
  BY <1>2
<1>a. n - 1 \notin T
  <2> HIDE DEF T
  <2> QED BY <1>1, <1>2
<1>4. SumOf(SubSeq(q, 1, n)) <= K
  <2>1. CASE n = 0
    <3>1. SubSeq(q, 1, n) = << >>
      BY <2>1, SubSeqEmpty
    <3>2. SumOf(SubSeq(q, 1, n)) = 0
      BY <3>1, SumEmpty
    <3> QED BY <3>2
  <2>2. CASE n # 0
    <3>1. n - 1 \in 0 .. Len(q) /\ n - 1 < Len(q) /\ (n - 1) + 1 = n
      BY <1>1, <1>3, <2>2
    <3>2. ~ (SumOf(SubSeq(q, 1, n)) > K)
      BY <1>a, <3>1
    <3>3. SubSeq(q, 1, n) \in Seq(Lengths)
      BY <1>1, <1>3, <2>2
    <3>4. SumOf(SubSeq(q, 1, n)) \in Nat
      BY <3>3, QueueLength
    <3> QED BY <3>2, <3>4
  <2> QED BY <2>1, <2>2
<1> QED BY <1>3, <1>4 DEF Complete

(* A queue cut in two.                                                     *)
LEMMA Cut ==
  ASSUME NEW q \in Seq(Lengths), NEW n \in 0 .. Len(q)
  PROVE  /\ SubSeq(q, 1, n) \in Seq(Lengths)
         /\ SubSeq(q, n + 1, Len(q)) \in Seq(Lengths)
         /\ q = SubSeq(q, 1, n) \o SubSeq(q, n + 1, Len(q))
         /\ SumOf(q) = SumOf(SubSeq(q, 1, n)) + SumOf(SubSeq(q, n + 1, Len(q)))
         /\ n = Len(q) => SubSeq(q, n + 1, Len(q)) = << >>
         /\ n < Len(q) =>
              /\ SubSeq(q, n + 1, Len(q)) # << >>
              /\ SubSeq(q, n + 1, Len(q))[1] = q[n + 1]
              /\ SumOf(SubSeq(q, 1, n + 1)) = SumOf(SubSeq(q, 1, n)) + q[n + 1]
<1> DEFINE a == SubSeq(q, 1, n)
           b == SubSeq(q, n + 1, Len(q))
<1>0. Len(q) \in Nat /\ n \in Nat
  OBVIOUS
<1>1. a \in Seq(Lengths) /\ b \in Seq(Lengths)
  <2>1. \A i \in 1 .. Len(q) : q[i] \in Lengths
    BY ElementOfSeq
  <2> QED BY <1>0, <2>1, SubSeqProperties
<1>2. q = a \o b
  <2>1. 1 \in 1 .. Len(q) + 1 /\ n \in 1 - 1 .. Len(q) /\ Len(q) \in n .. Len(q)
    BY <1>0
  <2>2. a \o b = SubSeq(q, 1, Len(q))
    BY <2>1, ConcatAdjacentSubSeq
  <2> QED BY <2>2, SubSeqFull
<1>3. SumOf(q) = SumOf(a) + SumOf(b)
  BY <1>1, <1>2, LengthSeqs, SumConcat
<1>4. n = Len(q) => b = << >>
  BY <1>0, SubSeqEmpty
<1>5. ASSUME n < Len(q)
      PROVE  b # << >> /\ b[1] = q[n + 1] /\ SumOf(SubSeq(q, 1, n + 1)) = SumOf(a) + q[n + 1]
  <2>1. Len(b) = Len(q) - n /\ b[1] = q[n + 1]
    BY <1>0, <1>5
  <2>2. SubSeq(q, 1, n + 1) = Append(a, q[n + 1])
    BY <1>0, <1>5
  <2>3. a \in Seq(Nat) /\ q[n + 1] \in Nat
    BY <1>0, <1>1, <1>5, LengthSeqs
  <2> HIDE DEF a, b
  <2>4. b # << >>
    BY <1>0, <1>5, <2>1
  <2> QED BY <2>1, <2>2, <2>3, <2>4, SumAppend
<1> QED BY <1>1, <1>2, <1>3, <1>4, <1>5

(* Concatenation is associative.                                           *)
LEMMA ConcatThree ==
  ASSUME NEW d \in Seq(Lengths), NEW a \in Seq(Lengths), NEW b \in Seq(Lengths)
  PROVE  d \o (a \o b) = (d \o a) \o b
OBVIOUS

(* The socket took t bytes.                                                *)
LEMMA WroteSound ==
  ASSUME NEW l, Sound(l), Alive(l), NEW t \in 0 .. Unwritten(l)
  PROVE  Sound(Wrote(l, t)) /\ Alive(Wrote(l, t))
<1> DEFINE q == l.sendQ
           K == l.writeofs + t
<1>1. /\ l \in Links /\ InOrder(l) /\ q \in Seq(Lengths) /\ l.writeofs \in Nat
      /\ l.len \in Int /\ l.wire \in Nat /\ SumOf(q) \in Nat /\ l.len = SumOf(q)
  BY QueueLength DEF Sound, Links, InOrder
<1>2. t \in Nat /\ K \in Nat /\ K <= SumOf(q)
  BY <1>1 DEF Unwritten
<1> DEFINE n == Completed(l, t)
<1>3. n \in 0 .. Len(q) /\ Complete(q, K, n)
  <2>1. \E m \in 0 .. Len(q) : Complete(q, K, m)
    <3> HIDE DEF q, K
    <3> QED BY <1>1, <1>2, CompleteExists
  <2> QED BY <2>1 DEF Complete, Completed
<1> DEFINE a == SubSeq(q, 1, n)
           b == SubSeq(q, n + 1, Len(q))
           w == Wrote(l, t)
<1>4. w = [l EXCEPT !.sendQ = SubSeq(l.sendQ, n + 1, Len(l.sendQ)),
                    !.writeofs = (l.writeofs + t) - SumOf(SubSeq(l.sendQ, 1, n)),
                    !.len = l.len - SumOf(SubSeq(l.sendQ, 1, n)), !.wire = l.wire + t]
  BY Zenon DEF Wrote
<1> HIDE DEF n, w
<1>5. /\ a \in Seq(Lengths) /\ b \in Seq(Lengths) /\ q = a \o b
      /\ SumOf(q) = SumOf(a) + SumOf(b) /\ SumOf(a) \in Nat /\ SumOf(b) \in Nat
      /\ n = Len(q) => b = << >>
      /\ n < Len(q) => /\ b # << >> /\ b[1] = q[n + 1]
                       /\ SumOf(SubSeq(q, 1, n + 1)) = SumOf(a) + q[n + 1]
  <2> HIDE DEF q
  <2> QED BY <1>1, <1>3, Cut, QueueLength
<1>6. SumOf(a) <= K /\ (n < Len(q) => SumOf(SubSeq(q, 1, n + 1)) > K)
  BY <1>3 DEF Complete
<1> DEFINE o == K - SumOf(a)
           e == l.len - SumOf(a)
<1>7. o \in Nat /\ e \in Int /\ l.wire + t \in Nat /\ e = SumOf(b)
  <2> HIDE DEF a, b, q, K
  <2>1. SumOf(a) \in Nat /\ SumOf(b) \in Nat /\ K \in Nat /\ SumOf(a) <= K
    BY <1>2, <1>5, <1>6
  <2>2. l.len = SumOf(a) + SumOf(b)
    BY <1>1, <1>5
  <2>3. l.wire + t \in Nat
    BY <1>1, <1>2
  <2> QED BY <2>1, <2>2, <2>3
<1>8. o < IF b = << >> THEN 1 ELSE b[1]
  <2> HIDE DEF a, b, q, K
  <2>1. CASE n = Len(q)
    <3>1. b = << >> /\ SumOf(b) = 0
      BY <1>5, <2>1, SumEmpty
    <3>2. o < 1
      BY <1>2, <1>5, <1>6, <3>1
    <3> QED BY <3>1, <3>2
  <2>2. CASE n # Len(q)
    <3>1. n < Len(q) /\ n + 1 \in 1 .. Len(q)
      BY <1>1, <1>3, <2>2
    <3>2. q[n + 1] \in Nat
      BY <1>1, <3>1, LengthSeqs
    <3>3. b # << >> /\ b[1] = q[n + 1] /\ SumOf(a) + q[n + 1] > K
      BY <1>5, <1>6, <3>1
    <3>4. o < q[n + 1]
      <4>1. SumOf(a) \in Nat /\ K \in Nat /\ q[n + 1] \in Nat /\ SumOf(a) + q[n + 1] > K
        BY <1>2, <1>5, <3>2, <3>3
      <4>2. \A x, y, z \in Nat : x + z > y => y - x < z
        OBVIOUS
      <4> QED BY <4>1, <4>2
    <3> QED BY <3>3, <3>4
  <2> QED BY <2>1, <2>2
<1>9. PICK d \in Seq(Lengths) : l.lines = d \o q /\ l.wire = SumOf(d) + l.writeofs
  BY <1>1 DEF InOrder
<1>10. /\ d \o a \in Seq(Lengths) /\ l.lines = (d \o a) \o b
       /\ l.wire + t = SumOf(d \o a) + o
  <2> HIDE DEF a, b, q
  <2>1. d \o a \in Seq(Lengths) /\ d \o (a \o b) = (d \o a) \o b
    <3>1. d \o a \in Seq(Lengths)
      BY <1>5, ConcatProperties
    <3>2. d \o (a \o b) = (d \o a) \o b
      BY <1>5, ConcatThree
    <3> QED BY <3>1, <3>2
  <2>2. SumOf(d \o a) = SumOf(d) + SumOf(a) /\ SumOf(d) \in Nat
    BY <1>5, LengthSeqs, SumConcat, SumNat
  <2>3. l.lines = (d \o a) \o b
    BY <1>5, <1>9, <2>1
  <2>4. l.wire + t = SumOf(d \o a) + o
    <3>1. l.wire = SumOf(d) + l.writeofs /\ SumOf(a) \in Nat /\ l.writeofs \in Nat /\ t \in Nat
      BY <1>1, <1>2, <1>5, <1>9
    <3> QED BY <2>2, <3>1
  <2> QED BY <2>1, <2>3, <2>4
<1> HIDE DEF a, b, q, K, o, e
<1>11. w = [l EXCEPT !.sendQ = b, !.writeofs = o, !.len = e, !.wire = l.wire + t]
  <2>1. /\ b = SubSeq(l.sendQ, n + 1, Len(l.sendQ)) /\ a = SubSeq(l.sendQ, 1, n)
        /\ o = (l.writeofs + t) - SumOf(a) /\ e = l.len - SumOf(a)
    BY DEF a, b, q, K, o, e
  <2> QED BY <1>4, <2>1, Zenon
<1>12. /\ w \in Links /\ w.sendQ = b /\ w.writeofs = o /\ w.len = e /\ w.wire = l.wire + t
       /\ w.lines = l.lines /\ w.status = l.status
  <2> DEFINE x == l.wire + t
  <2>1. x \in Nat /\ w = [l EXCEPT !.sendQ = b, !.writeofs = o, !.len = e, !.wire = x]
    BY <1>7, <1>11
  <2> HIDE DEF x
  <2>2. /\ w \in Links /\ w.sendQ = b /\ w.writeofs = o /\ w.len = e /\ w.wire = x
        /\ w.lines = l.lines /\ w.status = l.status
    BY <1>1, <1>5, <1>7, <2>1 DEF Links
  <2> QED BY <2>2 DEF x
<1>13. InOrder(w)
  BY <1>7, <1>8, <1>10, <1>12 DEF InOrder
<1> QED BY <1>12, <1>13 DEF Sound, Alive, w

(* Whatever the socket does with what it is offered.                       *)
LEMMA FlushedSound ==
  ASSUME NEW l, Sound(l), Alive(l), NEW f \in Flushed(l)
  PROVE  Sound(f)
<1>1. CASE l.len = 0
  BY <1>1 DEF Flushed
<1>2. CASE l.len # 0
  <2>1. \/ \E t \in 0 .. Unwritten(l) : f = Wrote(l, t)
        \/ \E t \in 0 .. Unwritten(l) - 1 : f = dead_link_on_write(Wrote(l, t), "dead")
    BY <1>2 DEF Flushed
  <2>2. ASSUME NEW t \in 0 .. Unwritten(l), f = Wrote(l, t) PROVE Sound(f)
    BY <2>2, WroteSound
  <2>3. ASSUME NEW t \in 0 .. Unwritten(l) - 1, f = dead_link_on_write(Wrote(l, t), "dead")
        PROVE  Sound(f)
    <3>1. Unwritten(l) \in Int
      BY QueueLength DEF Unwritten, Sound, Links
    <3>2. t \in 0 .. Unwritten(l)
      BY <3>1
    <3> QED BY <2>3, <3>2, WroteSound, DeadSound
  <2> QED BY <2>1, <2>2, <2>3
<1> QED BY <1>1, <1>2

(* A line is queued behind the others.                                     *)
LEMMA AppendLast ==
  ASSUME NEW d \in Seq(Lengths), NEW q \in Seq(Lengths), NEW n \in Lengths
  PROVE  /\ Append(q, n) \in Seq(Lengths) /\ Append(q, n) # << >>
         /\ Append(q, n)[1] = IF q = << >> THEN n ELSE q[1]
         /\ Append(d \o q, n) = d \o Append(q, n)
<1>1. Append(q, n) \in Seq(Lengths) /\ Append(q, n) # << >>
  OBVIOUS
<1>2. Append(q, n)[1] = IF q = << >> THEN n ELSE q[1]
  BY EmptySeq
<1>3. Append(d \o q, n) = d \o Append(q, n)
  OBVIOUS
<1> QED BY <1>1, <1>2, <1>3

(* A line is queued, or the queue is over its limit.                       *)
LEMMA QueuedSound ==
  ASSUME NEW l, Sound(l), Alive(l), NEW n \in Lengths
  PROVE  Sound(Queued(l, n))
<1>1. CASE l.len > sendqlen
  BY <1>1, DeadSound DEF Queued
<1>2. CASE ~ (l.len > sendqlen)
  <2>1. /\ l \in Links /\ l.sendQ \in Seq(Lengths) /\ l.lines \in Seq(Lengths)
        /\ l.writeofs \in Nat /\ n \in Nat \ {0}
    BY LengthsPositive DEF Sound, Links
  <2> DEFINE q == Append(l.sendQ, n)
             e == l.len + n
             a == Append(l.lines, n)
             w == Queued(l, n)
  <2>2. /\ q \in Seq(Lengths) /\ a \in Seq(Lengths) /\ q # << >>
        /\ q[1] = IF l.sendQ = << >> THEN n ELSE l.sendQ[1]
    BY <2>1, AppendLast
  <2>3. e \in Int /\ e = SumOf(q)
    BY <2>1, LengthSeqs, SumAppend DEF Sound, InOrder, Links
  <2>4. PICK d \in Seq(Lengths) : l.lines = d \o l.sendQ /\ l.wire = SumOf(d) + l.writeofs
    BY DEF Sound, InOrder
  <2>5. a = d \o q
    <3>1. Append(d \o l.sendQ, n) = d \o Append(l.sendQ, n)
      BY <2>1, AppendLast, Zenon
    <3> QED BY <2>4, <3>1
  <2>6. w = [l EXCEPT !.sendQ = q, !.len = e, !.lines = a]
    BY <1>2 DEF Queued
  <2> HIDE DEF q, e, a, w
  <2>7. /\ w \in Links /\ w.sendQ = q /\ w.len = e /\ w.lines = a
        /\ w.writeofs = l.writeofs /\ w.wire = l.wire
    BY <2>1, <2>2, <2>3, <2>6 DEF Links
  <2>8. l.writeofs < q[1]
    BY <2>1, <2>2 DEF Sound, InOrder
  <2>9. InOrder(w)
    BY <2>2, <2>3, <2>4, <2>5, <2>7, <2>8 DEF InOrder
  <2> QED BY <2>7, <2>9 DEF Sound, w
<1> QED BY <1>1, <1>2

(* Setting or clearing a flag changes nothing about the bytes.             *)
LEMMA FlagsSound ==
  ASSUME NEW l, Sound(l), NEW b \in BOOLEAN
  PROVE  /\ Sound([l EXCEPT !.write = b]) /\ Sound([l EXCEPT !.sobsent = b])
         /\ [l EXCEPT !.write = b].write = b /\ [l EXCEPT !.write = b].status = l.status
         /\ [l EXCEPT !.sobsent = b].status = l.status
BY DEF Sound, Links, Alive, InOrder

(* A flush, and the registration for the rest.                             *)
LEMMA WriteOutSound ==
  ASSUME NEW l, Sound(l), NEW w \in WriteOut(l)
  PROVE  Sound(w) /\ Armed(w)
<1>1. PICK f \in IF Alive(l) THEN Flushed(l) ELSE {l} : w = IF Alive(f) THEN Rearm(f) ELSE f
  BY DEF WriteOut
<1>2. Sound(f)
  BY <1>1, FlushedSound
<1>3. CASE ~ Alive(f)
  BY <1>1, <1>2, <1>3 DEF Armed
<1>4. CASE Alive(f) /\ f.len > 0
  <2>1. w = [f EXCEPT !.write = TRUE]
    BY <1>1, <1>4 DEF Rearm
  <2> QED BY <1>2, <2>1, FlagsSound DEF Armed
<1>5. CASE Alive(f) /\ ~ (f.len > 0)
  <2>1. w = f
    BY <1>1, <1>5 DEF Rearm
  <2>2. f.sendQ = << >>
    BY <1>2, <1>5, QueueLength DEF Sound, InOrder, Links
  <2> QED BY <1>2, <2>1, <2>2 DEF Armed
<1> QED BY <1>3, <1>4, <1>5

(* send_queued, with the BURST it may announce.                            *)
LEMMA SendQueuedSound ==
  ASSUME NEW l, Sound(l), NEW b, NEW w \in send_queued(l, b)
  PROVE  Sound(w) /\ Armed(w)
<1>1. PICK f \in WriteOut(l) :
        w \in IF BurstDue(f, b)
              THEN WriteOut(Queued([f EXCEPT !.sobsent = FALSE], BurstLen)) ELSE {f}
  BY DEF send_queued
<1>2. Sound(f) /\ Armed(f)
  BY WriteOutSound
<1>3. CASE BurstDue(f, b)
  <2> DEFINE g == [f EXCEPT !.sobsent = FALSE]
  <2>1. Sound(g) /\ Alive(g)
    BY <1>2, <1>3, FlagsSound DEF BurstDue, Alive
  <2> HIDE DEF g
  <2>2. Sound(Queued(g, BurstLen))
    BY <2>1, QueuedSound, LengthsPositive
  <2>3. w \in WriteOut(Queued(g, BurstLen))
    BY <1>1, <1>3 DEF g
  <2> QED BY <2>2, <2>3, WriteOutSound
<1>4. CASE ~ BurstDue(f, b)
  BY <1>1, <1>2, <1>4
<1> QED BY <1>3, <1>4

(* send_message.                                                           *)
LEMMA SendMessageSound ==
  ASSUME NEW l, Sound(l), Armed(l), NEW n \in Lengths, NEW b, NEW w \in send_message(l, n, b)
  PROVE  Sound(w) /\ Armed(w)
<1>1. CASE Alive(l)
  <2>1. Sound(Queued(l, n)) /\ w \in send_queued(Queued(l, n), b)
    BY <1>1, QueuedSound DEF send_message
  <2> QED BY <2>1, SendQueuedSound
<1>2. CASE ~ Alive(l)
  BY <1>2 DEF send_message
<1> QED BY <1>1, <1>2

-----------------------------------------------------------------------------
(* The connection between the events.                                      *)

IInv == Sound(Link) /\ Armed(Link)

(* A new connection has nothing queued.                                    *)
LEMMA InitIInv == Init => IInv
<1> SUFFICES ASSUME Init PROVE IInv
  OBVIOUS
<1>1. << >> \in Seq(Lengths) /\ << >> = << >> \o << >> /\ SumOf(<< >>) = 0
  BY SumEmpty
<1>2. Link \in Links
  <2>1. sobsent \in BOOLEAN /\ write \in BOOLEAN
    BY DEF Init
  <2>2. /\ sendQ \in Seq(Lengths) /\ lines \in Seq(Lengths) /\ writeofs \in Nat
        /\ len \in Int /\ wire \in Nat /\ status \in {"open", "dead", "sendqex"}
    BY <1>1 DEF Init
  <2> QED BY <2>1, <2>2, Zenon DEF Link, Links
<1>3. InOrder(Link)
  <2>1. /\ Link.len = 0 /\ Link.sendQ = << >> /\ Link.writeofs = 0
        /\ Link.lines = << >> /\ Link.wire = 0
    BY DEF Init, Link
  <2>2. Link.lines = << >> \o Link.sendQ /\ Link.wire = SumOf(<< >>) + Link.writeofs
    BY <1>1, <2>1
  <2>3. \E d \in Seq(Lengths) : Link.lines = d \o Link.sendQ
                                  /\ Link.wire = SumOf(d) + Link.writeofs
    BY <1>1, <2>2, Zenon
  <2>4. Link.writeofs < IF Link.sendQ = << >> THEN 1 ELSE Link.sendQ[1]
    BY <2>1
  <2>5. Link.len = SumOf(Link.sendQ)
    BY <1>1, <2>1
  <2> QED BY <2>3, <2>4, <2>5, Zenon DEF InOrder
<1> QED BY <1>2, <1>3 DEF IInv, Sound, Armed, Init, Link

(* The link after a step.                                                  *)
LEMMA BecomesLink ==
  ASSUME NEW l \in Links, Becomes(l)
  PROVE  Link' = l
BY DEF Becomes, Link, Links

(* Every step keeps the invariant.                                         *)
LEMMA NextIInv == IInv /\ [Next]_vars => IInv'
<1> SUFFICES ASSUME IInv, [Next]_vars PROVE IInv'
  OBVIOUS
<1>0. ASSUME NEW l, Sound(l), Armed(l), Becomes(l) PROVE IInv'
  <2>1. Link' = l
    BY <1>0, BecomesLink DEF Sound
  <2>2. Sound(Link') /\ Armed(Link')
    BY <1>0, <2>1
  <2> QED BY <2>2 DEF IInv, Sound, Armed, Alive, InOrder
<1>1. ASSUME NEW n \in Lengths, Send(n) PROVE IInv'
  <2>1. PICK l \in send_message(Link, n, burst) : Becomes(l)
    BY <1>1 DEF Send
  <2>2. Sound(l) /\ Armed(l)
    BY <2>1, SendMessageSound DEF IInv
  <2> QED BY <1>0, <2>1, <2>2
<1>2. CASE Writable
  <2>1. PICK l \in send_queued([Link EXCEPT !.write = FALSE], burst) : Becomes(l)
    BY <1>2 DEF Writable
  <2>2. Sound([Link EXCEPT !.write = FALSE])
    BY FlagsSound DEF IInv
  <2>3. Sound(l) /\ Armed(l)
    BY <2>1, <2>2, SendQueuedSound
  <2> QED BY <1>0, <2>1, <2>3
<1>3. CASE PeerBurst \/ UNCHANGED vars
  <2>1. Link' = Link
    BY <1>3 DEF PeerBurst, vars, Link
  <2> QED BY <2>1 DEF IInv, Sound, Armed, Alive, InOrder
<1> QED BY <1>1, <1>2, <1>3 DEF Next

(* The invariant says that the bytes are in order ...                      *)
LEMMA IInvBytes == IInv => BytesInOrder
<1> SUFFICES ASSUME IInv, status = "open" PROVE BytesInOrder
  BY DEF BytesInOrder
<1>1. /\ sendQ \in Seq(Lengths) /\ lines \in Seq(Lengths) /\ writeofs \in Nat
      /\ writeofs < IF sendQ = << >> THEN 1 ELSE sendQ[1]
  BY DEF IInv, Sound, Alive, InOrder, Link, Links
<1>2. PICK d \in Seq(Lengths) : lines = d \o sendQ /\ wire = SumOf(d) + writeofs
  BY DEF IInv, Sound, Alive, InOrder, Link
<1>3. Len(lines) - Len(sendQ) = Len(d) /\ Len(lines) = Len(d) + Len(sendQ)
  BY <1>1, <1>2
<1>4. SubSeq(lines, 1, Len(d)) = d
  BY <1>1, <1>2
<1>5. SubSeq(lines, Len(d) + 1, Len(lines)) = sendQ
  BY <1>1, <1>2
<1>6. sendQ = << >> => writeofs = 0
  BY <1>1
<1>7. SubSeq(lines, Len(lines) - Len(sendQ) + 1, Len(lines)) = sendQ
  BY <1>3, <1>5
<1>8. wire = SumOf(SubSeq(lines, 1, Len(lines) - Len(sendQ))) + writeofs
  BY <1>2, <1>3, <1>4
<1> QED BY <1>6, <1>7, <1>8 DEF BytesInOrder

(* ... and that a queue has its registration.                              *)
LEMMA IInvArmed == IInv => WriteArmed
BY DEF IInv, Armed, Alive, Link, WriteArmed

(* However the socket cuts the writes, and wherever the BURST line falls:  *)
(* what the socket took and what is queued are the lines sent, each byte   *)
(* once and in order.                                                      *)
THEOREM BytesStayInOrder == Spec => []BytesInOrder
BY InitIInv, NextIInv, IInvBytes, PTL DEF Spec

(* No lost wakeup: a live connection with lines queued is registered for   *)
(* COMM_SELECT_WRITE.                                                      *)
THEOREM AlwaysArmed == Spec => []WriteArmed
BY InitIInv, NextIInv, IInvArmed, PTL DEF Spec

-----------------------------------------------------------------------------
(* The event table (Event).                                                *)

Handlers == {"check_pings", "check_splitmode", "NULL"}
Slots == [func : Handlers, when : Int, frequency : Nat, active : BOOLEAN]

(* The first n slots, as far as they are in use, are not due.              *)
Quiet(t, n) == \A i \in 1 .. Len(t) : i <= n /\ t[i].active => t[i].when > 0

(* An active slot recurs.                                                  *)
TableSound(t, m) ==
  /\ t \in Seq(Slots) /\ Len(t) <= MAX_EVENTS + 1 /\ m \in Int \cup {NoMin}
  /\ \A i \in 1 .. Len(t) : t[i].active => t[i].frequency > 0

(* The cached minimum is one, give or take what staleness allows; and no   *)
(* slot is later than that.                                                *)
MinSound(t, m, s) ==
  /\ m = NoMin => s = {}
  /\ m # NoMin => \A i \in 1 .. Len(t) : t[i].active => m - Late(s) <= t[i].when

OnTime(t, s) == \A i \in 1 .. Len(t) : t[i].active => t[i].when > - Late(s)

IsEvents(w) ==
  w \in [table : {w.table}, time_min : {w.time_min}, split : {w.split}, exited : {w.exited},
         stale : {w.stale}]

Reasons == {"add", "set back"}

EventsSound(w) ==
  /\ IsEvents(w) /\ w.exited \in BOOLEAN /\ w.split \in BOOLEAN /\ w.stale \in SUBSET Reasons
  /\ TableSound(w.table, w.time_min)

(* eventAdd keeps the table sound, and adds a slot that is not due.        *)
LEMMA AddSound ==
  ASSUME NEW w, EventsSound(w), NEW f \in Handlers, NEW d \in Nat \ {0}
  PROVE  LET v == eventAdd(w, f, d)
         IN /\ EventsSound(v) /\ v.split = w.split
            /\ \A n \in Nat : Quiet(w.table, n) => Quiet(v.table, n)
            /\ \A i \in 1 .. Len(w.table) : i \in 1 .. Len(v.table) /\ v.table[i] = w.table[i]
<1> DEFINE v == eventAdd(w, f, d)
           s == [func |-> f, when |-> d, frequency |-> d, active |-> TRUE]
           t == Append(w.table, s)
           m == Lower(w.time_min, d)
           o == w.stale \cup IF w.time_min = NoMin THEN {"add"} ELSE {}
<1>0. /\ w.table \in Seq(Slots) /\ Len(w.table) \in Nat /\ w.time_min \in Int \cup {NoMin}
      /\ \A i \in 1 .. Len(w.table) : w.table[i] \in Slots
      /\ \A i \in 1 .. Len(w.table) : w.table[i].active => w.table[i].frequency > 0
  BY DEF EventsSound, TableSound
<1>1. s \in Slots /\ s.when = d /\ s.frequency = d /\ s.active
  BY DEF Slots
<1>2. CASE Len(w.table) > MAX_EVENTS
  <2>1. v = [w EXCEPT !.exited = TRUE]
    BY <1>2 DEF eventAdd
  <2>2. /\ IsEvents(v) /\ v.table = w.table /\ v.time_min = w.time_min /\ v.stale = w.stale
        /\ v.split = w.split
    BY <2>1 DEF EventsSound, IsEvents
  <2>3. v.exited
    BY <2>1 DEF EventsSound, IsEvents
  <2> HIDE DEF v
  <2>4. EventsSound(v)
    BY <2>2, <2>3 DEF EventsSound
  <2> QED BY <2>2, <2>4 DEF v
<1>3. CASE ~(Len(w.table) > MAX_EVENTS)
  <2>1. /\ IsEvents(v) /\ v.table = t /\ v.time_min = m /\ v.stale = o /\ v.split = w.split
        /\ v.exited = w.exited
    BY <1>3 DEF EventsSound, IsEvents, eventAdd, Slot
  <2> HIDE DEF v, s
  <2>2. /\ t \in Seq(Slots) /\ Len(t) = Len(w.table) + 1 /\ t[Len(t)] = s
        /\ \A i \in 1 .. Len(w.table) : t[i] = w.table[i]
    BY <1>0, <1>1
  <2>3. \A i \in 1 .. Len(t) : i \in 1 .. Len(w.table) \/ i = Len(t)
    BY <1>0, <2>2
  <2> HIDE DEF t
  <2>4. m \in Int \cup {NoMin} /\ (m = d \/ m = w.time_min)
    BY <1>0 DEF Lower
  <2>6. \A i \in 1 .. Len(t) : t[i].active => t[i].frequency > 0
    BY <1>0, <1>1, <2>2, <2>3
  <2>7. Len(t) <= MAX_EVENTS + 1
    BY <1>0, <1>3, <2>2, TableSize
  <2>o. o \in SUBSET Reasons
    BY DEF EventsSound, Reasons
  <2> HIDE DEF m, o
  <2>8. EventsSound(v)
    BY <2>1, <2>2, <2>4, <2>6, <2>7, <2>o DEF EventsSound, TableSound
  <2>9. \A n \in Nat : Quiet(w.table, n) => Quiet(v.table, n)
    BY <1>1, <2>1, <2>2, <2>3 DEF Quiet
  <2>10. \A i \in 1 .. Len(w.table) : i \in 1 .. Len(v.table) /\ v.table[i] = w.table[i]
    BY <1>0, <2>1, <2>2
  <2> QED BY <2>1, <2>8, <2>9, <2>10 DEF v
<1> QED BY <1>2, <1>3

(* eventDelete and check_splitmode switch a slot off, and leave the cached *)
(* minimum, which is a minimum of fewer slots then.                        *)
LEMMA DeleteSound ==
  ASSUME NEW w, EventsSound(w), NEW f
  PROVE  LET v == eventDelete(w, f)
         IN /\ EventsSound(v) /\ v.split = w.split /\ Len(v.table) = Len(w.table)
            /\ \A n \in Nat : Quiet(w.table, n) => Quiet(v.table, n)
<1> DEFINE v == eventDelete(w, f)
           t == [i \in 1 .. Len(w.table) |-> IF i \in eventFind(w, f) THEN Deleted
                                             ELSE w.table[i]]
<1>0. /\ w.table \in Seq(Slots) /\ Len(w.table) \in Nat /\ w.time_min \in Int \cup {NoMin}
      /\ \A i \in 1 .. Len(w.table) : w.table[i] \in Slots
      /\ \A i \in 1 .. Len(w.table) : w.table[i].active => w.table[i].frequency > 0
      /\ Len(w.table) <= MAX_EVENTS + 1
  BY DEF EventsSound, TableSound
<1>1. Deleted \in Slots
  <2>1. FALSE \in BOOLEAN /\ "NULL" \in Handlers /\ 0 \in Int /\ 0 \in Nat
    BY DEF Handlers
  <2> QED BY <2>1, Zenon DEF Deleted, Slots
<1>2. ~Deleted.active
  BY DEF Deleted
<1>3. /\ IsEvents(v) /\ v.table = t /\ v.time_min = w.time_min /\ v.stale = w.stale
      /\ v.split = w.split
  BY DEF EventsSound, IsEvents, eventDelete
<1>3e. v.exited = w.exited
  BY DEF EventsSound, IsEvents, eventDelete
<1> HIDE DEF v
<1>4. /\ t \in Seq(Slots) /\ Len(t) = Len(w.table)
      /\ \A i \in 1 .. Len(t) : t[i] = w.table[i] \/ t[i] = Deleted
  BY <1>0, <1>1
<1> HIDE DEF t
<1>5. \A i \in 1 .. Len(t) : t[i].active => t[i] = w.table[i] /\ w.table[i].active
  BY <1>2, <1>4
<1>6. \A i \in 1 .. Len(t) : t[i].active => t[i].frequency > 0
  BY <1>0, <1>4, <1>5
<1>7. EventsSound(v)
  BY <1>0, <1>3, <1>3e, <1>4, <1>6, Zenon DEF EventsSound, TableSound
<1>8. \A n \in Nat : Quiet(w.table, n) => Quiet(v.table, n)
  BY <1>3, <1>4, <1>5 DEF Quiet
<1> QED BY <1>3, <1>4, <1>7, <1>8 DEF v

(* What v is to w: sound, no shorter, and as quiet.                        *)
Onward(w, v) ==
  /\ EventsSound(v) /\ Len(v.table) >= Len(w.table)
  /\ \A n \in Nat : Quiet(w.table, n) => Quiet(v.table, n)

(* split is data only.                                                     *)
LEMMA SplitSet ==
  ASSUME NEW w, EventsSound(w), NEW b \in BOOLEAN
  PROVE  EventsSound([w EXCEPT !.split = b]) /\ [w EXCEPT !.split = b].table = w.table
<1> DEFINE v == [w EXCEPT !.split = b]
<1>1. /\ IsEvents(v) /\ v.table = w.table /\ v.time_min = w.time_min /\ v.stale = w.stale
  BY DEF EventsSound, IsEvents
<1>2. v.exited = w.exited
  BY DEF EventsSound, IsEvents
<1>2s. v.split = b
  BY DEF EventsSound, IsEvents
<1> HIDE DEF v
<1>3. EventsSound(v)
  BY <1>1, <1>2, <1>2s DEF EventsSound
<1> QED BY <1>1, <1>3 DEF v

(* The delays eventAddIsh chooses.                                         *)
LEMMA Delayed ==
  /\ \A delta \in {PingDelay, BootDelay, SplitDelay} : Ish[delta] \subseteq Nat \ {0}
  /\ \A d \in Ish[SplitDelay] : d <= Longest
  /\ Longest \in Nat
<1> DEFINE third(delta) == (2 * delta) \div 3
           late(delta) == IF delta >= 3 THEN 2 * third(delta) ELSE delta
<1>1. ASSUME NEW delta \in {PingDelay, BootDelay, SplitDelay}, NEW d \in Ish[delta]
      PROVE  d \in Nat \ {0} /\ d <= late(delta)
  <2>0. delta \in Nat \ {0}
    BY Delays
  <2>1. CASE delta >= 3
    <3>1. PICK r \in 0 .. 999 : d = third(delta) + (r * third(delta)) \div 1000
      BY <1>1, <2>1 DEF Ish
    <3>2. third(delta) \in Nat \ {0}
      BY <2>0, <2>1
    <3> DEFINE t == third(delta)
               p == r * t
    <3> HIDE DEF third
    <3>3. p \in Nat /\ p <= 1000 * t
      BY <3>2
    <3> HIDE DEF p
    <3>4. p \div 1000 \in Nat /\ p \div 1000 <= t
      BY <3>2, <3>3
    <3>5. d = t + p \div 1000
      BY <3>1 DEF p
    <3>6. late(delta) = 2 * t
      BY <2>1
    <3> HIDE DEF late
    <3> QED BY <3>2, <3>4, <3>5, <3>6
  <2>2. CASE ~(delta >= 3)
    <3>1. d = delta
      BY <1>1, <2>2 DEF Ish
    <3> QED BY <2>0, <2>2, <3>1
  <2> QED BY <2>1, <2>2
<1>2. Longest = late(SplitDelay)
  BY DEF Longest
<1>3. late(SplitDelay) \in Nat
  BY Delays
<1> HIDE DEF late
<1> QED BY <1>1, <1>2, <1>3

(* Nothing stale is nothing late.                                          *)
LEMMA LateIs ==
  /\ Late({}) = 0 /\ Late({"add"}) = Longest
  /\ \A s \in SUBSET Reasons : Late(s) \in Nat
  /\ \A s \in SUBSET Reasons : "set back" \notin s =>
       Late(s \cup {"set back"}) = Late(s) + MaxBack
<1>1. MaxBack \in Nat /\ Longest \in Nat
  BY Bounds, Delayed
<1> DEFINE A(s) == IF "add" \in s THEN Longest ELSE 0
           B(s) == IF "set back" \in s THEN MaxBack ELSE 0
<1>2. ASSUME NEW s PROVE Late(s) = A(s) + B(s) /\ A(s) \in Nat /\ B(s) \in Nat
  BY <1>1 DEF Late
<1>3. /\ A({}) = 0 /\ B({}) = 0 /\ A({"add"}) = Longest /\ B({"add"}) = 0
  OBVIOUS
<1>4. ASSUME NEW s, "set back" \notin s
      PROVE  LET u == s \cup {"set back"} IN A(u) = A(s) /\ B(s) = 0 /\ B(u) = MaxBack
  BY <1>4
<1> HIDE DEF A, B
<1>5. Late({}) = 0 /\ Late({"add"}) = Longest /\ \A s \in SUBSET Reasons : Late(s) \in Nat
  BY <1>1, <1>2, <1>3
<1>6. ASSUME NEW s \in SUBSET Reasons, "set back" \notin s
      PROVE  Late(s \cup {"set back"}) = Late(s) + MaxBack
  <2> DEFINE u == s \cup {"set back"}
  <2>1. A(u) = A(s) /\ B(s) = 0 /\ B(u) = MaxBack
    BY <1>4, <1>6
  <2> HIDE DEF u
  <2>2. Late(s) = A(s) + B(s) /\ Late(u) = A(u) + B(u) /\ A(s) \in Nat
    BY <1>2
  <2>3. Late(u) = Late(s) + MaxBack
    BY <1>1, <2>1, <2>2
  <2> QED BY <2>3 DEF u
<1> QED BY <1>5, <1>6

(* Split mode begins.                                                      *)
LEMMA SplitModeSound ==
  ASSUME NEW w, EventsSound(w), NEW v \in SplitMode(w)
  PROVE  Onward(w, v)
<1>0. Len(w.table) \in Nat
  BY DEF EventsSound, TableSound
<1>1. PICK u \in IF w.split THEN {w} ELSE eventAddIsh(w, "check_splitmode", SplitDelay) :
        v = [u EXCEPT !.split = TRUE]
  BY DEF SplitMode
<1>2. CASE w.split
  <2>1. v = [w EXCEPT !.split = TRUE]
    BY <1>1, <1>2
  <2>2. EventsSound(v) /\ v.table = w.table
    BY <2>1, SplitSet
  <2> QED BY <1>0, <2>2 DEF Onward
<1>3. CASE ~w.split
  <2>1. PICK d \in Ish[SplitDelay] : u = eventAdd(w, "check_splitmode", d)
    BY <1>1, <1>3 DEF eventAddIsh
  <2>2. d \in Nat \ {0} /\ "check_splitmode" \in Handlers
    BY Delayed DEF Handlers
  <2>3. /\ EventsSound(u) /\ \A n \in Nat : Quiet(w.table, n) => Quiet(u.table, n)
        /\ \A i \in 1 .. Len(w.table) : i \in 1 .. Len(u.table)
    BY <2>1, <2>2, AddSound, Zenon
  <2>4. Len(u.table) \in Nat
    BY <2>3 DEF EventsSound, TableSound
  <2>5. Len(u.table) >= Len(w.table)
    <3>1. CASE Len(w.table) = 0
      BY <2>4, <3>1
    <3>2. CASE Len(w.table) # 0
      <4>1. Len(w.table) \in 1 .. Len(w.table)
        BY <1>0, <3>2
      <4> QED BY <2>3, <2>4, <4>1
    <3> QED BY <3>1, <3>2
  <2>6. EventsSound(v) /\ v.table = u.table
    BY <1>1, <2>3, SplitSet
  <2> QED BY <2>3, <2>5, <2>6 DEF Onward
<1> QED BY <1>2, <1>3

(* A minimum that was sound before eventAdd is sound after it.             *)
LEMMA AddOnTime ==
  ASSUME NEW w, EventsSound(w), MinSound(w.table, w.time_min, w.stale),
         OnTime(w.table, w.stale), NEW f \in Handlers, NEW d \in Nat \ {0}, d <= Longest
  PROVE  LET v == eventAdd(w, f, d)
         IN /\ MinSound(v.table, v.time_min, v.stale) /\ OnTime(v.table, v.stale)
            /\ v.stale \subseteq w.stale \cup {"add"}
<1> DEFINE v == eventAdd(w, f, d)
           s == [func |-> f, when |-> d, frequency |-> d, active |-> TRUE]
           t == Append(w.table, s)
           m == Lower(w.time_min, d)
           o == w.stale \cup IF w.time_min = NoMin THEN {"add"} ELSE {}
<1>0. /\ w.table \in Seq(Slots) /\ Len(w.table) \in Nat /\ w.time_min \in Int \cup {NoMin}
      /\ \A i \in 1 .. Len(w.table) : w.table[i] \in Slots
      /\ w.stale \in SUBSET Reasons
  BY DEF EventsSound, TableSound
<1>1. s \in Slots /\ s.when = d
  BY DEF Slots
<1>2. CASE Len(w.table) > MAX_EVENTS
  <2>1. v = [w EXCEPT !.exited = TRUE]
    BY <1>2 DEF eventAdd
  <2>2. v.table = w.table /\ v.time_min = w.time_min /\ v.stale = w.stale
    BY <2>1 DEF EventsSound, IsEvents
  <2> QED BY <2>2 DEF v
<1>3. CASE ~(Len(w.table) > MAX_EVENTS)
  <2>1. v.table = t /\ v.time_min = m /\ v.stale = o
    BY <1>3 DEF EventsSound, IsEvents, eventAdd, Slot
  <2> HIDE DEF v, s
  <2>2. /\ Len(t) = Len(w.table) + 1 /\ t[Len(t)] = s
        /\ \A i \in 1 .. Len(w.table) : t[i] = w.table[i]
    BY <1>0, <1>1
  <2>3. \A i \in 1 .. Len(t) : i \in 1 .. Len(w.table) \/ i = Len(t)
    BY <1>0, <2>2
  <2> HIDE DEF t
  <2>4. Longest \in Nat /\ d \in Int /\ Late(w.stale) \in Nat /\ NoMin \notin Int
    <3>1. Longest \in Nat /\ d \in Int
      BY Delayed
    <3>2. Late(w.stale) \in Nat
      BY <1>0, LateIs
    <3> QED BY <3>1, <3>2, TableSize
  <2>5. CASE w.time_min = NoMin
    <3>1. w.stale = {} /\ o = {"add"} /\ m = d
      BY <2>5 DEF MinSound, Lower
    <3> HIDE DEF o, m
    <3>2. Late(w.stale) = 0 /\ Late(o) = Longest
      BY <3>1, LateIs
    <3>3. ASSUME NEW i \in 1 .. Len(t), t[i].active PROVE t[i].when \in Int /\ t[i].when > 0
      <4>1. CASE i = Len(t)
        BY <1>1, <2>2, <4>1
      <4>2. CASE i \in 1 .. Len(w.table)
        <5>1. w.table[i].when > - Late(w.stale) /\ w.table[i].when \in Int
          BY <1>0, <2>2, <3>3, <4>2 DEF OnTime, Slots
        <5>2. t[i] = w.table[i]
          BY <2>2, <4>2
        <5> QED BY <3>2, <5>1, <5>2
      <4> QED BY <2>3, <4>1, <4>2
    <3>4. MinSound(t, m, o) /\ OnTime(t, o)
      BY <2>4, <3>1, <3>2, <3>3 DEF MinSound, OnTime
    <3> QED BY <2>1, <3>1, <3>4 DEF v
  <2>6. CASE w.time_min # NoMin
    <3>1. o = w.stale /\ w.time_min \in Int
      BY <1>0, <2>6
    <3>2. m \in Int /\ m <= d /\ m <= w.time_min /\ m # NoMin
      BY <2>4, <2>6, <3>1 DEF Lower
    <3> HIDE DEF o, m
    <3> DEFINE L == Late(w.stale)
    <3>3. ASSUME NEW i \in 1 .. Len(t), t[i].active
          PROVE  t[i].when > - L /\ m - L <= t[i].when
      <4>0. L \in Nat
        BY <2>4
      <4> HIDE DEF L
      <4>1. CASE i = Len(t)
        BY <1>1, <2>2, <2>4, <3>2, <4>0, <4>1
      <4>2. CASE i \in 1 .. Len(w.table)
        <5>1. /\ w.table[i].when > - L /\ w.table[i].when \in Int
              /\ w.time_min - L <= w.table[i].when
          BY <1>0, <2>2, <2>6, <3>3, <4>2 DEF OnTime, MinSound, Slots, L
        <5>2. t[i] = w.table[i]
          BY <2>2, <4>2
        <5> QED BY <3>1, <3>2, <4>0, <5>1, <5>2
      <4> QED BY <2>3, <4>1, <4>2
    <3>4. MinSound(t, m, o) /\ OnTime(t, o)
      BY <3>1, <3>2, <3>3 DEF MinSound, OnTime
    <3> QED BY <2>1, <3>1, <3>4 DEF v
  <2> QED BY <2>5, <2>6
<1> QED BY <1>2, <1>3

(* So it is when split mode begins.                                        *)
LEMMA SplitModeOnTime ==
  ASSUME NEW w, EventsSound(w), MinSound(w.table, w.time_min, w.stale),
         OnTime(w.table, w.stale), NEW v \in SplitMode(w)
  PROVE  /\ MinSound(v.table, v.time_min, v.stale) /\ OnTime(v.table, v.stale)
         /\ v.stale \subseteq w.stale \cup {"add"}
<1>1. PICK u \in IF w.split THEN {w} ELSE eventAddIsh(w, "check_splitmode", SplitDelay) :
        v = [u EXCEPT !.split = TRUE]
  BY DEF SplitMode
<1>2. /\ MinSound(u.table, u.time_min, u.stale) /\ OnTime(u.table, u.stale)
      /\ u.stale \subseteq w.stale \cup {"add"} /\ EventsSound(u)
  <2>1. CASE w.split
    BY <1>1, <2>1
  <2>2. CASE ~w.split
    <3>1. PICK d \in Ish[SplitDelay] : u = eventAdd(w, "check_splitmode", d)
      BY <1>1, <2>2 DEF eventAddIsh
    <3>2. d \in Nat \ {0} /\ d <= Longest /\ "check_splitmode" \in Handlers
      BY Delayed DEF Handlers
    <3> QED BY <3>1, <3>2, AddOnTime, AddSound, Zenon
  <2> QED BY <2>1, <2>2
<1>3. v.table = u.table /\ v.time_min = u.time_min /\ v.stale = u.stale
  BY <1>1, <1>2 DEF EventsSound, IsEvents
<1> QED BY <1>2, <1>3

(* The handler of the event that ends split mode.                          *)
LEMMA CheckSplitSound ==
  ASSUME NEW w, EventsSound(w)
  PROVE  Onward(w, check_splitmode(w))
<1> DEFINE u == [w EXCEPT !.split = FALSE]
           v == eventDelete(u, "check_splitmode")
<1>1. EventsSound(u) /\ u.table = w.table
  BY SplitSet
<1>2. check_splitmode(w) = v
  BY DEF check_splitmode
<1> HIDE DEF u
<1>3. /\ EventsSound(v) /\ Len(v.table) = Len(u.table)
      /\ \A n \in Nat : Quiet(u.table, n) => Quiet(v.table, n)
  BY <1>1, DeleteSound
<1>4. Len(w.table) \in Nat
  BY DEF EventsSound, TableSound
<1> HIDE DEF v
<1> QED BY <1>1, <1>2, <1>3, <1>4 DEF Onward

(* So does every handler.                                                  *)
LEMMA HandledSound ==
  ASSUME NEW w, EventsSound(w), NEW f, NEW v \in Handled(w, f)
  PROVE  Onward(w, v)
<1>1. Onward(w, w)
  BY DEF Onward, EventsSound, TableSound
<1>2. v = w \/ v \in SplitMode(w) \/ v = check_splitmode(w)
  BY DEF Handled
<1> QED BY <1>1, <1>2, SplitModeSound, CheckSplitSound

(* A slot that ran is due a period later; nothing is cached any more.      *)
LEMMA RescheduledSound ==
  ASSUME NEW w, EventsSound(w), NEW i \in 1 .. Len(w.table)
  PROVE  LET v == Rescheduled(w, i)
         IN /\ EventsSound(v) /\ MinSound(v.table, v.time_min, v.stale) /\ v.stale = {}
            /\ (Quiet(w.table, i - 1) => Quiet(v.table, i))
<1> DEFINE v == Rescheduled(w, i)
           e == w.table[i]
           x == IF e.active THEN e.frequency ELSE 0
           n == [e EXCEPT !.when = x]
           t == [w.table EXCEPT ![i] = n]
<1>0. /\ w.table \in Seq(Slots) /\ Len(w.table) \in Nat /\ e \in Slots
      /\ \A j \in 1 .. Len(w.table) : w.table[j] \in Slots
      /\ \A j \in 1 .. Len(w.table) : w.table[j].active => w.table[j].frequency > 0
      /\ Len(w.table) <= MAX_EVENTS + 1
  BY DEF EventsSound, TableSound
<1>1. /\ IsEvents(v) /\ v.table = t /\ v.time_min = NoMin /\ v.stale = {}
  BY DEF EventsSound, IsEvents, Rescheduled
<1>1e. v.exited = w.exited
  BY DEF EventsSound, IsEvents, Rescheduled
<1>1s. v.split = w.split
  BY DEF EventsSound, IsEvents, Rescheduled
<1>2. x \in Nat /\ (e.active => x > 0)
  BY <1>0 DEF Slots
<1> HIDE DEF v, x
<1>3. n \in Slots
  <2> HIDE DEF e
  <2>0. e \in Slots
    BY <1>0
  <2>1. n = [func |-> e.func, when |-> x, frequency |-> e.frequency, active |-> e.active]
    BY <2>0 DEF Slots
  <2>2. e.func \in Handlers /\ x \in Int /\ e.frequency \in Nat /\ e.active \in BOOLEAN
    BY <1>0, <1>2 DEF Slots
  <2> HIDE DEF n
  <2> QED BY <2>1, <2>2 DEF Slots
<1>3f. n.when = x /\ n.frequency = e.frequency
  BY <1>0, <1>2 DEF Slots
<1>3a. n.active <=> e.active
  BY <1>0, <1>2 DEF Slots
<1> HIDE DEF n
<1>4. /\ t \in Seq(Slots) /\ Len(t) = Len(w.table) /\ t[i] = n
      /\ \A j \in 1 .. Len(w.table) : j # i => t[j] = w.table[j]
  BY <1>0, <1>3
<1> HIDE DEF t
<1>5. \A j \in 1 .. Len(t) : t[j].active => t[j].frequency > 0
  BY <1>0, <1>3f, <1>3a, <1>4
<1>6. EventsSound(v)
  <2>1. TableSound(t, NoMin) /\ {} \in SUBSET Reasons
    BY <1>0, <1>4, <1>5 DEF TableSound
  <2> QED BY <1>1, <1>1e, <1>1s, <2>1, Zenon DEF EventsSound
<1>7. ASSUME Quiet(w.table, i - 1) PROVE Quiet(t, i)
  <2> SUFFICES ASSUME NEW j \in 1 .. Len(t), j <= i, t[j].active PROVE t[j].when > 0
    BY DEF Quiet
  <2>1. CASE j = i
    BY <1>2, <1>3f, <1>3a, <1>4, <2>1
  <2>2. CASE j # i
    <3>1. j <= i - 1 /\ j \in 1 .. Len(w.table) /\ t[j] = w.table[j]
      BY <1>0, <1>4, <2>2
    <3> QED BY <1>7, <3>1 DEF Quiet
  <2> QED BY <2>1, <2>2
<1>8. MinSound(v.table, v.time_min, v.stale)
  BY <1>1 DEF MinSound
<1> QED BY <1>1, <1>6, <1>7, <1>8 DEF v

(* After the round for slot i the first i slots are not due, unless the    *)
(* program has ended.                                                      *)
LEMMA RunSlotSound ==
  ASSUME NEW w, EventsSound(w), NEW i \in Nat \ {0}, NEW v \in RunSlot(w, i)
  PROVE  /\ EventsSound(v) /\ v.stale \subseteq w.stale
         /\ MinSound(w.table, w.time_min, w.stale) => MinSound(v.table, v.time_min, v.stale)
         /\ w.exited \/ Quiet(w.table, i - 1) => v.exited \/ Quiet(v.table, i)
<1>0. Len(w.table) \in Nat /\ \A j \in 1 .. Len(w.table) : w.table[j] \in Slots
  BY DEF EventsSound, TableSound
<1>1. CASE i > Len(w.table) \/ w.exited \/ ~Due(w, i)
  <2>1. v = w
    BY <1>1 DEF RunSlot
  <2>2. ASSUME ~w.exited, Quiet(w.table, i - 1) PROVE Quiet(w.table, i)
    <3> SUFFICES ASSUME NEW j \in 1 .. Len(w.table), j <= i, w.table[j].active
                 PROVE  w.table[j].when > 0
      BY DEF Quiet
    <3>1. CASE j = i
      <4>1. ~(w.table[i].when <= 0) /\ w.table[i].when \in Int
        BY <1>0, <1>1, <2>2, <3>1 DEF Due, Slots
      <4> QED BY <3>1, <4>1
    <3>2. CASE j # i
      <4>1. j <= i - 1
        BY <1>0, <3>2
      <4> QED BY <2>2, <4>1 DEF Quiet
    <3> QED BY <3>1, <3>2
  <2> QED BY <2>1, <2>2
<1>2. CASE ~(i > Len(w.table) \/ w.exited \/ ~Due(w, i))
  <2>1. PICK u \in Handled(w, w.table[i].func) : v = Rescheduled(u, i)
    BY <1>2 DEF RunSlot
  <2>2. Onward(w, u)
    BY HandledSound
  <2>3. Len(u.table) \in Nat
    BY <2>2 DEF Onward, EventsSound, TableSound
  <2>4. i \in 1 .. Len(u.table) /\ i - 1 \in Nat
    BY <1>0, <1>2, <2>2, <2>3 DEF Onward
  <2>5. EventsSound(u) /\ (Quiet(w.table, i - 1) => Quiet(u.table, i - 1))
    BY <2>2, <2>4 DEF Onward
  <2>6. /\ EventsSound(v) /\ (Quiet(u.table, i - 1) => Quiet(v.table, i))
        /\ MinSound(v.table, v.time_min, v.stale) /\ v.stale = {}
    BY <2>1, <2>4, <2>5, RescheduledSound
  <2> QED BY <1>2, <2>5, <2>6
<1> QED BY <1>1, <1>2

(* The worlds the loop may be in.                                          *)
Worlds == {w \in [table : Seq(Slots), time_min : Int \cup {NoMin}, split : BOOLEAN,
                  exited : BOOLEAN, stale : SUBSET Reasons] : EventsSound(w)}

(* They are the sound ones.                                                *)
LEMMA WorldsAre == ASSUME NEW w PROVE w \in Worlds <=> EventsSound(w)
<1>1. ASSUME EventsSound(w)
      PROVE  w \in [table : Seq(Slots), time_min : Int \cup {NoMin}, split : BOOLEAN,
                    exited : BOOLEAN, stale : SUBSET Reasons]
  <2>1. /\ w \in [table : {w.table}, time_min : {w.time_min}, split : {w.split},
                  exited : {w.exited}, stale : {w.stale}]
        /\ w.table \in Seq(Slots) /\ w.time_min \in Int \cup {NoMin} /\ w.split \in BOOLEAN
        /\ w.exited \in BOOLEAN /\ w.stale \in SUBSET Reasons
    BY <1>1 DEF EventsSound, IsEvents, TableSound
  <2> QED BY <2>1
<1> QED BY <1>1, Zenon DEF Worlds

(* Every prefix of the loop of eventRun, as a function of its length.      *)
LEMMA RunSound ==
  ASSUME NEW w, EventsSound(w), MinSound(w.table, w.time_min, w.stale), NEW v \in eventRun(w)
  PROVE  /\ EventsSound(v) /\ (v.exited \/ Quiet(v.table, MAX_EVENTS + 1))
         /\ MinSound(v.table, v.time_min, v.stale) /\ v.stale \subseteq w.stale
<1> DEFINE n == MAX_EVENTS + 1
           G == [i \in 1 .. n |-> [S \in SUBSET Worlds |-> UNION {RunSlot(u, i) : u \in S}]]
           R(g) == [i \in 0 .. n |->
                      IF i = 0 THEN {w} ELSE UNION {RunSlot(u, i) : u \in g[i - 1]}]
           F == CHOOSE g : g = R(g)
<1>0. n \in Nat /\ {w} \in SUBSET Worlds
  BY WorldsAre, TableSize
<1>1. G \in [1 .. n -> [SUBSET Worlds -> SUBSET Worlds]]
  <2>1. ASSUME NEW i \in 1 .. n, NEW S \in SUBSET Worlds, NEW u \in S, NEW x \in RunSlot(u, i)
        PROVE  x \in Worlds
    <3>1. EventsSound(u) /\ i \in Nat \ {0}
      BY <1>0, WorldsAre
    <3>2. EventsSound(x)
      BY <3>1, RunSlotSound
    <3> QED BY <3>2, WorldsAre
  <2>2. \A i \in 1 .. n : \A S \in SUBSET Worlds :
          UNION {RunSlot(u, i) : u \in S} \in SUBSET Worlds
    BY <2>1
  <2> QED BY <2>2
<1>2. PICK f : Solution(f, n, SUBSET Worlds, {w}, G)
  <2> HIDE DEF G, n
  <2> QED BY <1>0, <1>1, Recursion
<1>3. /\ f \in [0 .. n -> SUBSET Worlds] /\ f[0] = {w}
      /\ \A i \in 1 .. n : f[i] = G[i][f[i - 1]]
  BY <1>2 DEF Solution
<1>4. f = R(f)
  <2>1. ASSUME NEW i \in 1 .. n PROVE f[i] = UNION {RunSlot(u, i) : u \in f[i - 1]}
    <3>1. f[i - 1] \in SUBSET Worlds
      BY <1>0, <1>3
    <3> QED BY <1>3, <3>1
  <2>2. \A i \in 0 .. n : i = 0 \/ i \in 1 .. n
    BY <1>0
  <2> HIDE DEF n, G
  <2> QED BY <1>3, <2>1, <2>2
<1>5. F = R(F)
  BY <1>4
<1>6. eventRun(w) = F[n]
  BY DEF eventRun
<1> HIDE DEF F, G
<1> DEFINE P(u, i) == /\ EventsSound(u) /\ (u.exited \/ Quiet(u.table, i))
                      /\ MinSound(u.table, u.time_min, u.stale) /\ u.stale \subseteq w.stale
           S == {i \in 0 .. n : \A u \in F[i] : P(u, i)}
<1>7. 0 \in S
  <2>1. F[0] = {w}
    BY <1>0, <1>5
  <2>2. Quiet(w.table, 0)
    BY DEF Quiet, EventsSound, TableSound
  <2>3. P(w, 0)
    BY <2>2
  <2> HIDE DEF P
  <2> QED BY <1>0, <2>1, <2>3
<1>8. ASSUME NEW i \in 1 .. n, i - 1 \in S PROVE i \in S
  <2>1. i \in 0 .. n /\ i # 0 /\ i \in Nat \ {0} /\ \A u \in F[i - 1] : P(u, i - 1)
    BY <1>0, <1>8
  <2>2. F[i] = UNION {RunSlot(u, i) : u \in F[i - 1]}
    BY <1>5, <2>1
  <2>3. ASSUME NEW u \in F[i - 1], NEW x \in RunSlot(u, i) PROVE P(x, i)
    BY <2>1, RunSlotSound
  <2> HIDE DEF P
  <2> QED BY <2>1, <2>2, <2>3
<1>9. n \in S
  <2> HIDE DEF S
  <2>1. \A i \in 0 .. n : i \in S
    BY <1>0, <1>7, <1>8, Induction
  <2> QED BY <1>0, <2>1
<1> QED BY <1>6, <1>9

(* Some slot in use is the first to be due.                                *)
LEMMA FirstDue ==
  ASSUME NEW t \in Seq(Slots)
  PROVE  \/ \A i \in 1 .. Len(t) : ~t[i].active
         \/ \E i \in 1 .. Len(t) :
              t[i].active /\ \A j \in 1 .. Len(t) : t[j].active => t[i].when <= t[j].when
<1> DEFINE n == Len(t)
           a(i) == t[i].active
           d(i) == t[i].when
<1>0. n \in Nat /\ \A i \in 1 .. n : d(i) \in Int
  <2>1. n \in Nat /\ \A i \in 1 .. n : t[i] \in Slots
    OBVIOUS
  <2> HIDE DEF n
  <2> QED BY <2>1 DEF Slots
<1>1. \/ \A i \in 1 .. n : ~a(i)
      \/ \E i \in 1 .. n : a(i) /\ \A j \in 1 .. n : a(j) => d(i) <= d(j)
  <2> HIDE DEF n, a, d
  <2> DEFINE P(k) == \/ \A i \in 1 .. k : ~a(i)
                     \/ \E i \in 1 .. k : a(i) /\ \A j \in 1 .. k : a(j) => d(i) <= d(j)
             S == {k \in 0 .. n : P(k)}
  <2>1. 0 \in S
    BY <1>0
  <2>2. ASSUME NEW k \in 1 .. n, k - 1 \in S PROVE k \in S
    <3>0. k \in 0 .. n /\ \A i \in 1 .. k : i \in 1 .. (k - 1) \/ i = k
      BY <1>0
    <3>0a. \A i \in 1 .. (k - 1) : i \in 1 .. k
      BY <1>0
    <3>0b. k \in 1 .. k /\ \A i \in 1 .. k : d(i) \in Int
      BY <1>0
    <3>1. CASE ~a(k)
      <4>1. P(k - 1)
        BY <2>2
      <4>2. CASE \A i \in 1 .. (k - 1) : ~a(i)
        <5>1. \A i \in 1 .. k : ~a(i)
          BY <3>0, <3>1, <4>2
        <5> QED BY <3>0, <5>1
      <4>3. CASE \E i \in 1 .. (k - 1) : a(i) /\ \A j \in 1 .. (k - 1) : a(j) => d(i) <= d(j)
        <5>1. PICK i \in 1 .. (k - 1) : a(i) /\ \A j \in 1 .. (k - 1) : a(j) => d(i) <= d(j)
          BY <4>3
        <5>2. i \in 1 .. k /\ \A j \in 1 .. k : a(j) => d(i) <= d(j)
          BY <3>0, <3>0a, <3>1, <5>1
        <5>3. P(k)
          BY <5>1, <5>2
        <5> QED BY <3>0, <5>3
      <4> QED BY <4>1, <4>2, <4>3
    <3>2. CASE a(k) /\ \A i \in 1 .. (k - 1) : ~a(i)
      <4>0. d(k) <= d(k) /\ \A j \in 1 .. k : a(j) => j = k
        BY <3>0, <3>0b, <3>2
      <4>1. P(k)
        BY <3>0b, <3>2, <4>0
      <4> QED BY <3>0, <4>1
    <3>3. CASE a(k) /\ \E i \in 1 .. (k - 1) : a(i) /\ \A j \in 1 .. (k - 1) : a(j) => d(i) <= d(j)
      <4>1. PICK i \in 1 .. (k - 1) : a(i) /\ \A j \in 1 .. (k - 1) : a(j) => d(i) <= d(j)
        BY <3>3
      <4>2. CASE d(i) <= d(k)
        <5>1. i \in 1 .. k /\ \A j \in 1 .. k : a(j) => d(i) <= d(j)
          BY <3>0, <3>0a, <4>1, <4>2
        <5>2. P(k)
          BY <4>1, <5>1
        <5> QED BY <3>0, <5>2
      <4>3. CASE d(k) < d(i)
        <5>1. \A j \in 1 .. k : a(j) => d(k) <= d(j)
          BY <3>0, <3>0a, <3>0b, <4>1, <4>3
        <5>2. P(k)
          BY <3>0b, <3>3, <5>1
        <5> QED BY <3>0, <5>2
      <4> QED BY <3>0a, <3>0b, <4>2, <4>3
    <3>4. P(k - 1)
      BY <2>2
    <3> QED BY <3>1, <3>2, <3>3, <3>4
  <2>3. n \in S
    <3> HIDE DEF S
    <3>1. \A i \in 0 .. n : i \in S
      BY <1>0, <2>1, <2>2, Induction
    <3> QED BY <1>0, <3>1
  <2> QED BY <2>3
<1> QED BY <1>1

(* eventNextTime caches the minimum.                                       *)
LEMMA NextTimeSound ==
  ASSUME NEW w, EventsSound(w)
  PROVE  LET v == eventNextTime(w)
         IN /\ EventsSound(v) /\ v.table = w.table /\ v.stale = w.stale /\ (v.exited <=> w.exited)
            /\ MinSound(w.table, w.time_min, w.stale) => MinSound(v.table, v.time_min, v.stale)
<1>1. CASE w.time_min # NoMin \/ Whens(w) = {}
  BY <1>1 DEF eventNextTime
<1>2. CASE ~(w.time_min # NoMin \/ Whens(w) = {})
  <2> DEFINE W == Whens(w)
             m == CHOOSE t \in W : \A u \in W : t <= u
             v == [w EXCEPT !.time_min = m]
  <2>0. w.table \in Seq(Slots) /\ \A i \in 1 .. Len(w.table) : w.table[i] \in Slots
    BY DEF EventsSound, TableSound
  <2>1. \E t \in W : \A u \in W : t <= u
    <3>1. PICK i \in 1 .. Len(w.table) : w.table[i].active /\
             \A j \in 1 .. Len(w.table) : w.table[j].active => w.table[i].when <= w.table[j].when
      BY <1>2, <2>0, FirstDue DEF Whens
    <3> QED BY <3>1 DEF Whens
  <2>2. m \in W /\ \A u \in W : m <= u
    <3> HIDE DEF W
    <3> QED BY <2>1
  <2>3. m \in Int /\ \A i \in 1 .. Len(w.table) : w.table[i].active => m <= w.table[i].when
    <3> HIDE DEF m
    <3> QED BY <2>0, <2>2 DEF Whens, Slots
  <2>4. eventNextTime(w) = v
    BY <1>2 DEF eventNextTime
  <2> HIDE DEF m
  <2>5. /\ IsEvents(v) /\ v.table = w.table /\ v.time_min = m /\ v.stale = w.stale
        /\ v.split = w.split
    BY DEF EventsSound, IsEvents
  <2>6. v.exited = w.exited
    BY DEF EventsSound, IsEvents
  <2> HIDE DEF v
  <2>7. TableSound(w.table, m)
    BY <2>3 DEF EventsSound, TableSound
  <2>8. EventsSound(v)
    BY <2>5, <2>6, <2>7, Zenon DEF EventsSound
  <2>9. ASSUME MinSound(w.table, w.time_min, w.stale) PROVE MinSound(w.table, m, w.stale)
    <3>1. w.stale = {} /\ m # NoMin
      BY <1>2, <2>3, <2>9, TableSize DEF MinSound
    <3>2. Late(w.stale) = 0
      BY <3>1, LateIs
    <3> QED BY <2>3, <3>1, <3>2 DEF MinSound
  <2> QED BY <2>4, <2>5, <2>6, <2>8, <2>9
<1> QED BY <1>1, <1>2

(* The inductive invariant: the minimum is right, give or take what        *)
(* staleness allows, and in the second half of a round no event is later.  *)
EventInv ==
  /\ EventsSound(World) /\ phase \in {"events", "io"}
  /\ MinSound(table, time_min, stale)
  /\ "set back" \in stale => setBack
  /\ phase = "io" /\ ~exited => OnTime(table, stale)

WorldSound == /\ table \in Seq(Slots) /\ Len(table) <= MAX_EVENTS + 1
              /\ TableSound(table, time_min) /\ exited \in BOOLEAN
              /\ split \in BOOLEAN /\ stale \in SUBSET Reasons

(* The state of the module, seen as a world.                               *)
LEMMA WorldIs == EventsSound(World) <=> WorldSound
<1>1. /\ IsEvents(World) /\ World.table = table /\ World.time_min = time_min
      /\ World.stale = stale /\ World.split = split
  BY DEF World, IsEvents
<1>2. World.exited = exited
  BY DEF World
<1>3. EventsSound(World) <=>
        /\ exited \in BOOLEAN /\ split \in BOOLEAN /\ stale \in SUBSET Reasons
        /\ TableSound(table, time_min)
  BY <1>1, <1>2, Zenon DEF EventsSound
<1> QED BY <1>3, Zenon DEF WorldSound, TableSound

(* A step to the world v.                                                  *)
LEMMA BecomesSound ==
  ASSUME NEW v, EventsSound(v), EventsBecome(v)
  PROVE  EventsSound(World)' /\ table' = v.table /\ stale' = v.stale /\ exited' = v.exited
<1>1. /\ table' = v.table /\ time_min' = v.time_min /\ split' = v.split /\ exited' = v.exited
      /\ stale' = v.stale
  BY DEF EventsBecome
<1>2. WorldSound'
  BY <1>1, Zenon DEF WorldSound, EventsSound, TableSound
<1>3. EventsSound(World)'
  BY <1>2, WorldIs, PTL
<1> QED BY <1>1, <1>3

(* The clock goes forward: the slots in use and the minimum move together. *)
LEMMA ShiftSound ==
  ASSUME WorldSound, NEW d \in Nat, table' = Shift(d), time_min' = ShiftMin(d),
         stale' = stale, exited' = exited, split' = split
  PROVE  /\ WorldSound'
         /\ MinSound(table, time_min, stale) => MinSound(table, time_min, stale)'
<1> DEFINE t == Shift(d)
           m == ShiftMin(d)
<1>0. /\ table \in Seq(Slots) /\ Len(table) \in Nat /\ time_min \in Int \cup {NoMin}
      /\ \A i \in 1 .. Len(table) : table[i] \in Slots
      /\ \A i \in 1 .. Len(table) : table[i].active => table[i].frequency > 0
      /\ Len(table) <= MAX_EVENTS + 1 /\ stale \in SUBSET Reasons
  BY DEF WorldSound, TableSound
<1>1. ASSUME NEW e \in Slots
      PROVE  /\ [e EXCEPT !.when = @ - d] \in Slots
             /\ [e EXCEPT !.when = @ - d].when = e.when - d
             /\ [e EXCEPT !.when = @ - d].frequency = e.frequency
  <2>1. e.func \in Handlers /\ e.when \in Int /\ e.frequency \in Nat /\ e.active \in BOOLEAN
    BY DEF Slots
  <2>2. [e EXCEPT !.when = @ - d] = [func |-> e.func, when |-> e.when - d,
                                     frequency |-> e.frequency, active |-> e.active]
    BY DEF Slots
  <2>3. e.when - d \in Int
    BY <2>1
  <2> QED BY <2>1, <2>2, <2>3 DEF Slots
<1>2. /\ t \in Seq(Slots) /\ Len(t) = Len(table)
      /\ \A i \in 1 .. Len(table) :
           t[i] = IF table[i].active THEN [table[i] EXCEPT !.when = @ - d] ELSE table[i]
  BY <1>0, <1>1 DEF Shift
<1> HIDE DEF t
<1>3. ASSUME NEW i \in 1 .. Len(t), t[i].active
      PROVE  /\ table[i].active /\ i \in 1 .. Len(table) /\ table[i].when \in Int
             /\ t[i].when = table[i].when - d /\ t[i].frequency = table[i].frequency
  <2>1. i \in 1 .. Len(table) /\ table[i].active
    BY <1>2, <1>3
  <2>2. table[i] \in Slots /\ t[i] = [table[i] EXCEPT !.when = @ - d]
    BY <1>0, <1>2, <2>1
  <2>3. table[i].when \in Int
    BY <2>2 DEF Slots
  <2> QED BY <1>1, <2>1, <2>2, <2>3
<1>4. /\ m \in Int \cup {NoMin} /\ (m = NoMin <=> time_min = NoMin)
      /\ m # NoMin => time_min \in Int /\ m = time_min - d
  <2>1. NoMin \notin Int
    BY TableSize
  <2> QED BY <1>0, <2>1 DEF ShiftMin
<1> HIDE DEF m
<1>5. \A i \in 1 .. Len(t) : t[i].active => t[i].frequency > 0
  BY <1>0, <1>3
<1>6. ASSUME MinSound(table, time_min, stale) PROVE MinSound(t, m, stale)
  <2>1. ASSUME m # NoMin, NEW i \in 1 .. Len(t), t[i].active PROVE m - Late(stale) <= t[i].when
    <3>1. time_min - Late(stale) <= table[i].when
      BY <1>3, <1>4, <1>6, <2>1 DEF MinSound
    <3>2. Late(stale) \in Nat
      BY <1>0, LateIs
    <3> QED BY <1>3, <1>4, <2>1, <3>1, <3>2
  <2> QED BY <1>4, <1>6, <2>1 DEF MinSound
<1>7. TableSound(t, m)
  BY <1>0, <1>2, <1>4, <1>5 DEF TableSound
<1>8. table' = t /\ time_min' = m
  BY DEF t, m
<1>9. WorldSound'
  BY <1>7, <1>8, Zenon DEF WorldSound, TableSound
<1>10. MinSound(t, m, stale) => MinSound(table, time_min, stale)'
  BY <1>8 DEF MinSound, Late
<1> QED BY <1>6, <1>9, <1>10

(* Initially both events are a whole period away.                          *)
LEMMA EventInvInit ==
  ASSUME EventInit PROVE EventInv
<1>0. PICK p \in Ish[PingDelay], q \in Ish[BootDelay] :
        /\ table = <<Slot("check_pings", p), Slot("check_splitmode", q)>>
        /\ time_min = Lower(p, q)
  BY DEF EventInit
<1> DEFINE a == Slot("check_pings", p)
           b == Slot("check_splitmode", q)
<1>d. p \in Nat /\ q \in Nat /\ p > 0 /\ q > 0
  BY Delayed
<1>1. /\ a \in Slots /\ a.when = p /\ a.frequency = p
      /\ b \in Slots /\ b.when = q /\ b.frequency = q
  BY <1>d DEF Slot, Slots, Handlers
<1> HIDE DEF a, b
<1>2. table = <<a, b>> /\ phase = "events" /\ stale = {} /\ ~exited /\ ~split
  BY <1>0 DEF EventInit, a, b
<1>2b. exited \in BOOLEAN /\ split \in BOOLEAN
  BY Zenon DEF EventInit
<1>3. time_min \in Int /\ time_min <= p /\ time_min <= q /\ time_min # NoMin
  BY <1>0, <1>d, TableSize DEF Lower
<1>4. /\ table \in Seq(Slots) /\ Len(table) = 2 /\ \A i \in 1 .. 2 : table[i] = a \/ table[i] = b
  BY <1>1, <1>2
<1>5. TableSound(table, time_min)
  BY <1>d, <1>1, <1>3, <1>4, TableSize DEF TableSound
<1>6. WorldSound
  BY <1>2, <1>2b, <1>4, <1>5, Zenon DEF WorldSound, TableSound, Reasons
<1>7. MinSound(table, time_min, stale)
  <2>1. Late(stale) = 0
    BY <1>2, LateIs
  <2> QED BY <1>d, <1>1, <1>3, <1>4, <2>1 DEF MinSound
<1> QED BY <1>2, <1>6, <1>7, WorldIs DEF EventInv

(* A quiet table is on time.                                               *)
LEMMA QuietOnTime ==
  ASSUME NEW v, EventsSound(v), Quiet(v.table, MAX_EVENTS + 1)
  PROVE  OnTime(v.table, v.stale)
<1>1. /\ Len(v.table) \in Nat /\ Len(v.table) <= MAX_EVENTS + 1 /\ v.stale \in SUBSET Reasons
      /\ \A i \in 1 .. Len(v.table) : v.table[i] \in Slots
  BY DEF EventsSound, TableSound
<1>2. \A i \in 1 .. Len(v.table) : i <= MAX_EVENTS + 1 /\ v.table[i].when \in Int
  BY <1>1, TableSize DEF Slots
<1>3. Late(v.stale) \in Nat
  BY <1>1, LateIs
<1> QED BY <1>2, <1>3 DEF Quiet, OnTime

(* A step of io_loop to the world v.                                       *)
LEMMA EventInvBecomes ==
  ASSUME NEW v, EventsSound(v), EventsBecome(v), MinSound(v.table, v.time_min, v.stale),
         phase' = "io", ~v.exited => OnTime(v.table, v.stale),
         "set back" \in v.stale => setBack, setBack' = setBack
  PROVE  EventInv'
<1>1. EventsSound(World)' /\ table' = v.table /\ stale' = v.stale /\ exited' = v.exited
  BY BecomesSound
<1>2. time_min' = v.time_min
  BY DEF EventsBecome
<1>3. MinSound(table, time_min, stale)'
  BY <1>1, <1>2 DEF MinSound, Late
<1>4. ~exited' => OnTime(table, stale)'
  BY <1>1 DEF OnTime, Late
<1> QED BY <1>1, <1>3, <1>4 DEF EventInv

(* A step that moves the slots and the minimum only.                       *)
LEMMA EventInvMoves ==
  ASSUME EventInv, WorldSound', MinSound(table, time_min, stale)',
         "set back" \in stale' => setBack', phase' = "events"
  PROVE  EventInv'
<1>1. EventsSound(World)'
  BY WorldIs, PTL
<1> QED BY <1>1 DEF EventInv

(* A step that keeps table, minimum and phase.                             *)
LEMMA EventInvSame ==
  ASSUME EventInv, split' \in BOOLEAN, table' = table, time_min' = time_min, phase' = phase,
         exited' = exited, stale' = stale, setBack' = setBack
  PROVE  EventInv'
<1>1. WorldSound
  BY WorldIs DEF EventInv
<1>2. WorldSound'
  BY <1>1, Zenon DEF WorldSound, TableSound
<1>3. EventsSound(World)'
  BY <1>2, WorldIs, PTL
<1>4. MinSound(table, time_min, stale)' /\ (OnTime(table, stale)' <=> OnTime(table, stale))
  BY DEF EventInv, MinSound, OnTime, Late
<1> QED BY <1>3, <1>4 DEF EventInv

(* Every step keeps it.                                                    *)
LEMMA EventStep ==
  ASSUME EventInv, [EventNext]_eventVars PROVE EventInv'
<1>0. WorldSound /\ EventsSound(World) /\ phase \in {"events", "io"}
  BY WorldIs DEF EventInv
<1>w. World.table = table /\ World.stale = stale /\ (World.exited <=> exited)
      /\ World.time_min = time_min
  BY DEF World
<1>m. MinSound(World.table, World.time_min, World.stale)
  BY <1>w DEF EventInv
<1>1. CASE RunEvents
  <2> DEFINE w == eventNextTime(World)
  <2>1. /\ EventsSound(w) /\ w.table = table /\ w.stale = stale
        /\ MinSound(w.table, w.time_min, w.stale)
    BY <1>0, <1>w, <1>m, NextTimeSound
  <2>2. phase' = "io" /\ ~exited /\ setBack' = setBack
    BY <1>1 DEF RunEvents
  <2>3. CASE w.time_min = NoMin \/ w.time_min <= 0
    <3>1. PICK v \in eventRun(w) : EventsBecome(v)
      BY <1>1, <2>3 DEF RunEvents
    <3> HIDE DEF w
    <3>2. /\ EventsSound(v) /\ (v.exited \/ Quiet(v.table, MAX_EVENTS + 1))
          /\ MinSound(v.table, v.time_min, v.stale) /\ v.stale \subseteq stale
      BY <2>1, RunSound
    <3>3. ~v.exited => OnTime(v.table, v.stale)
      BY <3>2, QuietOnTime
    <3>4. "set back" \in v.stale => setBack
      BY <3>2 DEF EventInv
    <3> QED BY <2>2, <3>1, <3>2, <3>3, <3>4, EventInvBecomes
  <2>4. CASE ~(w.time_min = NoMin \/ w.time_min <= 0)
    <3>1. EventsBecome(w)
      BY <1>1, <2>4 DEF RunEvents
    <3> HIDE DEF w
    <3>2. /\ w.time_min \in Int /\ w.time_min > 0 /\ w.stale \in SUBSET Reasons
          /\ \A i \in 1 .. Len(w.table) : w.table[i] \in Slots
      BY <2>1, <2>4 DEF EventsSound, TableSound
    <3>3. Late(w.stale) \in Nat
      BY <3>2, LateIs
    <3>4. ASSUME NEW i \in 1 .. Len(w.table), w.table[i].active
          PROVE  w.table[i].when > - Late(w.stale)
      <4>1. w.time_min - Late(w.stale) <= w.table[i].when /\ w.table[i].when \in Int
        BY <2>1, <2>4, <3>2, <3>4 DEF MinSound, Slots
      <4> QED BY <3>2, <3>3, <4>1
    <3>5. OnTime(w.table, w.stale)
      BY <3>4 DEF OnTime
    <3>6. "set back" \in w.stale => setBack
      BY <2>1 DEF EventInv
    <3> QED BY <2>1, <2>2, <3>1, <3>5, <3>6, EventInvBecomes
  <2> QED BY <2>3, <2>4
<1>2. CASE LinkLost
  <2>1. PICK v \in SplitMode(World) : EventsBecome(v)
    BY <1>2 DEF LinkLost
  <2>2. phase = "io" /\ ~exited /\ phase' = phase /\ setBack' = setBack
    BY <1>2 DEF LinkLost
  <2>3. EventsSound(v)
    BY <1>0, SplitModeSound DEF Onward
  <2>4. OnTime(World.table, World.stale)
    BY <1>w, <2>2 DEF EventInv
  <2>5. /\ MinSound(v.table, v.time_min, v.stale) /\ OnTime(v.table, v.stale)
        /\ v.stale \subseteq stale \cup {"add"}
    BY <1>0, <1>w, <1>m, <2>4, SplitModeOnTime
  <2>6. "set back" \in v.stale => setBack
    BY <2>5 DEF EventInv
  <2> QED BY <2>1, <2>2, <2>3, <2>5, <2>6, EventInvBecomes
<1>3. CASE rehash
  <2>1. /\ split' = FALSE /\ table' = table /\ time_min' = time_min /\ phase' = phase
        /\ exited' = exited /\ stale' = stale /\ setBack' = setBack
    BY <1>3 DEF rehash
  <2> QED BY <2>1, EventInvSame
<1>4. ASSUME NEW d \in 0 .. MaxJump, ClockForward(d) PROVE EventInv'
  <2>1. /\ table' = Shift(d) /\ time_min' = ShiftMin(d) /\ split' = split
        /\ exited' = exited /\ stale' = stale /\ phase' = "events" /\ setBack' = setBack
    BY <1>4 DEF ClockForward
  <2>2. d \in Nat
    BY <1>4, Bounds
  <2>3. WorldSound' /\ MinSound(table, time_min, stale)'
    BY <1>0, <2>1, <2>2, ShiftSound DEF EventInv
  <2> QED BY <2>1, <2>3, EventInvMoves DEF EventInv
<1>5. ASSUME NEW b \in 1 .. MaxBack, ClockBack(b) PROVE EventInv'
  <2>1. /\ table' = table /\ time_min' = ShiftMin(-b) /\ split' = split /\ ~setBack
        /\ exited' = exited /\ phase' = "events" /\ setBack' = TRUE
        /\ stale' = stale \cup IF time_min = NoMin THEN {} ELSE {"set back"}
    BY <1>5 DEF ClockBack
  <2>2. /\ b \in Nat /\ MaxBack \in Nat /\ b <= MaxBack /\ NoMin \notin Int
        /\ time_min \in Int \cup {NoMin}
        /\ stale \in SUBSET Reasons /\ \A i \in 1 .. Len(table) : table[i] \in Slots
    BY <1>0, Bounds, TableSize DEF WorldSound, TableSound
  <2>3. CASE time_min = NoMin
    <3>1. time_min' = time_min /\ stale' = stale
      BY <2>1, <2>3 DEF ShiftMin
    <3>2. WorldSound'
      BY <1>0, <2>1, <3>1, Zenon DEF WorldSound, TableSound
    <3>3. MinSound(table, time_min, stale)'
      BY <2>1, <3>1 DEF EventInv, MinSound, Late
    <3> QED BY <2>1, <3>2, <3>3, EventInvMoves
  <2>4. CASE time_min # NoMin
    <3>1. time_min \in Int /\ time_min' = time_min + b /\ stale' = stale \cup {"set back"}
      <4>1. time_min \in Int
        BY <2>2, <2>4
      <4>2. time_min' = time_min - (-b) /\ stale' = stale \cup {"set back"}
        BY <2>1, <2>4 DEF ShiftMin
      <4>3. \A x \in Int, y \in Nat : x - (-y) = x + y
        OBVIOUS
      <4>4. time_min' = time_min + b
        BY <2>2, <4>1, <4>2, <4>3
      <4> QED BY <4>1, <4>2, <4>4
    <3>2. time_min' \in Int /\ stale' \in SUBSET Reasons /\ time_min' # NoMin
      <4>0. \A x \in Int, y \in Nat : x + y \in Int
        OBVIOUS
      <4>1. time_min' \in Int
        BY <2>2, <3>1, <4>0, Zenon
      <4>2. stale' \in SUBSET Reasons
        BY <2>2, <3>1 DEF Reasons
      <4> QED BY <2>2, <4>1, <4>2
    <3>3. TableSound(table, time_min)'
      BY <1>0, <2>1, <3>2 DEF WorldSound, TableSound
    <3>4. WorldSound'
      BY <1>0, <2>1, <3>2, <3>3, Zenon DEF WorldSound, TableSound
    <3>5. Late(stale') = Late(stale) + MaxBack /\ Late(stale) \in Nat
      BY <2>1, <2>2, <3>1, LateIs DEF EventInv
    <3>6. ASSUME NEW i \in 1 .. Len(table), table[i].active
          PROVE  time_min' - Late(stale') <= table[i].when
      <4>1. time_min - Late(stale) <= table[i].when /\ table[i].when \in Int
        BY <2>2, <2>4, <3>6 DEF EventInv, MinSound, Slots
      <4>2. \A m, l, k, c, x \in Int : m - l <= x /\ c <= k => (m + c) - (l + k) <= x
        OBVIOUS
      <4>3. b \in Int /\ MaxBack \in Int /\ Late(stale) \in Int
        BY <2>2, <3>5
      <4>4. (time_min + b) - (Late(stale) + MaxBack) <= table[i].when
        BY <2>2, <3>1, <4>1, <4>2, <4>3
      <4> QED BY <3>1, <3>5, <4>4
    <3>7. MinSound(table', time_min', stale')
      BY <2>1, <3>2, <3>6 DEF MinSound
    <3>8. MinSound(table, time_min, stale)'
      BY <3>7 DEF MinSound, Late
    <3> QED BY <2>1, <3>4, <3>8, EventInvMoves
  <2> QED BY <2>3, <2>4
<1>6. CASE UNCHANGED eventVars
  <2>1. /\ table' = table /\ time_min' = time_min /\ split' = split /\ phase' = phase
        /\ exited' = exited /\ stale' = stale /\ setBack' = setBack
    BY <1>6 DEF eventVars
  <2> QED BY <1>0, <2>1, EventInvSame DEF WorldSound
<1> QED BY <1>1, <1>2, <1>3, <1>4, <1>5, <1>6 DEF EventNext

(* For a table of any size and any delays, however often events are added, *)
(* deleted, run or time out together, and whichever way the clock is set:  *)
(* a round of io_loop that asks eventNextTime and runs eventRun leaves no  *)
(* event overdue (event.c), but for the seconds of the delay of an event   *)
(* added while no minimum was cached and those the clock was set back by.  *)
THEOREM EventsAlwaysOnTime == EventSpec => []EventsOnTime
<1>1. EventInit => EventInv
  BY EventInvInit
<1>2. EventInv /\ [EventNext]_eventVars => EventInv'
  BY EventStep
<1>3. EventInv => EventsOnTime
  BY DEF EventInv, EventsOnTime, OnTime
<1> QED BY <1>1, <1>2, <1>3, PTL DEF EventSpec
=============================================================================
