--------------------------- MODULE AdmissionProofs --------------------------
(***************************************************************************)
(* Who is let in, who is heard and who may stay.  For any addresses,       *)
(* limits and periods, however long the clock runs: no connection is let   *)
(* in before the silence its stage asks for, and no window of              *)
(* throttle_ttime seconds lets in more than two counts' worth (Throttle).  *)
(* Whatever a peer becomes, its descriptor is read by the reader for what  *)
(* it is (RecvQ).  For any users, masks, lengths and signals: bans bite,   *)
(* and the masks of the file stay in force (Masks).                        *)
(***************************************************************************)
EXTENDS Throttle, RecvQ, Masks, WellFoundedInduction, TLAPS

(* The order of the naturals, as a relation the library's WFMin applies to. *)
LEMMA NatWellFounded ==
  \E R : IsWellFoundedOn(R, Nat) /\ \A x, y \in Nat : x < y => <<x, y>> \in R
<1>1. IsWellFoundedOn(OpToRel(<, Nat), Nat)
  BY NatLessThanWellFounded
<1>2. \A x, y \in Nat : x < y => <<x, y>> \in OpToRel(<, Nat)
  BY DEF OpToRel
<1> QED BY <1>1, <1>2, Zenon

LEMMA LeastNat ==
  ASSUME NEW T \in SUBSET Nat, T # {}
  PROVE  \E x \in T : \A y \in T : x <= y
<1>1. PICK R : IsWellFoundedOn(R, Nat) /\ \A x, y \in Nat : x < y => <<x, y>> \in R
  BY NatWellFounded
<1>2. IsWellFoundedOn(R, Nat)
  BY <1>1
<1>3. \E x \in T : \A y \in T : ~ (<<y, x>> \in R)
  BY <1>2, WFMin
<1>4. PICK x \in T : \A y \in T : ~ (<<y, x>> \in R)
  BY <1>3
<1>5. T \subseteq Nat
  OBVIOUS
<1>6. \A y \in T : ~(y < x)
  BY <1>1, <1>4, <1>5, Zenon
<1> QED BY <1>5, <1>6

(* Induction up to a bound, for a property given as a set.                 *)
LEMMA Induction ==
  ASSUME NEW n \in Nat, NEW S, 0 \in S, \A i \in 1 .. n : i - 1 \in S => i \in S
  PROVE  \A i \in 0 .. n : i \in S
<1> DEFINE T == {i \in 0 .. n : i \notin S}
<1>1. SUFFICES ASSUME T # {} PROVE FALSE
  OBVIOUS
<1>2. T \in SUBSET Nat
  OBVIOUS
<1>3. PICK x \in T : \A y \in T : x <= y
  BY <1>1, <1>2, LeastNat
<1>4. x \in 1 .. n /\ x - 1 \in 0 .. n
  BY <1>3
<1>5. x - 1 \in S
  BY <1>3, <1>4
<1> QED BY <1>3, <1>4, <1>5

-----------------------------------------------------------------------------
(* The sum of the ages.                                                    *)

(* g[n] is the sum of the first n ages of f.                               *)
Sums(g, f) ==
  /\ g \in [0 .. throttle_ttime + 1 -> Nat] /\ g[0] = 0
  /\ \A n \in 1 .. throttle_ttime + 1 : g[n] = g[n - 1] + f[n - 1]

LEMMA SumsExist ==
  ASSUME NEW f \in [Ages -> Nat]
  PROVE  \E g : Sums(g, f)
<1> DEFINE w == throttle_ttime + 1
           P(m) == \E g \in [0 .. m -> Nat] :
                     g[0] = 0 /\ \A n \in 1 .. m : g[n] = g[n - 1] + f[n - 1]
           S == {m \in 0 .. w : P(m)}
<1>0. w \in Nat
  BY Settings
<1>1. 0 \in S
  <2> DEFINE g == [n \in 0 .. 0 |-> 0]
  <2>1. g \in [0 .. 0 -> Nat] /\ g[0] = 0 /\ \A n \in 1 .. 0 : g[n] = g[n - 1] + f[n - 1]
    OBVIOUS
  <2>2. P(0)
    BY <2>1
  <2> HIDE DEF P
  <2> QED BY <1>0, <2>2
<1>2. ASSUME NEW m \in 1 .. w, m - 1 \in S PROVE m \in S
  <2>1. PICK g \in [0 .. (m - 1) -> Nat] :
          g[0] = 0 /\ \A n \in 1 .. (m - 1) : g[n] = g[n - 1] + f[n - 1]
    BY <1>2
  <2> DEFINE k == [n \in 0 .. m |-> IF n = m THEN g[m - 1] + f[m - 1] ELSE g[n]]
  <2>2. g[m - 1] \in Nat /\ f[m - 1] \in Nat
    BY <1>2, <2>1, Settings DEF Ages
  <2>3. k \in [0 .. m -> Nat] /\ k[0] = 0
    BY <1>2, <2>1, <2>2
  <2>4. ASSUME NEW n \in 1 .. m PROVE k[n] = k[n - 1] + f[n - 1]
    <3>1. n - 1 \in 0 .. m /\ n - 1 # m /\ n \in 0 .. m /\ m \in 1 .. w
      BY <1>0, <1>2
    <3>2. k[n - 1] = g[n - 1]
      BY <3>1
    <3>3. CASE n = m
      BY <3>2, <3>3
    <3>4. CASE n # m
      <4>1. n \in 1 .. (m - 1)
        BY <1>0, <3>1, <3>4
      <4> QED BY <2>1, <3>1, <3>2, <3>4, <4>1
    <3> QED BY <3>3, <3>4
  <2>5. P(m)
    BY <2>3, <2>4
  <2>6. m \in 0 .. w
    BY <1>0, <1>2
  <2> HIDE DEF P
  <2> QED BY <2>5, <2>6
<1>3. w \in S
  <2> HIDE DEF S
  <2>1. \A i \in 0 .. w : i \in S
    BY <1>0, <1>1, <1>2, Induction
  <2> QED BY <1>0, <2>1
<1> QED BY <1>3 DEF Sums

LEMMA SumToSums ==
  ASSUME NEW f \in [Ages -> Nat]
  PROVE  Sums(SumTo(f), f)
<1> DEFINE R(g) == [n \in 0 .. throttle_ttime + 1 |-> IF n = 0 THEN 0 ELSE g[n - 1] + f[n - 1]]
           F == CHOOSE g : g = R(g)
<1>1. SumTo(f) = F
  BY DEF SumTo
<1>2. PICK g : Sums(g, f)
  BY SumsExist
<1>3. g = R(g)
  BY <1>2, Settings DEF Sums
<1>4. F = R(F)
  BY <1>3
<1> HIDE DEF F
<1> DEFINE w == throttle_ttime + 1
           S == {n \in 0 .. w : F[n] = g[n]}
<1>5. w \in Nat
  BY Settings
<1>6. 0 \in S
  BY <1>3, <1>4, <1>5
<1>7. ASSUME NEW n \in 1 .. w, n - 1 \in S PROVE n \in S
  <2>1. F[n - 1] = g[n - 1] /\ n \in 0 .. w /\ n # 0
    BY <1>5, <1>7
  <2>2. F[n] = F[n - 1] + f[n - 1] /\ g[n] = g[n - 1] + f[n - 1]
    BY <1>3, <1>4, <2>1
  <2> QED BY <2>1, <2>2
<1>8. \A n \in 0 .. w : n \in S
  <2> HIDE DEF S
  <2> QED BY <1>5, <1>6, <1>7, Induction
<1>9. F = g
  BY <1>3, <1>4, <1>8
<1> QED BY <1>1, <1>2, <1>9

LEMMA SumToNat ==
  ASSUME NEW f \in [Ages -> Nat]
  PROVE  /\ SumTo(f)[0] = 0
         /\ \A n \in 0 .. throttle_ttime + 1 : SumTo(f)[n] \in Nat
         /\ \A n \in 1 .. throttle_ttime + 1 : SumTo(f)[n] = SumTo(f)[n - 1] + f[n - 1]
BY SumToSums DEF Sums

(* More ages, no fewer connections.                                        *)
LEMMA SumToGrows ==
  ASSUME NEW f \in [Ages -> Nat], NEW m \in 0 .. throttle_ttime + 1, NEW n \in m .. throttle_ttime + 1
  PROVE  SumTo(f)[m] <= SumTo(f)[n]
<1> DEFINE S == {i \in 0 .. n - m : SumTo(f)[m] <= SumTo(f)[m + i]}
<1>0. n - m \in Nat /\ n = m + (n - m) /\ throttle_ttime \in Nat
  BY Settings
<1>1. 0 \in S
  BY <1>0, SumToNat
<1>2. ASSUME NEW i \in 1 .. n - m, i - 1 \in S PROVE i \in S
  <2>1. m + i \in 1 .. throttle_ttime + 1 /\ m + (i - 1) = (m + i) - 1
    BY <1>0, <1>2
  <2>2. f[(m + i) - 1] \in Nat
    BY <1>0, <2>1 DEF Ages
  <2>3. SumTo(f)[m + i] = SumTo(f)[(m + i) - 1] + f[(m + i) - 1]
    BY <2>1, SumToNat
  <2>4. SumTo(f)[(m + i) - 1] \in Nat /\ SumTo(f)[m] \in Nat
    BY <1>0, <2>1, SumToNat
  <2>5. SumTo(f)[m] <= SumTo(f)[(m + i) - 1]
    BY <1>2, <2>1
  <2> QED BY <1>0, <1>2, <2>2, <2>3, <2>4, <2>5
<1>3. n - m \in S
  <2> HIDE DEF S
  <2>1. \A i \in 0 .. n - m : i \in S
    BY <1>0, <1>1, <1>2, Induction
  <2> QED BY <1>0, <2>1
<1> QED BY <1>0, <1>3

(* Ages without connections add nothing.                                   *)
LEMMA SumToZeros ==
  ASSUME NEW f \in [Ages -> Nat], NEW n \in 0 .. throttle_ttime + 1,
         \A a \in 0 .. n - 1 : f[a] = 0
  PROVE  SumTo(f)[n] = 0
<1> DEFINE S == {i \in 0 .. n : SumTo(f)[i] = 0}
<1>0. n \in Nat /\ throttle_ttime \in Nat
  BY Settings
<1>1. 0 \in S
  BY <1>0, SumToNat
<1>2. ASSUME NEW i \in 1 .. n, i - 1 \in S PROVE i \in S
  <2>1. i \in 1 .. throttle_ttime + 1 /\ f[i - 1] = 0 /\ i \in 0 .. n
    BY <1>0, <1>2
  <2>2. SumTo(f)[i] = SumTo(f)[i - 1] + f[i - 1]
    BY <2>1, SumToNat
  <2> QED BY <1>2, <2>1, <2>2
<1>3. n \in S
  <2> HIDE DEF S
  <2>1. \A i \in 0 .. n : i \in S
    BY <1>0, <1>1, <1>2, Induction
  <2> QED BY <1>0, <2>1
<1> QED BY <1>3

(* One more connection now.                                                *)
LEMMA SumToBump ==
  ASSUME NEW f \in [Ages -> Nat], NEW n \in 1 .. throttle_ttime + 1
  PROVE  SumTo([f EXCEPT ![0] = @ + 1])[n] = SumTo(f)[n] + 1
<1> DEFINE e == [f EXCEPT ![0] = @ + 1]
           S == {i \in 0 .. n - 1 : SumTo(e)[i + 1] = SumTo(f)[i + 1] + 1}
<1>0. n - 1 \in Nat /\ throttle_ttime \in Nat /\ 0 \in Ages
  BY Settings DEF Ages
<1>1. e \in [Ages -> Nat] /\ e[0] = f[0] + 1 /\ f[0] \in Nat /\ \A a \in Ages : a # 0 => e[a] = f[a]
  BY <1>0
<1> HIDE DEF e
<1>2. 0 \in S
  <2>1. SumTo(e)[1] = SumTo(e)[0] + e[0] /\ SumTo(f)[1] = SumTo(f)[0] + f[0]
    BY <1>0, <1>1, SumToNat
  <2>2. SumTo(e)[0] = 0 /\ SumTo(f)[0] = 0
    BY <1>1, SumToNat
  <2> QED BY <1>0, <1>1, <2>1, <2>2
<1>3. ASSUME NEW i \in 1 .. n - 1, i - 1 \in S PROVE i \in S
  <2>1. i + 1 \in 1 .. throttle_ttime + 1 /\ (i + 1) - 1 = i /\ i \in Ages /\ i # 0 /\ (i - 1) + 1 = i
        /\ i \in 0 .. throttle_ttime + 1 /\ i \in 0 .. n - 1
    BY <1>0, <1>3 DEF Ages
  <2>2. SumTo(e)[i + 1] = SumTo(e)[i] + e[i] /\ SumTo(f)[i + 1] = SumTo(f)[i] + f[i]
    BY <1>1, <2>1, SumToNat
  <2>3. SumTo(e)[i] = SumTo(f)[i] + 1
    BY <1>3, <2>1
  <2>4. e[i] = f[i] /\ f[i] \in Nat /\ SumTo(f)[i] \in Nat
    BY <1>1, <2>1, SumToNat
  <2> QED BY <2>1, <2>2, <2>3, <2>4
<1>4. n - 1 \in S
  <2> HIDE DEF S
  <2>1. \A i \in 0 .. n - 1 : i \in S
    BY <1>0, <1>2, <1>3, Induction
  <2> QED BY <1>0, <2>1
<1> QED BY <1>0, <1>4 DEF e

Aged(f) == [a \in Ages |-> IF a = 0 THEN 0 ELSE f[a - 1]]

(* A second later every age is one more.                                   *)
LEMMA SumToAged ==
  ASSUME NEW f \in [Ages -> Nat], NEW n \in 0 .. throttle_ttime
  PROVE  SumTo(Aged(f))[n + 1] = SumTo(f)[n]
<1> DEFINE e == Aged(f)
           S == {i \in 0 .. n : SumTo(e)[i + 1] = SumTo(f)[i]}
<1>0. n \in Nat /\ throttle_ttime \in Nat /\ 0 \in Ages
  BY Settings DEF Ages
<1>1. e \in [Ages -> Nat] /\ e[0] = 0 /\ \A a \in Ages : a # 0 => e[a] = f[a - 1]
  BY <1>0 DEF Aged, Ages
<1> HIDE DEF e
<1>2. 0 \in S
  <2>1. SumTo(e)[1] = SumTo(e)[0] + e[0]
    BY <1>0, <1>1, SumToNat
  <2>2. SumTo(e)[0] = 0 /\ SumTo(f)[0] = 0
    BY <1>1, SumToNat
  <2> QED BY <1>0, <1>1, <2>1, <2>2
<1>3. ASSUME NEW i \in 1 .. n, i - 1 \in S PROVE i \in S
  <2>1. i + 1 \in 1 .. throttle_ttime + 1 /\ (i + 1) - 1 = i /\ i \in Ages /\ i # 0 /\ (i - 1) + 1 = i
        /\ i \in 1 .. throttle_ttime + 1 /\ i \in 0 .. n
    BY <1>0, <1>3 DEF Ages
  <2>2. SumTo(e)[i + 1] = SumTo(e)[i] + e[i] /\ SumTo(f)[i] = SumTo(f)[i - 1] + f[i - 1]
    BY <1>1, <2>1, SumToNat
  <2>3. SumTo(e)[i] = SumTo(f)[i - 1]
    BY <1>3, <2>1
  <2>4. e[i] = f[i - 1]
    BY <1>1, <2>1
  <2> QED BY <2>1, <2>2, <2>3, <2>4
<1>4. n \in S
  <2> HIDE DEF S
  <2>1. \A i \in 0 .. n : i \in S
    BY <1>0, <1>2, <1>3, Induction
  <2> QED BY <1>0, <2>1
<1> QED BY <1>4 DEF e

-----------------------------------------------------------------------------
(* The invariants.                                                         *)
Period(h) == throttle_get_zline_time(stage[h])

TypesOK ==
  /\ NOW \in Nat \ {0}
  /\ throttles \subseteq Hosts
  /\ conns \in [Hosts -> Nat] /\ first \in [Hosts -> Nat] /\ last \in [Hosts -> Nat]
  /\ zline_start \in [Hosts -> Nat]
  /\ stage \in [Hosts -> Nat \cup {-1}]
  /\ accepted \in [Hosts -> [Ages -> Nat]]
  /\ refused \in [Hosts -> Nat]

(* The last refusal is either what the running period counts from, or a    *)
(* whole period ago.                                                       *)
Served(h) ==
  /\ refused[h] <= NOW
  /\ refused[h] # 0 =>
       \/ Zlined(h) /\ zline_start[h] = refused[h]
       \/ NOW - refused[h] >= Period(h)

SilenceInv == TypesOK /\ \A h \in Hosts : Served(h)

(* How many of the ages belong to the count that is running.               *)
Running(h) == IF NOW - first[h] < throttle_ttime THEN NOW - first[h] + 1 ELSE throttle_ttime + 1

(* No connection of the window came after time t.                          *)
NoneAfter(h, t) == \A a \in Ages : accepted[h][a] > 0 => NOW - a <= t

(* The connections of the running count are limited by it, those of the    *)
(* window that are older by the one before it.                             *)
Limited(h) ==
  /\ h \notin throttles => \A a \in Ages : accepted[h][a] = 0
  /\ h \in throttles =>
       /\ first[h] \in 1 .. NOW
       /\ SumTo(accepted[h])[Running(h)] <= conns[h]
       /\ SumTo(accepted[h])[Running(h)] <= throttle_tcount - 1
       /\ SumTo(accepted[h])[throttle_ttime + 1] - SumTo(accepted[h])[Running(h)] <= throttle_tcount - 1
       /\ NoneAfter(h, first[h] + throttle_ttime)
       /\ NoneAfter(h, last[h] + throttle_ttime)
       /\ Zlined(h) =>
            /\ stage[h] # -1
            /\ first[h] <= zline_start[h] /\ zline_start[h] <= NOW
            /\ NoneAfter(h, zline_start[h])

RateInv == TypesOK /\ \A h \in Hosts : Limited(h)
-----------------------------------------------------------------------------
(* What a check can come to.                                               *)
LEMMA PeriodNat ==
  ASSUME NEW s \in Nat \cup {-1}
  PROVE  /\ throttle_get_zline_time(s) \in Nat
         /\ s # -1 => \E i \in 1 .. Len(ZlineTimes) : throttle_get_zline_time(s) = ZlineTimes[i]
<1>1. CASE s = -1
  BY <1>1 DEF throttle_get_zline_time
<1>2. CASE s \in Nat
  <2> DEFINE i == IF s < Len(ZlineTimes) THEN s + 1 ELSE Len(ZlineTimes)
  <2>1. Len(ZlineTimes) \in Nat /\ Len(ZlineTimes) > 0
    BY Settings
  <2>2. i \in 1 .. Len(ZlineTimes)
    BY <1>2, <2>1
  <2>3. throttle_get_zline_time(s) = ZlineTimes[i] /\ s # -1
    BY <1>2 DEF throttle_get_zline_time
  <2> HIDE DEF i
  <2>4. ZlineTimes[i] \in Nat
    BY <2>2, Settings
  <2> QED BY <2>2, <2>3, <2>4
<1> QED BY <1>1, <1>2

LEMMA PeriodLong ==
  ASSUME NEW s \in Nat \cup {-1}, s # -1
  PROVE  throttle_get_zline_time(s) >= 1 /\ throttle_get_zline_time(s) >= throttle_ttime
BY PeriodNat, PeriodsCoverWindow

Bumped(h) == [accepted EXCEPT ![h] = [accepted[h] EXCEPT ![0] = @ + 1]]

Admitted(h, local) ==
  accepted' = (IF local THEN Bumped(h) ELSE accepted) /\ refused' = refused

TurnedAway(h, local) ==
  accepted' = accepted /\ refused' = (IF local THEN [refused EXCEPT ![h] = NOW] ELSE refused)

Outcome(h, local, t) ==
  \/ UNCHANGED entries /\ UNCHANGED <<accepted, refused>>
  \/ Refused(h, local, t) /\ TurnedAway(h, local)
  \/ NewPeriod(h, t) /\ Admitted(h, local)
  \/ Throttled(h, local, t) /\ TurnedAway(h, local)
  \/ Okay(h, t) /\ Admitted(h, local)

(* The time a check works with is neither in the future nor older than the *)
(* window.                                                                 *)
TimeOf(local, t) ==
  /\ t \in 1 .. NOW /\ NOW - t <= throttle_ttime
  /\ local => t = NOW

LEMMA CheckOutcome ==
  ASSUME TypesOK, NEW h \in Hosts, NEW local \in BOOLEAN, NEW ts \in Nat \ {0},
         local => ts = NOW, throttle_check(h, local, ts)
  PROVE  /\ NOW' = NOW
         /\ \E t : TimeOf(local, t) /\ Outcome(h, local, t)
<1> DEFINE t == IF ts > NOW THEN NOW ELSE ts
           okay == Ignored(local, ts) \/ (~InZline(h, t) /\ (Expired(h, t) \/ ~TooMany(h)))
<1>0. NOW \in Nat \ {0} /\ throttle_ttime \in Nat
  BY Settings DEF TypesOK
<1>1. NOW' = NOW
  BY DEF throttle_check
<1>2. accepted' = (IF local /\ okay THEN Bumped(h) ELSE accepted)
  BY DEF throttle_check, Bumped
<1>3. refused' = (IF local /\ ~okay THEN [refused EXCEPT ![h] = NOW] ELSE refused)
  BY DEF throttle_check
<1>4. IF Ignored(local, ts) THEN UNCHANGED entries
      ELSE \/ Refused(h, local, t) \/ NewPeriod(h, t) \/ Throttled(h, local, t) \/ Okay(h, t)
  BY DEF throttle_check
<1>5. CASE Ignored(local, ts)
  <2>1. ~local
    BY <1>5 DEF Ignored
  <2>2. UNCHANGED entries /\ accepted' = accepted /\ refused' = refused
    BY <1>2, <1>3, <1>4, <1>5, <2>1
  <2>3. TimeOf(local, NOW)
    BY <1>0 DEF TimeOf
  <2>4. Outcome(h, local, NOW)
    BY <2>2 DEF Outcome
  <2> QED BY <1>1, <2>3, <2>4
<1>6. CASE ~Ignored(local, ts)
  <2>1. TimeOf(local, t)
    BY <1>0, <1>6 DEF TimeOf, Ignored
  <2>2. CASE Refused(h, local, t)
    <3>1. ~okay
      BY <1>6, <2>2 DEF Refused
    <3>2. TurnedAway(h, local)
      BY <1>2, <1>3, <3>1 DEF TurnedAway
    <3> QED BY <1>1, <2>1, <2>2, <3>2 DEF Outcome
  <2>3. CASE NewPeriod(h, t)
    <3>1. okay
      BY <2>3 DEF NewPeriod
    <3>2. Admitted(h, local)
      BY <1>2, <1>3, <3>1 DEF Admitted
    <3> QED BY <1>1, <2>1, <2>3, <3>2 DEF Outcome
  <2>4. CASE Throttled(h, local, t)
    <3>1. ~okay
      BY <1>6, <2>4 DEF Throttled
    <3>2. TurnedAway(h, local)
      BY <1>2, <1>3, <3>1 DEF TurnedAway
    <3> QED BY <1>1, <2>1, <2>4, <3>2 DEF Outcome
  <2>5. CASE Okay(h, t)
    <3>1. okay
      BY <2>5 DEF Okay
    <3>2. Admitted(h, local)
      BY <1>2, <1>3, <3>1 DEF Admitted
    <3> QED BY <1>1, <2>1, <2>5, <3>2 DEF Outcome
  <2> QED BY <1>4, <1>6, <2>2, <2>3, <2>4, <2>5
<1> QED BY <1>5, <1>6
LEMMA OutcomeTypes ==
  ASSUME TypesOK, NEW h \in Hosts, NEW local \in BOOLEAN, NEW t, TimeOf(local, t),
         NOW' = NOW, Outcome(h, local, t)
  PROVE  TypesOK'
<1>0. /\ NOW \in Nat \ {0} /\ t \in Nat
      /\ ConnsBefore(h) \in Nat /\ FirstBefore(h, t) \in Nat /\ StageBefore(h) \in Nat \cup {-1}
      /\ throttle_ttime \in Nat
  BY Settings DEF TypesOK, TimeOf, ConnsBefore, FirstBefore, StageBefore
<1>1. Bumped(h) \in [Hosts -> [Ages -> Nat]]
  <2>1. 0 \in Ages
    BY Settings DEF Ages
  <2>2. accepted[h] \in [Ages -> Nat]
    BY DEF TypesOK
  <2>3. [accepted[h] EXCEPT ![0] = @ + 1] \in [Ages -> Nat]
    BY <2>1, <2>2
  <2> QED BY <2>3 DEF Bumped, TypesOK
<1>2. (Admitted(h, local) \/ TurnedAway(h, local)) => accepted' \in [Hosts -> [Ages -> Nat]] /\ refused' \in [Hosts -> Nat]
  BY <1>0, <1>1 DEF Admitted, TurnedAway, TypesOK
<1>3. CASE UNCHANGED entries /\ UNCHANGED <<accepted, refused>>
  BY <1>3 DEF TypesOK, entries
<1>4. CASE Refused(h, local, t) /\ TurnedAway(h, local)
  BY <1>0, <1>2, <1>4 DEF TypesOK, Refused
<1>5. CASE NewPeriod(h, t) /\ Admitted(h, local)
  BY <1>0, <1>2, <1>5 DEF TypesOK, NewPeriod, Counted
<1>6. CASE Throttled(h, local, t) /\ TurnedAway(h, local)
  <2>1. StageBefore(h) + (IF local THEN 1 ELSE 0) \in Nat \cup {-1}
    BY <1>0
  <2> QED BY <1>0, <1>2, <1>6, <2>1 DEF TypesOK, Throttled
<1>7. CASE Okay(h, t) /\ Admitted(h, local)
  BY <1>0, <1>2, <1>7 DEF TypesOK, Okay, Counted
<1> QED BY <1>3, <1>4, <1>5, <1>6, <1>7 DEF Outcome

(* A check touches the entry of its own address only.                      *)
Same(z) ==
  /\ (z \in throttles') = (z \in throttles)
  /\ conns'[z] = conns[z] /\ first'[z] = first[z] /\ last'[z] = last[z]
  /\ zline_start'[z] = zline_start[z] /\ stage'[z] = stage[z]
  /\ accepted'[z] = accepted[z] /\ refused'[z] = refused[z]

LEMMA OutcomeSame ==
  ASSUME TypesOK, NEW h \in Hosts, NEW local \in BOOLEAN, NEW t, TimeOf(local, t),
         Outcome(h, local, t), NEW z \in Hosts, z # h
  PROVE  Same(z)
<1>1. (Admitted(h, local) \/ TurnedAway(h, local)) => accepted'[z] = accepted[z] /\ refused'[z] = refused[z]
  BY DEF Admitted, TurnedAway, Bumped, TypesOK
<1>2. CASE UNCHANGED entries /\ UNCHANGED <<accepted, refused>>
  BY <1>2 DEF Same, entries
<1>3. CASE Refused(h, local, t) /\ TurnedAway(h, local)
  BY <1>1, <1>3 DEF TypesOK, Refused, Same
<1>4. CASE NewPeriod(h, t) /\ Admitted(h, local)
  BY <1>1, <1>4 DEF TypesOK, NewPeriod, Counted, Same
<1>5. CASE Throttled(h, local, t) /\ TurnedAway(h, local)
  BY <1>1, <1>5 DEF TypesOK, Throttled, Same
<1>6. CASE Okay(h, t) /\ Admitted(h, local)
  BY <1>1, <1>6 DEF TypesOK, Okay, Counted, Same
<1> QED BY <1>2, <1>3, <1>4, <1>5, <1>6 DEF Outcome

LEMMA OtherTypes ==
  ASSUME TypesOK
  PROVE  /\ Tick => TypesOK'
         /\ throttle_timer_zapped => TypesOK'
         /\ \A h \in Hosts : throttle_remove(h) => TypesOK'
         /\ throttle_rehash => TypesOK'
         /\ UNCHANGED vars => TypesOK'
<1>0. [a \in Ages |-> 0] \in [Ages -> Nat]
  OBVIOUS
<1>1. ASSUME Tick PROVE TypesOK'
  <2>1. \A z \in Hosts : Aged(accepted[z]) \in [Ages -> Nat]
    BY Settings DEF Aged, TypesOK, Ages
  <2>2. accepted' = [z \in Hosts |-> Aged(accepted[z])]
    BY <1>1 DEF Tick, Aged
  <2> QED BY <1>1, <2>1, <2>2 DEF Tick, TypesOK, entries
<1>2. throttle_timer_zapped => TypesOK'
  BY DEF throttle_timer_zapped, TypesOK
<1>3. ASSUME NEW h \in Hosts, throttle_remove(h) PROVE TypesOK'
  BY <1>0, <1>3 DEF throttle_remove, TypesOK
<1>4. throttle_rehash => TypesOK'
  BY <1>0 DEF throttle_rehash, TypesOK
<1>5. UNCHANGED vars => TypesOK'
  BY DEF vars, TypesOK
<1> QED BY <1>1, <1>2, <1>3, <1>4, <1>5

-----------------------------------------------------------------------------
(* The silence.                                                            *)
LEMMA ServedSame ==
  ASSUME NEW z \in Hosts, Served(z), Same(z), NOW' = NOW
  PROVE  Served(z)'
<1>1. Zlined(z)' = Zlined(z)
  BY DEF Zlined, Same
<1> QED BY <1>1 DEF Served, Same, Period, Zlined, throttle_get_zline_time

(* A connection that is let in comes a whole period after the last refusal. *)
LEMMA SilentBefore ==
  ASSUME TypesOK, NEW h \in Hosts, NEW local \in BOOLEAN, NEW t, TimeOf(local, t),
         Served(h), ~InZline(h, t), refused[h] # 0
  PROVE  NOW - refused[h] >= Period(h)
<1>1. NOW \in Nat /\ t \in Nat /\ t <= NOW /\ refused[h] \in Nat /\ zline_start[h] \in Nat
  BY DEF TypesOK, TimeOf
<1>2. Period(h) \in Nat
  BY PeriodNat DEF TypesOK, Period
<1>3. CASE Zlined(h) /\ zline_start[h] = refused[h]
  <2>1. ~(t - zline_start[h] < Period(h))
    BY <1>3 DEF InZline, Period
  <2> QED BY <1>1, <1>2, <1>3, <2>1
<1> QED BY <1>3 DEF Served

LEMMA ServedOutcome ==
  ASSUME TypesOK, NEW h \in Hosts, NEW local \in BOOLEAN, NEW t, TimeOf(local, t),
         Served(h), NOW' = NOW, Outcome(h, local, t)
  PROVE  Served(h)'
<1>0. /\ NOW \in Nat \ {0} /\ t \in Nat /\ t <= NOW /\ (local => t = NOW)
      /\ refused \in [Hosts -> Nat] /\ zline_start \in [Hosts -> Nat]
      /\ stage \in [Hosts -> Nat \cup {-1}] /\ throttles \subseteq Hosts
  BY DEF TypesOK, TimeOf
(* A refusal of a local connection starts the period now.                  *)
<1>1. ASSUME local, h \in throttles', zline_start'[h] = NOW, refused'[h] = NOW
      PROVE  Served(h)'
  BY <1>0, <1>1 DEF Served, Zlined
(* Otherwise the entry keeps its stage, or is a new one.                   *)
<1>2. ASSUME refused'[h] = refused[h], stage'[h] = StageBefore(h), ~InZline(h, t)
      PROVE  Served(h)'
  <2>1. CASE refused[h] = 0
    BY <1>0, <1>2, <2>1 DEF Served
  <2>2. CASE refused[h] # 0
    <3>1. NOW - refused[h] >= Period(h) /\ refused[h] <= NOW
      BY <1>2, <2>2, SilentBefore DEF Served
    <3>2. CASE h \in throttles
      <4>1. stage'[h] = stage[h]
        BY <1>2, <3>2 DEF StageBefore
      <4>2. Period(h)' = Period(h)
        BY <4>1 DEF Period, throttle_get_zline_time
      <4> QED BY <1>2, <2>2, <3>1, <4>2 DEF Served
    <3>3. CASE h \notin throttles
      <4>1. stage'[h] = -1
        BY <1>2, <3>3 DEF StageBefore
      <4>2. Period(h)' = 0
        BY <4>1 DEF Period, throttle_get_zline_time
      <4>3. NOW - refused[h] >= 0
        BY <1>0, <3>1
      <4> QED BY <1>2, <3>1, <4>2, <4>3 DEF Served
    <3> QED BY <3>2, <3>3
  <2> QED BY <2>1, <2>2
<1>3. CASE UNCHANGED entries /\ UNCHANGED <<accepted, refused>>
  <2>1. Same(h)
    BY <1>3 DEF Same, entries
  <2> QED BY <2>1, ServedSame
<1>4. CASE Refused(h, local, t) /\ TurnedAway(h, local)
  <2>1. CASE local
    BY <1>0, <1>1, <1>4, <2>1 DEF Refused, TurnedAway, InZline, Zlined
  <2>2. CASE ~local
    <3>1. Same(h)
      BY <1>4, <2>2 DEF Refused, TurnedAway, Same
    <3> QED BY <3>1, ServedSame
  <2> QED BY <2>1, <2>2
<1>5. CASE NewPeriod(h, t) /\ Admitted(h, local)
  BY <1>0, <1>2, <1>5 DEF NewPeriod, Counted, Admitted
<1>6. CASE Throttled(h, local, t) /\ TurnedAway(h, local)
  <2>1. CASE local
    BY <1>0, <1>1, <1>6, <2>1 DEF Throttled, TurnedAway
  <2>2. CASE ~local
    <3>1. StageBefore(h) + 0 = StageBefore(h)
      BY <1>0 DEF StageBefore
    <3> QED BY <1>0, <1>2, <1>6, <2>2, <3>1 DEF Throttled, TurnedAway
  <2> QED BY <2>1, <2>2
<1>7. CASE Okay(h, t) /\ Admitted(h, local)
  BY <1>0, <1>2, <1>7 DEF Okay, Counted, Admitted
<1> QED BY <1>3, <1>4, <1>5, <1>6, <1>7 DEF Outcome
LEMMA ServedOthers ==
  ASSUME TypesOK, NEW z \in Hosts, Served(z)
  PROVE  /\ Tick => Served(z)'
         /\ throttle_timer_zapped => Served(z)'
         /\ \A h \in Hosts : throttle_remove(h) => Served(z)'
         /\ throttle_rehash => Served(z)'
         /\ UNCHANGED vars => Served(z)'
<1>0. /\ NOW \in Nat \ {0} /\ refused[z] \in Nat /\ zline_start[z] \in Nat
      /\ throttle_ztime \in Nat
  BY Settings DEF TypesOK
<1>1. Period(z) \in Nat
  BY PeriodNat DEF TypesOK, Period
<1>2. ASSUME Tick PROVE Served(z)'
  <2>1. NOW' = NOW + 1 /\ refused'[z] = refused[z] /\ zline_start' = zline_start
    BY <1>2 DEF Tick, entries
  <2>2. Period(z)' = Period(z) /\ Zlined(z)' = Zlined(z)
    BY <1>2 DEF Tick, entries, Period, Zlined, throttle_get_zline_time
  <2> QED BY <1>0, <1>1, <2>1, <2>2 DEF Served
<1>3. ASSUME throttle_timer_zapped PROVE Served(z)'
  <2>1. /\ NOW' = NOW /\ refused' = refused /\ zline_start' = zline_start
        /\ throttles' = {h \in throttles : ~OldZapped(h) /\ ~OldIdle(h)}
    BY <1>3 DEF throttle_timer_zapped
  <2>2. Period(z)' = Period(z)
    BY <1>3 DEF throttle_timer_zapped, Period, throttle_get_zline_time
  <2>3. CASE OldZapped(z)
    <3>1. Zlined(z) /\ NOW - zline_start[z] >= Period(z) + throttle_ztime
      BY <2>3 DEF OldZapped, Period
    <3>2. NOW - zline_start[z] >= Period(z)
      BY <1>0, <1>1, <3>1
    <3> QED BY <2>1, <2>2, <3>2 DEF Served
  <2>4. CASE ~OldZapped(z)
    <3>1. Zlined(z) => Zlined(z)'
      BY <2>1, <2>4 DEF Zlined, OldIdle
    <3> QED BY <2>1, <2>2, <3>1 DEF Served
  <2> QED BY <2>3, <2>4
<1>4. ASSUME NEW h \in Hosts, throttle_remove(h) PROVE Served(z)'
  <2>1. CASE z = h
    <3>1. refused'[z] = 0 /\ NOW' = NOW
      BY <1>4, <2>1 DEF throttle_remove, TypesOK
    <3> QED BY <1>0, <3>1 DEF Served
  <2>2. CASE z # h
    <3>1. Same(z) /\ NOW' = NOW
      BY <1>4, <2>2 DEF throttle_remove, TypesOK, Same
    <3> QED BY <3>1, ServedSame
  <2> QED BY <2>1, <2>2
<1>5. ASSUME throttle_rehash PROVE Served(z)'
  <2>1. refused'[z] = 0 /\ NOW' = NOW
    BY <1>5 DEF throttle_rehash
  <2> QED BY <1>0, <2>1 DEF Served
<1>6. ASSUME UNCHANGED vars PROVE Served(z)'
  <2>1. Same(z) /\ NOW' = NOW
    BY <1>6 DEF vars, Same
  <2> QED BY <2>1, ServedSame
<1> QED BY <1>2, <1>3, <1>4, <1>5, <1>6

(* Every step is a check that comes to an outcome, or one of the others.   *)
Checks ==
  \E h \in Hosts, local \in BOOLEAN, t \in Nat :
    TimeOf(local, t) /\ NOW' = NOW /\ Outcome(h, local, t)

LEMMA StepCases ==
  ASSUME TypesOK, [Next]_vars
  PROVE  \/ Checks \/ Tick \/ throttle_timer_zapped
         \/ \E h \in Hosts : throttle_remove(h)
         \/ throttle_rehash \/ UNCHANGED vars
<1>1. ASSUME NEW h \in Hosts, NEW local \in BOOLEAN, NEW ts \in Nat \ {0},
             local => ts = NOW, throttle_check(h, local, ts)
      PROVE  Checks
  <2>1. PICK t : TimeOf(local, t) /\ Outcome(h, local, t)
    BY <1>1, CheckOutcome
  <2>2. NOW' = NOW
    BY <1>1, CheckOutcome
  <2>3. t \in Nat
    BY <2>1 DEF TimeOf, TypesOK
  <2> QED BY <2>1, <2>2, <2>3 DEF Checks
<1>2. ASSUME NEW h \in Hosts, throttle_check(h, TRUE, NOW) PROVE Checks
  <2>1. NOW \in Nat \ {0}
    BY DEF TypesOK
  <2> QED BY <1>1, <1>2, <2>1
<1>3. ASSUME NEW h \in Hosts, NEW ts \in 1 .. MaxTime, throttle_check(h, FALSE, ts) PROVE Checks
  <2>1. ts \in Nat \ {0}
    BY Settings
  <2> QED BY <1>1, <1>3, <2>1
<1> QED BY <1>2, <1>3 DEF Next

LEMMA SilenceStep ==
  ASSUME SilenceInv, [Next]_vars
  PROVE  SilenceInv'
<1>0. TypesOK /\ \A z \in Hosts : Served(z)
  BY DEF SilenceInv
<1>1. ASSUME Checks PROVE SilenceInv'
  <2>1. PICK h \in Hosts, local \in BOOLEAN, t \in Nat :
          TimeOf(local, t) /\ NOW' = NOW /\ Outcome(h, local, t)
    BY <1>1 DEF Checks
  <2>2. TypesOK'
    BY <1>0, <2>1, OutcomeTypes
  <2>3. ASSUME NEW z \in Hosts PROVE Served(z)'
    <3>1. CASE z = h
      BY <1>0, <2>1, <3>1, ServedOutcome
    <3>2. CASE z # h
      <4>1. Same(z)
        BY <1>0, <2>1, <3>2, OutcomeSame
      <4> QED BY <1>0, <2>1, <4>1, ServedSame
    <3> QED BY <3>1, <3>2
  <2> QED BY <2>2, <2>3 DEF SilenceInv
<1>2. ASSUME \/ Tick \/ throttle_timer_zapped
             \/ \E h \in Hosts : throttle_remove(h)
             \/ throttle_rehash \/ UNCHANGED vars
      PROVE  SilenceInv'
  <2>1. TypesOK'
    BY <1>0, <1>2, OtherTypes
  <2>2. ASSUME NEW z \in Hosts PROVE Served(z)'
    BY <1>0, <1>2, ServedOthers
  <2> QED BY <2>1, <2>2 DEF SilenceInv
<1> QED BY <1>0, <1>1, <1>2, StepCases

LEMMA InitTypes == Init => TypesOK
BY DEF Init, TypesOK

LEMMA SilenceInit == Init => SilenceInv
<1>1. ASSUME Init, NEW z \in Hosts PROVE Served(z)
  BY <1>1 DEF Init, Served
<1> QED BY <1>1, InitTypes DEF SilenceInv

(* The step that counts a connection as let in is a local check that found *)
(* no period running.                                                      *)
Silent(h) == refused[h] = 0 \/ NOW - refused[h] >= throttle_get_zline_time(stage[h])

LEMMA AdmittedSilent ==
  ASSUME SilenceInv, [Next]_vars, NEW z \in Hosts, accepted'[z][0] > accepted[z][0]
  PROVE  Silent(z)
<1>0. TypesOK /\ Served(z)
  BY DEF SilenceInv
<1>1. accepted[z] \in [Ages -> Nat] /\ 0 \in Ages
  BY <1>0, Settings DEF TypesOK, Ages
<1>2. accepted[z][0] \in Nat
  BY <1>1
<1>3. accepted'[z] # accepted[z] /\ accepted'[z][0] # 0
  BY <1>2
<1>4. ASSUME Checks PROVE Silent(z)
  <2>1. PICK h \in Hosts, local \in BOOLEAN, t \in Nat :
          TimeOf(local, t) /\ NOW' = NOW /\ Outcome(h, local, t)
    BY <1>4 DEF Checks
  <2>2. z = h
    <3>1. z # h => Same(z)
      BY <1>0, <2>1, OutcomeSame
    <3> QED BY <1>3, <3>1 DEF Same
  <2>3. ~InZline(z, t)
    BY <1>3, <2>1, <2>2 DEF Outcome, NewPeriod, Okay, TurnedAway
  <2>4. refused[z] # 0 => NOW - refused[z] >= Period(z)
    BY <1>0, <2>1, <2>3, SilentBefore
  <2> QED BY <2>4 DEF Silent, Period
<1>5. ~Tick
  BY <1>1, <1>3 DEF Tick
<1>6. ~throttle_timer_zapped /\ ~UNCHANGED vars
  BY <1>3 DEF throttle_timer_zapped, vars
<1>7. ~throttle_rehash
  BY <1>1, <1>3 DEF throttle_rehash
<1>8. ASSUME NEW h \in Hosts, throttle_remove(h) PROVE FALSE
  <2>1. CASE z = h
    BY <1>1, <1>3, <1>8, <2>1 DEF throttle_remove, TypesOK
  <2>2. CASE z # h
    BY <1>0, <1>3, <1>8, <2>2 DEF throttle_remove, TypesOK
  <2> QED BY <2>1, <2>2
<1> QED BY <1>0, <1>4, <1>5, <1>6, <1>7, <1>8, StepCases

(* throttle_check lets a connection in only when the last refusal of one   *)
(* from its address is a whole period of its stage ago, whatever signed on *)
(* elsewhere and whichever entries the timers freed in between.            *)
THEOREM SilenceAlwaysServed == Spec => SilenceServed
<1>1. SilenceInv /\ [Next]_vars => SilenceInv'
  BY SilenceStep
<1>2. SilenceInv /\ [Next]_vars =>
        [\A h \in Hosts : accepted'[h][0] > accepted[h][0] =>
           refused[h] = 0 \/ NOW - refused[h] >= throttle_get_zline_time(stage[h])]_vars
  BY AdmittedSilent DEF Silent
<1> QED BY <1>1, <1>2, SilenceInit, PTL DEF Spec, SilenceServed
-----------------------------------------------------------------------------
(* The rate.                                                               *)
LEMMA RunningRange ==
  ASSUME TypesOK, NEW h \in Hosts, first[h] \in 1 .. NOW
  PROVE  Running(h) \in 1 .. throttle_ttime + 1
BY Settings DEF TypesOK, Running

LEMMA LimitedSame ==
  ASSUME NEW z \in Hosts, Limited(z), Same(z), NOW' = NOW
  PROVE  Limited(z)'
<1>1. Zlined(z)' = Zlined(z) /\ Running(z)' = Running(z)
  BY DEF Zlined, Same, Running
<1>2. SumTo(accepted[z])' = SumTo(accepted[z])
  BY DEF Same, SumTo
<1>3. \A t : NoneAfter(z, t)' = NoneAfter(z, t)
  BY DEF NoneAfter, Same
<1> QED BY <1>1, <1>2, <1>3 DEF Limited, Same, NoneAfter

(* When every connection of the window belongs to the running count and    *)
(* none came at or after t, a new count may start at t.                    *)
Restartable(h, t) ==
  /\ SumTo(accepted[h])[throttle_ttime + 1] <= throttle_tcount - 1
  /\ \A a \in Ages : NOW - a >= t => accepted[h][a] = 0

LEMMA RestartNew ==
  ASSUME TypesOK, NEW h \in Hosts, NEW local, NEW t, TimeOf(local, t), Limited(h), h \notin throttles
  PROVE  Restartable(h, t)
<1>1. accepted[h] \in [Ages -> Nat] /\ \A a \in Ages : accepted[h][a] = 0
  BY DEF Limited, TypesOK
<1>2. throttle_ttime + 1 \in 0 .. throttle_ttime + 1 /\ \A a \in 0 .. (throttle_ttime + 1) - 1 : a \in Ages
  BY Settings DEF Ages
<1>3. SumTo(accepted[h])[throttle_ttime + 1] = 0
  BY <1>1, <1>2, SumToZeros
<1> QED BY <1>1, <1>3, Settings DEF Restartable

LEMMA RestartReleased ==
  ASSUME TypesOK, NEW h \in Hosts, NEW local, NEW t, TimeOf(local, t), Limited(h),
         Zlined(h), ~InZline(h, t)
  PROVE  Restartable(h, t)
<1>1. /\ NOW \in Nat /\ t \in Nat /\ t <= NOW /\ throttle_ttime \in Nat
      /\ zline_start[h] \in Nat /\ first[h] \in Nat
      /\ first[h] <= zline_start[h] /\ NoneAfter(h, zline_start[h]) /\ first[h] \in 1 .. NOW
  BY Settings DEF TypesOK, TimeOf, Limited, Zlined
<1>2. Period(h) \in Nat /\ Period(h) >= 1 /\ Period(h) >= throttle_ttime
  BY PeriodNat, PeriodLong DEF TypesOK, Period, Limited, Zlined
<1>3. t - zline_start[h] >= Period(h)
  <2>1. ~(t - zline_start[h] < Period(h))
    BY DEF InZline, Period
  <2> QED BY <1>1, <1>2, <2>1
<1>4. Running(h) = throttle_ttime + 1
  BY <1>1, <1>2, <1>3 DEF Running
<1>5. ASSUME NEW a \in Ages, NOW - a >= t PROVE accepted[h][a] = 0
  <2>1. a \in Nat /\ accepted[h][a] \in Nat
    BY Settings DEF Ages, TypesOK
  <2>2. ~(NOW - a <= zline_start[h])
    BY <1>1, <1>2, <1>3, <1>5, <2>1
  <2> QED BY <1>1, <2>1, <2>2 DEF NoneAfter
<1> QED BY <1>4, <1>5 DEF Restartable, Limited, Zlined

LEMMA RestartExpired ==
  ASSUME TypesOK, NEW h \in Hosts, NEW local, NEW t, TimeOf(local, t), Limited(h),
         h \in throttles, t - first[h] > throttle_ttime
  PROVE  Restartable(h, t)
<1>1. /\ NOW \in Nat /\ t \in Nat /\ t <= NOW /\ throttle_ttime \in Nat /\ first[h] \in Nat
      /\ NoneAfter(h, first[h] + throttle_ttime)
  BY Settings DEF TypesOK, TimeOf, Limited
<1>2. Running(h) = throttle_ttime + 1
  BY <1>1 DEF Running
<1>3. ASSUME NEW a \in Ages, NOW - a >= t PROVE accepted[h][a] = 0
  <2>1. a \in Nat /\ accepted[h][a] \in Nat
    BY Settings DEF Ages, TypesOK
  <2>2. ~(NOW - a <= first[h] + throttle_ttime)
    BY <1>1, <1>3, <2>1
  <2> QED BY <1>1, <2>1, <2>2 DEF NoneAfter
<1> QED BY <1>2, <1>3 DEF Restartable, Limited

(* A new count at time t, with the connection that starts it.              *)
LEMMA LimitedRestart ==
  ASSUME TypesOK, TypesOK', NEW h \in Hosts, NEW local \in BOOLEAN, NEW t, TimeOf(local, t),
         NOW' = NOW, Restartable(h, t), Admitted(h, local),
         h \in throttles', first'[h] = t, last'[h] = t, conns'[h] = 1, zline_start'[h] = 0
  PROVE  Limited(h)'
<1> DEFINE f == accepted[h]
           e == accepted'[h]
           W == throttle_ttime + 1
           k == Running(h)'
<1>1. /\ NOW \in Nat \ {0} /\ t \in 1 .. NOW /\ NOW - t <= throttle_ttime
      /\ throttle_ttime \in Nat /\ throttle_tcount \in Nat /\ throttle_tcount >= 2
      /\ f \in [Ages -> Nat] /\ e \in [Ages -> Nat] /\ (local => t = NOW)
  BY Settings DEF TypesOK, TimeOf
<1>2. k = NOW - t + 1 /\ k \in 1 .. W
  <2>1. k = IF NOW - t < throttle_ttime THEN NOW - t + 1 ELSE throttle_ttime + 1
    BY DEF Running
  <2>2. NOW - t = throttle_ttime \/ NOW - t < throttle_ttime
    BY <1>1
  <2> HIDE DEF k
  <2> QED BY <1>1, <2>1, <2>2
<1> HIDE DEF k
<1>3. SumTo(f)[k] = 0
  <2>1. ASSUME NEW a \in 0 .. k - 1 PROVE f[a] = 0
    <3>1. a \in Ages /\ NOW - a >= t
      BY <1>1, <1>2 DEF Ages
    <3> QED BY <3>1 DEF Restartable
  <2>2. k \in 0 .. throttle_ttime + 1
    BY <1>1, <1>2
  <2> HIDE DEF f
  <2> QED BY <1>1, <2>1, <2>2, SumToZeros
<1>4. SumTo(f)[W] \in Nat /\ SumTo(f)[W] <= throttle_tcount - 1
  BY <1>1, SumToNat DEF Restartable
<1>5. /\ SumTo(e)[k] <= 1
      /\ SumTo(e)[W] - SumTo(e)[k] <= throttle_tcount - 1
      /\ SumTo(e)[k] \in Nat
  <2>1. CASE local
    <3>1. e = [f EXCEPT ![0] = @ + 1]
      BY <2>1 DEF Admitted, Bumped, TypesOK
    <3>2. W \in 1 .. throttle_ttime + 1
      BY <1>1
    <3>3. SumTo(e)[k] = SumTo(f)[k] + 1 /\ SumTo(e)[W] = SumTo(f)[W] + 1
      <4> HIDE DEF f, e, W
      <4> QED BY <1>1, <1>2, <3>1, <3>2, SumToBump DEF W
    <3> HIDE DEF f, e, W
    <3> QED BY <1>1, <1>3, <1>4, <3>3
  <2>2. CASE ~local
    <3>1. e = f
      BY <2>2 DEF Admitted
    <3> HIDE DEF f, e, W
    <3> QED BY <1>1, <1>3, <1>4, <3>1
  <2> QED BY <2>1, <2>2
<1>6. NoneAfter(h, t + throttle_ttime)'
  <2>1. \A a \in Ages : NOW - a <= t + throttle_ttime
    BY <1>1 DEF Ages
  <2> QED BY <2>1 DEF NoneAfter
<1>7. ~Zlined(h)'
  BY DEF Zlined
<1>8. /\ SumTo(accepted[h])'[Running(h)'] <= 1
      /\ SumTo(accepted[h])'[throttle_ttime + 1] - SumTo(accepted[h])'[Running(h)'] <= throttle_tcount - 1
      /\ SumTo(accepted[h])'[Running(h)'] <= throttle_tcount - 1
  <2>1. SumTo(accepted[h])' = SumTo(e)
    BY DEF SumTo
  <2>2. SumTo(e)[k] <= throttle_tcount - 1
    <3> HIDE DEF e
    <3> QED BY <1>1, <1>5
  <2> QED BY <1>5, <2>1, <2>2 DEF k
<1> QED BY <1>1, <1>6, <1>7, <1>8 DEF Limited, NoneAfter

(* A connection added to the running count.                                *)
LEMMA LimitedOneMore ==
  ASSUME TypesOK, TypesOK', NEW h \in Hosts, NEW local \in BOOLEAN, NEW t, TimeOf(local, t),
         NOW' = NOW, Limited(h), h \in throttles, t - first[h] <= throttle_ttime,
         h \in throttles', first'[h] = first[h], last'[h] = t, conns'[h] = conns[h] + 1,
         \/ Admitted(h, local) /\ conns[h] + 1 < throttle_tcount /\ zline_start'[h] = 0
         \/ accepted' = accepted /\ zline_start'[h] \in {0, NOW} /\ (zline_start'[h] # 0 => stage'[h] # -1)
  PROVE  Limited(h)'
<1> DEFINE f == accepted[h]
           e == accepted'[h]
           W == throttle_ttime + 1
           k == Running(h)
<1>1. /\ NOW \in Nat \ {0} /\ t \in 1 .. NOW /\ NOW - t <= throttle_ttime
      /\ throttle_ttime \in Nat /\ throttle_tcount \in Nat /\ throttle_tcount >= 2
      /\ f \in [Ages -> Nat] /\ e \in [Ages -> Nat] /\ (local => t = NOW)
      /\ first[h] \in Nat /\ conns[h] \in Nat
  BY Settings DEF TypesOK, TimeOf
<1>2. /\ first[h] \in 1 .. NOW
      /\ SumTo(f)[k] <= conns[h] /\ SumTo(f)[k] <= throttle_tcount - 1
      /\ SumTo(f)[W] - SumTo(f)[k] <= throttle_tcount - 1
      /\ NoneAfter(h, first[h] + throttle_ttime)
  BY DEF Limited
<1>3. k \in 1 .. W
  BY <1>2, RunningRange
<1>4. Running(h)' = k
  BY DEF Running
<1> HIDE DEF k
<1>5. SumTo(f)[k] \in Nat /\ SumTo(f)[W] \in Nat
  <2>1. k \in 0 .. throttle_ttime + 1 /\ W \in 0 .. throttle_ttime + 1
    BY <1>1, <1>3
  <2> HIDE DEF f, W
  <2> QED BY <1>1, <2>1, SumToNat
<1>6. /\ SumTo(e)[k] <= conns[h] + 1 /\ SumTo(e)[k] <= throttle_tcount - 1
      /\ SumTo(e)[W] - SumTo(e)[k] <= throttle_tcount - 1
      /\ NoneAfter(h, first[h] + throttle_ttime)'
  <2>1. CASE local /\ Admitted(h, local) /\ conns[h] + 1 < throttle_tcount
    <3>1. e = [f EXCEPT ![0] = @ + 1]
      BY <2>1 DEF Admitted, Bumped, TypesOK
    <3>2. W \in 1 .. throttle_ttime + 1 /\ 0 \in Ages
      BY <1>1 DEF Ages
    <3>3. SumTo(e)[k] = SumTo(f)[k] + 1 /\ SumTo(e)[W] = SumTo(f)[W] + 1
      <4> HIDE DEF f, e, W
      <4> QED BY <1>1, <1>3, <3>1, <3>2, SumToBump DEF W
    <3>4. NoneAfter(h, first[h] + throttle_ttime)'
      <4>1. ASSUME NEW a \in Ages, e[a] > 0 PROVE NOW - a <= first[h] + throttle_ttime
        <5>1. CASE a = 0
          BY <1>1, <2>1, <5>1
        <5>2. CASE a # 0
          <6>1. e[a] = f[a]
            BY <1>1, <3>1, <5>2
          <6> QED BY <1>2, <4>1, <6>1 DEF NoneAfter
        <5> QED BY <5>1, <5>2
      <4> QED BY <4>1 DEF NoneAfter
    <3>5. /\ SumTo(e)[k] <= conns[h] + 1 /\ SumTo(e)[k] <= throttle_tcount - 1
          /\ SumTo(e)[W] - SumTo(e)[k] <= throttle_tcount - 1
      <4> HIDE DEF f, e, W
      <4> QED BY <1>1, <1>2, <1>5, <2>1, <3>3
    <3> QED BY <3>4, <3>5
  <2>2. CASE accepted' = accepted
    <3>1. e = f /\ NoneAfter(h, first[h] + throttle_ttime)'
      BY <1>2, <2>2 DEF NoneAfter
    <3> HIDE DEF f, e, W
    <3> QED BY <1>1, <1>2, <1>5, <3>1
  <2> QED BY <2>1, <2>2 DEF Admitted
<1>7. NoneAfter(h, t + throttle_ttime)' /\ NoneAfter(h, NOW)'
  <2>1. \A a \in Ages : NOW - a <= t + throttle_ttime /\ NOW - a <= NOW
    BY <1>1 DEF Ages
  <2> QED BY <2>1 DEF NoneAfter
<1>8. Zlined(h)' => zline_start'[h] = NOW /\ stage'[h] # -1
  BY DEF Zlined
<1>9. SumTo(accepted[h])' = SumTo(e)
  BY DEF SumTo
<1>10. first[h] <= NOW /\ NOW <= NOW
  BY <1>1, <1>2
<1> HIDE DEF e, f
<1> QED BY <1>2, <1>4, <1>6, <1>7, <1>8, <1>9, <1>10 DEF Limited, NoneAfter
LEMMA LimitedOutcome ==
  ASSUME TypesOK, TypesOK', NEW h \in Hosts, NEW local \in BOOLEAN, NEW t, TimeOf(local, t),
         Limited(h), NOW' = NOW, Outcome(h, local, t)
  PROVE  Limited(h)'
<1>0. /\ NOW \in Nat \ {0} /\ t \in 1 .. NOW /\ (local => t = NOW)
      /\ throttles \subseteq Hosts /\ conns \in [Hosts -> Nat] /\ first \in [Hosts -> Nat]
      /\ last \in [Hosts -> Nat] /\ zline_start \in [Hosts -> Nat]
      /\ stage \in [Hosts -> Nat \cup {-1}]
      /\ throttle_ttime \in Nat /\ throttle_tcount \in Nat /\ throttle_tcount >= 2
  BY Settings DEF TypesOK, TimeOf
<1>1. TooMany(h) => h \in throttles /\ ~Zlined(h) /\ ConnsBefore(h) = conns[h] /\ FirstBefore(h, t) = first[h]
  BY <1>0 DEF TooMany, ConnsBefore, FirstBefore
<1>2. Expired(h, t) => h \in throttles /\ ~Zlined(h) /\ t - first[h] > throttle_ttime
  BY <1>0 DEF Expired, FirstBefore
<1>3. CASE UNCHANGED entries /\ UNCHANGED <<accepted, refused>>
  <2>1. Same(h)
    BY <1>3 DEF Same, entries
  <2> QED BY <2>1, LimitedSame
<1>4. CASE Refused(h, local, t) /\ TurnedAway(h, local)
  <2>1. CASE local
    <3>1. /\ Zlined(h) /\ zline_start'[h] = NOW
          /\ throttles' = throttles /\ conns' = conns /\ first' = first /\ last' = last /\ stage' = stage
          /\ accepted' = accepted
      BY <1>0, <1>4, <2>1 DEF Refused, TurnedAway, InZline
    <3>2. Running(h)' = Running(h) /\ SumTo(accepted[h])' = SumTo(accepted[h])
      BY <3>1 DEF Running, SumTo
    <3>3. \A u : NoneAfter(h, u)' = NoneAfter(h, u)
      BY <3>1 DEF NoneAfter
    <3>4. \A a \in Ages : NOW - a <= NOW
      BY <1>0 DEF Ages
    <3>5. NoneAfter(h, NOW)
      BY <3>4 DEF NoneAfter
    <3>6. first[h] <= NOW /\ NOW <= NOW /\ stage[h] # -1 /\ h \in throttles
      BY <1>0, <3>1 DEF Limited, Zlined
    <3> QED BY <3>1, <3>2, <3>3, <3>5, <3>6 DEF Limited, Zlined, NoneAfter
  <2>2. CASE ~local
    <3>1. Same(h)
      BY <1>4, <2>2 DEF Refused, TurnedAway, Same
    <3> QED BY <3>1, LimitedSame
  <2> QED BY <2>1, <2>2
<1>5. CASE NewPeriod(h, t) /\ Admitted(h, local)
  <2>1. Restartable(h, t)
    BY <1>2, <1>5, RestartExpired DEF NewPeriod
  <2>2. h \in throttles' /\ first'[h] = t /\ last'[h] = t /\ conns'[h] = 1 /\ zline_start'[h] = 0
    BY <1>0, <1>5 DEF NewPeriod, Counted
  <2> QED BY <1>5, <2>1, <2>2, LimitedRestart
<1>6. CASE Throttled(h, local, t) /\ TurnedAway(h, local)
  <2>1. /\ h \in throttles /\ ConnsBefore(h) = conns[h] /\ FirstBefore(h, t) = first[h]
        /\ t - first[h] <= throttle_ttime
    BY <1>0, <1>1, <1>6 DEF Throttled, Expired
  <2>2. /\ h \in throttles' /\ first'[h] = first[h] /\ last'[h] = t /\ conns'[h] = conns[h] + 1
        /\ zline_start'[h] \in {0, NOW} /\ accepted' = accepted
    BY <1>0, <1>6, <2>1 DEF Throttled, TurnedAway
  <2>3. zline_start'[h] # 0 => stage'[h] # -1
    BY <1>0, <1>6, <2>1 DEF Throttled, StageBefore
  <2> QED BY <2>1, <2>2, <2>3, LimitedOneMore
<1>7. CASE Okay(h, t) /\ Admitted(h, local)
  <2>1. /\ h \in throttles' /\ last'[h] = t /\ zline_start'[h] = 0
        /\ conns'[h] = ConnsBefore(h) + 1 /\ first'[h] = FirstBefore(h, t)
        /\ ~InZline(h, t) /\ ~(t - FirstBefore(h, t) > throttle_ttime)
        /\ ~(ConnsBefore(h) + 1 >= throttle_tcount)
    BY <1>0, <1>7 DEF Okay, Counted, Expired, TooMany
  <2>2. CASE h \notin throttles \/ Zlined(h)
    <3>1. conns'[h] = 1 /\ first'[h] = t
      BY <2>1, <2>2 DEF ConnsBefore, FirstBefore
    <3>2. Restartable(h, t)
      BY <2>1, <2>2, RestartNew, RestartReleased
    <3> QED BY <1>7, <2>1, <3>1, <3>2, LimitedRestart
  <2>3. CASE h \in throttles /\ ~Zlined(h)
    <3>1. ConnsBefore(h) = conns[h] /\ FirstBefore(h, t) = first[h]
      BY <2>3 DEF ConnsBefore, FirstBefore
    <3>2. conns[h] + 1 < throttle_tcount /\ t - first[h] <= throttle_ttime
      BY <1>0, <2>1, <3>1
    <3> QED BY <1>7, <2>1, <2>3, <3>1, <3>2, LimitedOneMore
  <2> QED BY <2>2, <2>3
<1> QED BY <1>3, <1>4, <1>5, <1>6, <1>7 DEF Outcome

LEMMA LimitedTick ==
  ASSUME TypesOK, NEW h \in Hosts, Limited(h), Tick
  PROVE  Limited(h)'
<1> DEFINE f == accepted[h]
           e == accepted'[h]
           W == throttle_ttime + 1
           k == Running(h)
           j == Running(h)'
<1>1. /\ NOW \in Nat \ {0} /\ NOW' = NOW + 1 /\ throttle_ttime \in Nat /\ throttle_tcount \in Nat
      /\ throttles' = throttles /\ conns' = conns /\ first' = first /\ last' = last
      /\ stage' = stage /\ zline_start' = zline_start
      /\ first[h] \in Nat /\ last[h] \in Nat /\ zline_start[h] \in Nat /\ conns[h] \in Nat
      /\ f \in [Ages -> Nat]
  BY Settings DEF Tick, entries, TypesOK
<1>2. e = Aged(f)
  BY DEF Tick, Aged
<1>3. \A a \in Ages : e[a] = IF a = 0 THEN 0 ELSE f[a - 1]
  BY <1>2 DEF Aged
<1>4. ASSUME NEW u \in Nat, NoneAfter(h, u) PROVE NoneAfter(h, u)'
  <2>1. ASSUME NEW a \in Ages, e[a] > 0 PROVE (NOW + 1) - a <= u
    <3>1. a # 0 /\ f[a - 1] > 0
      BY <1>3, <2>1
    <3>2. a - 1 \in Ages /\ a \in Nat
      BY <1>1, <3>1 DEF Ages
    <3>3. NOW - (a - 1) <= u
      BY <1>4, <3>1, <3>2 DEF NoneAfter
    <3> QED BY <1>1, <1>4, <3>2, <3>3
  <2>2. \A a \in Ages : accepted'[h][a] > 0 => NOW' - a <= u
    BY <1>1, <2>1
  <2> QED BY <2>2 DEF NoneAfter
<1>5. CASE h \notin throttles
  <2>1. ASSUME NEW a \in Ages PROVE e[a] = 0
    <3>1. a # 0 => a - 1 \in Ages
      BY <1>1 DEF Ages
    <3>2. \A b \in Ages : f[b] = 0
      BY <1>5 DEF Limited
    <3> QED BY <1>3, <3>1, <3>2
  <2> QED BY <1>1, <1>5, <2>1 DEF Limited
<1>6. CASE h \in throttles
  <2>1. /\ first[h] \in 1 .. NOW
        /\ SumTo(f)[k] <= conns[h] /\ SumTo(f)[k] <= throttle_tcount - 1
        /\ SumTo(f)[W] - SumTo(f)[k] <= throttle_tcount - 1
        /\ NoneAfter(h, first[h] + throttle_ttime) /\ NoneAfter(h, last[h] + throttle_ttime)
    BY <1>6 DEF Limited
  <2>2. k \in 1 .. W
    BY <2>1, RunningRange
  <2>3. k = IF NOW - first[h] < throttle_ttime THEN NOW - first[h] + 1 ELSE throttle_ttime + 1
    BY DEF Running
  <2>4. j = IF NOW + 1 - first[h] < throttle_ttime THEN NOW + 1 - first[h] + 1 ELSE throttle_ttime + 1
    BY <1>1 DEF Running
  <2> HIDE DEF k, j, e, f
  <2>5. (k < W /\ j = k + 1) \/ (k = W /\ j = W)
    BY <1>1, <2>1, <2>3, <2>4
  <2>6. SumTo(e)[W] = SumTo(f)[throttle_ttime]
    <3>1. throttle_ttime \in 0 .. throttle_ttime
      BY <1>1
    <3> QED BY <1>1, <1>2, <3>1, SumToAged
  <2>7. SumTo(f)[throttle_ttime] <= SumTo(f)[W]
    <3>1. throttle_ttime \in 0 .. throttle_ttime + 1 /\ throttle_ttime + 1 \in throttle_ttime .. throttle_ttime + 1
      BY <1>1
    <3> QED BY <1>1, <3>1, SumToGrows
  <2>8. \A n \in 0 .. W : SumTo(f)[n] \in Nat
    BY <1>1, SumToNat
  <2>9. SumTo(f)[throttle_ttime] \in Nat /\ SumTo(f)[W] \in Nat /\ SumTo(f)[k] \in Nat
    <3>1. throttle_ttime \in 0 .. W /\ W \in 0 .. W /\ k \in 0 .. W
      BY <1>1, <2>2
    <3> QED BY <2>8, <3>1
  <2>10. /\ SumTo(e)[j] <= conns[h] /\ SumTo(e)[j] <= throttle_tcount - 1
         /\ SumTo(e)[W] - SumTo(e)[j] <= throttle_tcount - 1
    <3>1. CASE k < W /\ j = k + 1
      <4>1. k \in 0 .. throttle_ttime
        BY <1>1, <2>2, <3>1
      <4>2. SumTo(e)[j] = SumTo(f)[k]
        BY <1>1, <1>2, <3>1, <4>1, SumToAged
      <4> HIDE DEF W
      <4> QED BY <1>1, <2>1, <2>6, <2>7, <2>9, <4>2
    <3>2. CASE k = W /\ j = W
      <4> HIDE DEF W
      <4> QED BY <1>1, <2>1, <2>6, <2>7, <2>9, <3>2
    <3> QED BY <2>5, <3>1, <3>2
  <2>11. NoneAfter(h, first[h] + throttle_ttime)' /\ NoneAfter(h, last[h] + throttle_ttime)'
    <3>1. first[h] + throttle_ttime \in Nat /\ last[h] + throttle_ttime \in Nat
      BY <1>1
    <3>2. first'[h] = first[h] /\ last'[h] = last[h]
      BY <1>1
    <3> QED BY <1>1, <1>4, <2>1, <3>1 DEF NoneAfter
  <2>12. Zlined(h)' => /\ stage'[h] # -1 /\ first'[h] <= zline_start'[h] /\ zline_start'[h] <= NOW'
                       /\ NoneAfter(h, zline_start[h])'
    <3>1. Zlined(h)' = Zlined(h)
      BY <1>1 DEF Zlined
    <3>2. Zlined(h) => stage[h] # -1 /\ first[h] <= zline_start[h] /\ zline_start[h] <= NOW /\ NoneAfter(h, zline_start[h])
      BY <1>6 DEF Limited
    <3> QED BY <1>1, <1>4, <3>1, <3>2 DEF NoneAfter
  <2>13. first'[h] \in 1 .. NOW'
    BY <1>1, <2>1
  <2>14. SumTo(accepted[h])' = SumTo(e)
    BY DEF SumTo, e
  <2> QED BY <1>1, <1>6, <2>10, <2>11, <2>12, <2>13, <2>14 DEF Limited, NoneAfter, j
<1> QED BY <1>5, <1>6

(* An entry the timers free is older than every connection of the window.  *)
LEMMA LimitedTimer ==
  ASSUME TypesOK, NEW h \in Hosts, Limited(h), throttle_timer_zapped
  PROVE  Limited(h)'
<1>1. /\ NOW' = NOW /\ throttles' = {z \in throttles : ~OldZapped(z) /\ ~OldIdle(z)}
      /\ conns' = conns /\ first' = first /\ last' = last /\ stage' = stage
      /\ zline_start' = zline_start /\ accepted' = accepted /\ refused' = refused
  BY DEF throttle_timer_zapped
<1>2. /\ NOW \in Nat /\ throttle_ttime \in Nat /\ throttle_ztime \in Nat /\ 2 * throttle_ttime < throttle_ztime
      /\ last[h] \in Nat /\ zline_start[h] \in Nat
  BY Settings DEF TypesOK
<1>3. ASSUME OldZapped(h) \/ OldIdle(h) PROVE Limited(h)'
  <2>1. PICK u \in Nat : NoneAfter(h, u) /\ NOW - u > throttle_ttime
    <3>1. CASE OldZapped(h)
      <4>1. Period(h) \in Nat
        BY PeriodNat DEF TypesOK, Period
      <4>2. Zlined(h) /\ NOW - zline_start[h] >= Period(h) + throttle_ztime
        BY <3>1 DEF OldZapped, Period
      <4>3. NoneAfter(h, zline_start[h])
        BY <4>2 DEF Limited, Zlined
      <4>4. NOW - zline_start[h] > throttle_ttime
        BY <1>2, <4>1, <4>2
      <4> QED BY <1>2, <4>3, <4>4
    <3>2. CASE OldIdle(h)
      <4>1. h \in throttles /\ NOW - last[h] >= throttle_ztime
        BY <3>2 DEF OldIdle
      <4>2. NoneAfter(h, last[h] + throttle_ttime)
        BY <4>1 DEF Limited
      <4>3. last[h] + throttle_ttime \in Nat /\ NOW - (last[h] + throttle_ttime) > throttle_ttime
        BY <1>2, <4>1
      <4> QED BY <4>2, <4>3
    <3> QED BY <1>3, <3>1, <3>2
  <2>2. ASSUME NEW a \in Ages PROVE accepted[h][a] = 0
    <3>1. a \in 0 .. throttle_ttime /\ accepted[h][a] \in Nat
      BY DEF Ages, TypesOK
    <3>2. ~(NOW - a <= u)
      BY <1>2, <2>1, <3>1
    <3> QED BY <2>1, <3>1, <3>2 DEF NoneAfter
  <2>3. h \notin throttles'
    BY <1>1, <1>3
  <2> QED BY <1>1, <2>2, <2>3 DEF Limited
<1>4. ASSUME ~OldZapped(h), ~OldIdle(h) PROVE Limited(h)'
  <2>1. Same(h)
    BY <1>1, <1>4 DEF Same
  <2> QED BY <1>1, <2>1, LimitedSame
<1> QED BY <1>3, <1>4

LEMMA LimitedOthers ==
  ASSUME TypesOK, NEW z \in Hosts, Limited(z)
  PROVE  /\ \A h \in Hosts : throttle_remove(h) => Limited(z)'
         /\ throttle_rehash => Limited(z)'
         /\ UNCHANGED vars => Limited(z)'
<1>1. ASSUME NEW h \in Hosts, throttle_remove(h) PROVE Limited(z)'
  <2>1. CASE z = h
    <3>1. z \notin throttles' /\ \A a \in Ages : accepted'[z][a] = 0
      BY <1>1, <2>1 DEF throttle_remove, TypesOK
    <3> QED BY <3>1 DEF Limited
  <2>2. CASE z # h
    <3>1. Same(z) /\ NOW' = NOW
      BY <1>1, <2>2 DEF throttle_remove, TypesOK, Same
    <3> QED BY <3>1, LimitedSame
  <2> QED BY <2>1, <2>2
<1>2. ASSUME throttle_rehash PROVE Limited(z)'
  <2>1. z \notin throttles' /\ \A a \in Ages : accepted'[z][a] = 0
    BY <1>2 DEF throttle_rehash
  <2> QED BY <2>1 DEF Limited
<1>3. ASSUME UNCHANGED vars PROVE Limited(z)'
  <2>1. Same(z) /\ NOW' = NOW
    BY <1>3 DEF vars, Same
  <2> QED BY <2>1, LimitedSame
<1> QED BY <1>1, <1>2, <1>3

LEMMA RateStep ==
  ASSUME RateInv, [Next]_vars
  PROVE  RateInv'
<1>0. TypesOK /\ \A z \in Hosts : Limited(z)
  BY DEF RateInv
<1>1. ASSUME Checks PROVE RateInv'
  <2>1. PICK h \in Hosts, local \in BOOLEAN, t \in Nat :
          TimeOf(local, t) /\ NOW' = NOW /\ Outcome(h, local, t)
    BY <1>1 DEF Checks
  <2>2. TypesOK'
    BY <1>0, <2>1, OutcomeTypes
  <2>3. ASSUME NEW z \in Hosts PROVE Limited(z)'
    <3>1. CASE z = h
      BY <1>0, <2>1, <2>2, <3>1, LimitedOutcome
    <3>2. CASE z # h
      <4>1. Same(z)
        BY <1>0, <2>1, <3>2, OutcomeSame
      <4> QED BY <1>0, <2>1, <4>1, LimitedSame
    <3> QED BY <3>1, <3>2
  <2> QED BY <2>2, <2>3 DEF RateInv
<1>2. ASSUME \/ Tick \/ throttle_timer_zapped
             \/ \E h \in Hosts : throttle_remove(h)
             \/ throttle_rehash \/ UNCHANGED vars
      PROVE  RateInv'
  <2>1. TypesOK'
    BY <1>0, <1>2, OtherTypes
  <2>2. ASSUME NEW z \in Hosts PROVE Limited(z)'
    BY <1>0, <1>2, LimitedTick, LimitedTimer, LimitedOthers
  <2> QED BY <2>1, <2>2 DEF RateInv
<1> QED BY <1>0, <1>1, <1>2, StepCases

LEMMA RateInit == Init => RateInv
<1>1. ASSUME Init, NEW z \in Hosts PROVE Limited(z)
  BY <1>1 DEF Init, Limited
<1> QED BY <1>1, InitTypes DEF RateInv

LEMMA RateImplies == RateInv => RateLimited
<1>1. SUFFICES ASSUME RateInv, NEW h \in Hosts PROVE Recent(h) <= 2 * (throttle_tcount - 1)
  BY DEF RateLimited
<1> DEFINE S == SumTo(accepted[h])
<1>2. TypesOK /\ Limited(h) /\ accepted[h] \in [Ages -> Nat]
  BY <1>1 DEF RateInv, TypesOK
<1>3. throttle_tcount \in Nat /\ throttle_tcount >= 2 /\ throttle_ttime \in Nat
  BY Settings
<1>4. \A n \in 0 .. throttle_ttime + 1 : S[n] \in Nat
  BY <1>2, SumToNat
<1>5. throttle_ttime + 1 \in 0 .. throttle_ttime + 1
  BY <1>3
<1>6. CASE h \notin throttles
  <2>1. \A a \in 0 .. (throttle_ttime + 1) - 1 : accepted[h][a] = 0
    BY <1>2, <1>3, <1>6 DEF Limited, Ages
  <2>2. S[throttle_ttime + 1] = 0
    BY <1>2, <1>5, <2>1, SumToZeros
  <2> QED BY <1>3, <2>2 DEF Recent
<1>7. CASE h \in throttles
  <2>1. /\ S[Running(h)] <= throttle_tcount - 1 /\ first[h] \in 1 .. NOW
        /\ S[throttle_ttime + 1] - S[Running(h)] <= throttle_tcount - 1
    BY <1>2, <1>7 DEF Limited
  <2>2. Running(h) \in 0 .. throttle_ttime + 1
    BY <1>2, <1>3, <2>1, RunningRange
  <2>3. S[Running(h)] \in Nat /\ S[throttle_ttime + 1] \in Nat
    BY <1>4, <1>5, <2>2
  <2> HIDE DEF S
  <2>4. S[throttle_ttime + 1] <= 2 * (throttle_tcount - 1)
    BY <1>3, <2>1, <2>3
  <2> QED BY <2>4 DEF Recent, S
<1> QED BY <1>6, <1>7

(* However connections are spread over the counts, and whatever remote     *)
(* signons and the timers do to the entry, throttle_check accepts at most  *)
(* twice throttle_tcount - 1 of them from an address in throttle_ttime     *)
(* seconds, as long as a period is no shorter than that.                   *)
THEOREM RateAlwaysLimited == Spec => []RateLimited
<1>1. RateInv /\ [Next]_vars => RateInv'
  BY RateStep
<1> QED BY <1>1, RateInit, RateImplies, PTL DEF Spec

-----------------------------------------------------------------------------
(* The readers of a connection (RecvQ).                                     *)

(* Only a server, or a peer that exchanges keys with one, is read by       *)
(* read_server_packet and has text kept by server_dopacket.                *)
ReaderInv ==
  /\ ReaderMatches
  /\ status \in Open /\ (reader = "read_server_packet" \/ restbuf # << >>)
        => status \in {"dkey", "server"}

(* server_dopacket leaves the reader of servers to a peer that it found    *)
(* to be one, if it leaves the connection open.                            *)
LEMMA ServerDopacketReader ==
  ASSUME NEW data, status \in {"dkey", "server"}, server_dopacket(data)
  PROVE  ReaderInv'
<1>1. status' \in Open => status' \in {"dkey", "server"} /\ reader' = "read_server_packet"
  BY DEF server_dopacket, Promoted, Drop, Open
<1> QED BY <1>1 DEF ReaderInv, ReaderMatches, Open

(* parse_client_queued leaves the reader that fits what the lines made of  *)
(* a peer that has no text kept by server_dopacket.                        *)
LEMMA ClientQueuedReader ==
  ASSUME NEW q, NEW n, NEW r, restbuf = << >>, status \in {"unknown", "person", "oper"},
         parse_client_queued(q, n, r)
  PROVE  ReaderInv'
<1>1. restbuf' = << >>
  BY DEF parse_client_queued
<1>2. status' \in Open => reader' = Rearmed(status')
  BY DEF parse_client_queued, Drop, Open
<1>3. Rearmed(status') # "none"
  BY DEF Rearmed
<1>4. Rearmed(status') = "read_server_packet" <=> status' = "server"
  BY DEF Rearmed
<1> QED BY <1>1, <1>2, <1>3, <1>4 DEF ReaderInv, ReaderMatches, Open

(* Every step of the receive side keeps the reader that fits the peer.     *)
LEMMA ReaderStep ==
  ASSUME ReaderInv, [RecvNext]_recvVars
  PROVE  ReaderInv'
<1>1. CASE UNCHANGED recvVars
  BY <1>1 DEF ReaderInv, ReaderMatches, recvVars
<1>2. ASSUME NEW data \in Packets, read_client_packet(data)
      PROVE  ReaderInv'
  <2>1. reader = "read_client_packet" /\ status \in Open
    BY <1>2 DEF read_client_packet
  <2>2. CASE status \in {"dkey", "server"}
    <3>1. server_dopacket(data)
      BY <1>2, <2>2 DEF read_client_packet
    <3> QED BY <3>1, <2>2, ServerDopacketReader
  <2>3. CASE status \notin {"dkey", "server"}
    <3>1. restbuf = << >> /\ status \in {"unknown", "person", "oper"}
      BY <2>1, <2>3 DEF ReaderInv, Open
    <3>2. \/ status' = "gone" /\ reader' = "none"
          \/ \E q, n : parse_client_queued(q, n, "none")
      BY <1>2, <2>3 DEF read_client_packet, Drop
    <3>3. CASE status' = "gone" /\ reader' = "none"
      BY <3>3 DEF ReaderInv, ReaderMatches, Open
    <3> QED BY <3>1, <3>2, <3>3, ClientQueuedReader
  <2> QED BY <2>2, <2>3
<1>3. ASSUME NEW data \in Packets, read_server_packet(data)
      PROVE  ReaderInv'
  <2>1. status \in {"dkey", "server"} /\ server_dopacket(data)
    BY <1>3 DEF read_server_packet, ReaderInv
  <2> QED BY <2>1, ServerDopacketReader
<1>4. CASE ReadFails
  BY <1>4 DEF ReadFails, Drop, ReaderInv, ReaderMatches, Open
<1>5. CASE dead_link_on_write
  BY <1>5 DEF dead_link_on_write, Drop, ReaderInv, ReaderMatches, Open
<1>6. CASE flood_recalc
  <2>1. CASE status = "person"
    <3>1. parse_client_queued(recvQ, len, reader)
      BY <1>6, <2>1 DEF flood_recalc
    <3>2. restbuf = << >>
      BY <2>1 DEF ReaderInv, Open
    <3> QED BY <3>1, <3>2, <2>1, ClientQueuedReader
  <2>2. CASE status # "person"
    BY <1>6, <2>2 DEF flood_recalc, ReaderInv, ReaderMatches
  <2> QED BY <2>1, <2>2
<1> QED BY <1>1, <1>2, <1>3, <1>4, <1>5, <1>6 DEF RecvNext

(* Whatever line turns the peer into a server, an open connection has a    *)
(* reader, and the lines of a server and text kept by server_dopacket are  *)
(* read by read_server_packet (s_packet.c).                                *)
THEOREM ReaderAlwaysMatches == RecvSpec => []ReaderMatches
<1>1. RecvInit => ReaderInv
  BY DEF RecvInit, ReaderInv, ReaderMatches, Open
<1>2. ReaderInv /\ [RecvNext]_recvVars => ReaderInv'
  BY ReaderStep
<1>3. ReaderInv => ReaderMatches
  BY DEF ReaderInv
<1> QED BY <1>1, <1>2, <1>3, PTL DEF RecvSpec

-----------------------------------------------------------------------------
(* K-lines, Z-lines and the mask file (Masks).                             *)

Bans   == Zapped \cup Banned
Stages == {"none", "accepted", "person"}

\* The masks of the file never expire: a rehash may find one and not make it again.
MasksTyped ==
    \A m \in maskitem_list :
        m.left \in Int \cup {Forever} /\ (m.type \in FromFile => m.left = Forever)

\* Stronger than BansBite: exclusions come and go without a check, so the ban itself
\* must have been noticed, not only what find_kill_level says of it.
Noticed ==
    \A c \in Users : user[c] = "person" /\ ~rehashed =>
        ~MatchedUser(expire_maskitems(maskitem_list), c, Bans) \/ c \in slipped

\* Stronger than FileInForce: from the reading on, while io_loop has not yet taken
\* back the request; and for good.
Loaded ==
    \A i \in DOMAIN file : \E m \in maskitem_list :
        m.type = file[i].type /\ m.string = file[i].string /\ m.left = Forever
FileLoaded == (~dorehash \/ rehashing) /\ ~lost => Loaded

FlagsTyped == {rehashed, dorehash, rehashing, lost} \subseteq BOOLEAN

IInv ==
    /\ user \in [Users -> Stages]
    /\ file \in MaskFiles
    /\ FlagsTyped
    /\ MasksTyped
    /\ Noticed
    /\ FileLoaded

-----------------------------------------------------------------------------
(* The operators.                                                          *)

LEMMA ExpireTwice ==
  ASSUME NEW l PROVE expire_maskitems(expire_maskitems(l)) = expire_maskitems(l)
BY DEF expire_maskitems

\* create_maskitem adds at most the mask it is asked for.
LEMMA CreateAdds ==
  ASSUME NEW l, NEW s, NEW type, NEW secs
  PROVE  /\ l \subseteq create_maskitem(l, s, type, secs)
         /\ \A m \in create_maskitem(l, s, type, secs) :
              m \in l \/ (m.type = type /\ m.string = s /\ m.left = secs)
BY DEF create_maskitem

\* Reading the file loads every mask of it, for good.
LEMMA ParseLoads ==
  ASSUME NEW l, NEW f \in MaskFiles,
         \A m \in l : m.type \in FromFile => m.left = Forever
  PROVE  /\ \A m \in maskfileparse(l, f) : m \in l \/ (m.type \in FromFile /\ m.left = Forever)
         /\ \A i \in DOMAIN f : \E m \in maskfileparse(l, f) :
              m.type = f[i].type /\ m.string = f[i].string /\ m.left = Forever
<1>1. \A i \in DOMAIN f : f[i].type \in FromFile
  BY MaskAssumption DEF FromFile
<1>2. ASSUME NEW m \in maskfileparse(l, f), m \notin l
      PROVE  m.type \in FromFile /\ m.left = Forever
  <2>1. PICK i \in DOMAIN f : m \in create_maskitem(l, f[i].string, f[i].type, Forever)
    BY <1>2 DEF maskfileparse
  <2> QED BY <1>1, <1>2, <2>1, CreateAdds
<1>3. ASSUME NEW i \in DOMAIN f
      PROVE  \E m \in maskfileparse(l, f) :
               m.type = f[i].type /\ m.string = f[i].string /\ m.left = Forever
  <2> DEFINE made == create_maskitem(l, f[i].string, f[i].type, Forever)
  <2>1. made \subseteq maskfileparse(l, f)
    BY DEF maskfileparse
  <2>2. \E m \in made : m.type = f[i].type /\ m.string = f[i].string /\ m.left = Forever
    <3>1. CASE \E m \in l : m.type = f[i].type /\ m.string = f[i].string
      BY <1>1, <3>1 DEF create_maskitem
    <3>2. CASE ~\E m \in l : m.type = f[i].type /\ m.string = f[i].string
      <4> DEFINE new == [type |-> f[i].type, string |-> f[i].string, left |-> Forever]
      <4>1. new \in made
        BY <3>2 DEF create_maskitem
      <4> QED BY <4>1
    <3> QED BY <3>1, <3>2
  <2> QED BY <2>1, <2>2
<1> QED BY <1>2, <1>3

\* A mask in force was in force a second ago.
LEMMA OlderWasLive ==
  ASSUME NEW m, m.left \in Int \cup {Forever}
  PROVE  /\ Older(m).type = m.type /\ Older(m).string = m.string
         /\ Older(m).left \in Int \cup {Forever}
         /\ Unexpired(Older(m)) => Unexpired(m)
         /\ m.left = Forever => Older(m).left = Forever
BY MaskAssumption DEF Older, Unexpired

-----------------------------------------------------------------------------
(* What is common to the steps.                                            *)

\* With no more bans in force and nobody new online, nothing goes unnoticed.
LEMMA FewerBans ==
  ASSUME IInv,
         \A c \in Users : user'[c] = "person" => user[c] = "person",
         rehashed' = rehashed,
         \A c \in Users : user'[c] = "person" /\ c \in slipped => c \in slipped',
         \A c \in Users : MatchedUser(expire_maskitems(maskitem_list'), c, Bans)
                          => MatchedUser(expire_maskitems(maskitem_list), c, Bans)
  PROVE  Noticed'
BY DEF IInv, Noticed

\* Taking masks off the list, expired or not, is harmless for what users notice.
LEMMA SubsetNoticed ==
  ASSUME IInv,
         UNCHANGED <<user, rehashed, slipped>>, maskitem_list' \subseteq maskitem_list
  PROVE  Noticed' /\ MasksTyped'
<1>1. expire_maskitems(maskitem_list') \subseteq expire_maskitems(maskitem_list)
  BY DEF expire_maskitems
<1>2. \A c \in Users : MatchedUser(expire_maskitems(maskitem_list'), c, Bans)
                        => MatchedUser(expire_maskitems(maskitem_list), c, Bans)
  BY <1>1 DEF MatchedUser
<1>3. Noticed'
  BY <1>2, FewerBans
<1> QED BY <1>3 DEF IInv, MasksTyped

\* The masks of the file stay loaded while what is in force of them stays.
LEMMA FileStays ==
  ASSUME IInv, UNCHANGED <<file, dorehash, rehashing, lost>>,
         \A m \in maskitem_list : m.type \in FromFile /\ m.left = Forever => m \in maskitem_list'
  PROVE  FileLoaded'
<1>1. \A i \in DOMAIN file : file[i].type \in FromFile
  BY MaskAssumption DEF IInv, FromFile
<1> QED BY <1>1 DEF IInv, FileLoaded, Loaded

LEMMA ExpiredOnly ==
  ASSUME NEW l, NEW m \in l, m.left = Forever PROVE m \in expire_maskitems(l)
BY DEF expire_maskitems, Unexpired

-----------------------------------------------------------------------------
(* The steps.                                                              *)

LEMMA InitHolds ==
  ASSUME MaskInit PROVE IInv
<1>1. user \in [Users -> Stages] /\ Noticed
  BY DEF MaskInit, Noticed, Stages
<1>2. file \in MaskFiles /\ FlagsTyped
  BY DEF MaskInit, FlagsTyped
<1>3. MasksTyped
  BY <1>2, ParseLoads DEF MaskInit, MasksTyped
<1>4. Loaded
  BY <1>2, ParseLoads DEF MaskInit, Loaded
<1> QED BY <1>1, <1>2, <1>3, <1>4 DEF IInv, FileLoaded

LEMMA KlineKeeps ==
  ASSUME IInv, NEW type \in Asked, NEW s \in Strings, NEW secs \in Lengths,
         iproc_kline(type, s, secs), UNCHANGED loop
  PROVE  IInv'
<1> DEFINE live == expire_maskitems(maskitem_list)
<1>1. UNCHANGED <<user, file, slipped, dorehash, rehashing, lost>>
  BY DEF iproc_kline, loop
<1>2. live \subseteq maskitem_list'
  BY CreateAdds DEF iproc_kline
<1>3. FileLoaded'
  BY <1>1, <1>2, ExpiredOnly, FileStays
<1>4. CASE Matched(live, s, type)
  <2>1. maskitem_list' = live
    BY <1>4 DEF iproc_kline
  <2>2. rehashed' = rehashed
    BY <1>4 DEF iproc_kline, IInv, FlagsTyped
  <2>3. Noticed' /\ MasksTyped'
    BY <1>1, <2>1, <2>2, SubsetNoticed DEF expire_maskitems
  <2> QED BY <1>1, <1>3, <2>2, <2>3 DEF IInv, FlagsTyped
<1>5. CASE ~Matched(live, s, type)
  <2>1. rehashed' = TRUE
    BY <1>5 DEF iproc_kline
  <2>2. Noticed'
    BY <2>1 DEF Noticed
  <2>3. \A m \in maskitem_list' : m \in maskitem_list \/ (m.type = type /\ m.left = secs)
    BY <1>5, CreateAdds DEF iproc_kline, expire_maskitems
  <2>4. MasksTyped'
    BY <2>3, MaskAssumption DEF IInv, MasksTyped, FromFile
  <2> QED BY <1>1, <1>3, <2>1, <2>2, <2>4 DEF IInv, FlagsTyped
<1> QED BY <1>4, <1>5

LEMMA ExcludeKeeps ==
  ASSUME IInv,
         NEW s \in Strings, NEW secs \in Lengths, m_exclude(s, secs), UNCHANGED loop
  PROVE  IInv'
<1> DEFINE live == expire_maskitems(maskitem_list)
<1>1. UNCHANGED <<user, rehashed, slipped, file, dorehash, rehashing, lost>>
  BY DEF m_exclude, loop
<1>2. live \subseteq maskitem_list'
  BY CreateAdds DEF m_exclude
<1>3. \A m \in maskitem_list' : m \in live \/ (m.type = "EXCLUDE" /\ m.left = secs)
  BY CreateAdds DEF m_exclude
<1>4. ASSUME NEW c \in Users, MatchedUser(expire_maskitems(maskitem_list'), c, Bans)
      PROVE  MatchedUser(live, c, Bans)
  <2>1. PICK m \in expire_maskitems(maskitem_list') : m.type \in Bans /\ m.string \in Hits[c]
    BY <1>4 DEF MatchedUser
  <2>2. m \in live
    BY <2>1, <1>3 DEF Bans, Zapped, Banned, expire_maskitems
  <2> QED BY <2>1, <2>2 DEF MatchedUser
<1>5. Noticed'
  BY <1>1, <1>4, FewerBans
<1>6. FileLoaded'
  BY <1>1, <1>2, ExpiredOnly, FileStays
<1>7. MasksTyped'
  BY <1>3, MaskAssumption DEF IInv, MasksTyped, FromFile, expire_maskitems
<1> QED BY <1>1, <1>5, <1>6, <1>7 DEF IInv, FlagsTyped

LEMMA UnklineKeeps ==
  ASSUME IInv, NEW type \in Asked \cup {"EXCLUDE"}, NEW s \in Strings,
         m_unkline(type, s), UNCHANGED loop
  PROVE  IInv'
<1>1. UNCHANGED <<user, rehashed, slipped, file, dorehash, rehashing, lost>>
  BY DEF m_unkline, loop
<1>2. maskitem_list' \subseteq maskitem_list
  BY DEF m_unkline, expire_maskitems
<1>3. type \notin FromFile
  BY MaskAssumption DEF FromFile
<1>4. \A m \in maskitem_list : m.type \in FromFile /\ m.left = Forever => m \in maskitem_list'
  BY <1>3, ExpiredOnly DEF m_unkline
<1>5. FileLoaded'
  BY <1>1, <1>4, FileStays
<1>6. Noticed' /\ MasksTyped'
  BY <1>1, <1>2, SubsetNoticed
<1> QED BY <1>1, <1>5, <1>6 DEF IInv, FlagsTyped

\* A lookup drops only what has expired, so what it finds is what was in force.
LEMMA LookupKeeps ==
  ASSUME IInv, maskitem_list' = expire_maskitems(maskitem_list)
  PROVE  /\ expire_maskitems(maskitem_list') = expire_maskitems(maskitem_list)
         /\ MasksTyped'
         /\ UNCHANGED <<file, dorehash, rehashing, lost>> => FileLoaded'
<1>1. expire_maskitems(maskitem_list') = expire_maskitems(maskitem_list)
  BY ExpireTwice
<1>2. MasksTyped'
  BY DEF IInv, MasksTyped, expire_maskitems
<1>3. ASSUME UNCHANGED <<file, dorehash, rehashing, lost>> PROVE FileLoaded'
  BY <1>3, ExpiredOnly, FileStays
<1> QED BY <1>1, <1>2, <1>3

LEMMA AcceptKeeps ==
  ASSUME IInv,
         NEW c \in Users, conf_connect_allowed(c), UNCHANGED loop
  PROVE  IInv'
<1>1. /\ UNCHANGED <<rehashed, slipped, file, dorehash, rehashing, lost>>
      /\ maskitem_list' = expire_maskitems(maskitem_list)
  BY DEF conf_connect_allowed, loop
<1>2. user' \in [Users -> Stages] /\ \A d \in Users : user'[d] = "person" => user[d] = "person"
  BY DEF conf_connect_allowed, IInv, Stages
<1>3. Noticed'
  BY <1>1, <1>2, FewerBans, LookupKeeps
<1> QED BY <1>1, <1>2, <1>3, LookupKeeps DEF IInv, FlagsTyped

\* Who registers has no ban in force against him, but perhaps a Z-line.
LEMMA RegisterKeeps ==
  ASSUME IInv, NEW c \in Users, attach_Iline(c), UNCHANGED loop
  PROVE  IInv'
<1> DEFINE live == expire_maskitems(maskitem_list)
<1>1. /\ UNCHANGED <<rehashed, file, dorehash, rehashing, lost>>
      /\ maskitem_list' = live
  BY DEF attach_Iline, loop
<1>2. /\ user' \in [Users -> Stages]
      /\ \A d \in Users \ {c} : user'[d] = user[d]
  BY DEF attach_Iline, IInv, Stages
<1>3. slipped \subseteq slipped'
  BY DEF attach_Iline
<1>4. ASSUME user'[c] = "person" PROVE ~MatchedUser(live, c, Bans) \/ c \in slipped'
  <2>1. ~MatchedUser(live, c, Banned)
    BY <1>4 DEF attach_Iline, find_connection_kill_level, IInv
  <2>2. MatchedUser(live, c, Zapped) => c \in slipped'
    BY <2>1 DEF attach_Iline, find_connection_kill_level
  <2> QED BY <2>1, <2>2 DEF MatchedUser, Bans
<1>5. Noticed'
  BY <1>1, <1>2, <1>3, <1>4, LookupKeeps DEF IInv, Noticed
<1> QED BY <1>1, <1>2, <1>5, LookupKeeps DEF IInv, FlagsTyped

LEMMA ExitKeeps ==
  ASSUME IInv, NEW c \in Users, exit_client(c), UNCHANGED loop
  PROVE  IInv'
<1>1. UNCHANGED <<maskitem_list, rehashed, file, dorehash, rehashing, lost>>
  BY DEF exit_client, loop
<1>2. /\ user' \in [Users -> Stages]
      /\ \A d \in Users : user'[d] = "person" => user[d] = "person" /\ d # c
  BY DEF exit_client, IInv, Stages
<1>3. slipped' = slipped \ {c}
  BY DEF exit_client
<1>4. Noticed'
  BY <1>1, <1>2, <1>3, FewerBans
<1> QED BY <1>1, <1>2, <1>4 DEF IInv, FlagsTyped, MasksTyped, FileLoaded, Loaded

\* The round that looks at the masks: whoever is matched leaves, or an exclusion
\* shelters him.
LEMMA PingsKeep ==
  ASSUME IInv, check_pings, UNCHANGED loop
  PROVE  IInv'
<1> DEFINE live  == expire_maskitems(maskitem_list)
           here  == {c \in Users : user[c] = "person"}
           leave == {c \in here : find_kill_level(live, c)}
<1>0. UNCHANGED <<file, dorehash, rehashing, lost>>
  BY DEF check_pings, loop
<1>1. CASE ~rehashed
  BY <1>0, <1>1 DEF check_pings, IInv, FlagsTyped, MasksTyped, Noticed, FileLoaded, Loaded
<1>2. CASE rehashed
  <2>1. /\ maskitem_list' = IF here = {} THEN maskitem_list ELSE live
        /\ user' = [c \in Users |-> IF c \in leave THEN "none" ELSE user[c]]
        /\ slipped' = {c \in here \ leave : MatchedUser(live, c, Bans)}
        /\ rehashed' = FALSE
    BY <1>2 DEF check_pings, Bans
  <2>2. /\ expire_maskitems(maskitem_list') = live
        /\ MasksTyped' /\ FileLoaded'
    <3>1. CASE here = {}
      BY <1>0, <2>1, <3>1 DEF IInv, MasksTyped, FileLoaded, Loaded
    <3>2. CASE here # {}
      BY <1>0, <2>1, <3>2, LookupKeeps
    <3> QED BY <3>1, <3>2
  <2>3. Noticed'
    <3>1. ASSUME NEW c \in Users, user'[c] = "person" PROVE c \in here \ leave
      BY <2>1, <3>1
    <3> QED BY <2>1, <2>2, <3>1 DEF Noticed
  <2>4. user' \in [Users -> Stages] /\ rehashed' \in BOOLEAN
    BY <2>1 DEF IInv, Stages
  <2> QED BY <1>0, <2>2, <2>3, <2>4 DEF IInv, FlagsTyped
<1> QED BY <1>1, <1>2

\* Time only takes bans away.
LEMMA TickKeeps ==
  ASSUME IInv, MasksAge, UNCHANGED loop
  PROVE  IInv'
<1>1. UNCHANGED <<user, rehashed, slipped, file, dorehash, rehashing, lost>>
  BY DEF MasksAge, loop
<1>2. maskitem_list' = {Older(m) : m \in maskitem_list}
  BY DEF MasksAge
<1>3. \A m \in maskitem_list : m.left \in Int \cup {Forever}
  BY DEF IInv, MasksTyped
<1>4. MasksTyped'
  BY <1>2, <1>3, OlderWasLive DEF IInv, MasksTyped
<1>5. ASSUME NEW c \in Users, MatchedUser(expire_maskitems(maskitem_list'), c, Bans)
      PROVE  MatchedUser(expire_maskitems(maskitem_list), c, Bans)
  <2>1. PICK n \in maskitem_list' : Unexpired(n) /\ n.type \in Bans /\ n.string \in Hits[c]
    BY <1>5 DEF MatchedUser, expire_maskitems
  <2>2. PICK m \in maskitem_list : n = Older(m)
    BY <1>2, <2>1
  <2>3. Unexpired(m) /\ m.type \in Bans /\ m.string \in Hits[c]
    BY <1>3, <2>1, <2>2, OlderWasLive
  <2> QED BY <2>3 DEF MatchedUser, expire_maskitems
<1>6. Noticed'
  BY <1>1, <1>5, FewerBans
<1>7. ASSUME Loaded PROVE Loaded'
  <2>1. ASSUME NEW i \in DOMAIN file
        PROVE  \E n \in maskitem_list' :
                 n.type = file[i].type /\ n.string = file[i].string /\ n.left = Forever
    <3>1. PICK m \in maskitem_list :
            m.type = file[i].type /\ m.string = file[i].string /\ m.left = Forever
      BY <1>7 DEF Loaded
    <3>2. Older(m) \in maskitem_list'
      BY <1>2
    <3> QED BY <1>3, <3>1, <3>2, OlderWasLive
  <2> QED BY <1>1, <2>1 DEF Loaded
<1>8. FileLoaded'
  BY <1>1, <1>7 DEF IInv, FileLoaded
<1> QED BY <1>1, <1>4, <1>6, <1>8 DEF IInv, FlagsTyped

\* The signal takes the masks of the file away, and asks for the file to be read.
LEMMA SighupKeeps ==
  ASSUME IInv, sighup_handler
  PROVE  IInv'
<1>1. /\ UNCHANGED <<rehashed, user, file, rehashing, slipped>>
      /\ maskitem_list' \subseteq maskitem_list
      /\ dorehash' = TRUE
      /\ lost' = (lost \/ rehashing)
  BY DEF sighup_handler
<1>2. Noticed' /\ MasksTyped'
  BY <1>1, SubsetNoticed
<1>3. FileLoaded'
  BY <1>1 DEF FileLoaded
<1>4. FlagsTyped'
  BY <1>1 DEF IInv, FlagsTyped
<1> QED BY <1>1, <1>2, <1>3, <1>4 DEF IInv

\* Whoever asks for it, a rehash loads the file and has the users looked at again.
LEMMA RehashKeeps ==
  ASSUME IInv, rehash, dorehash' \in BOOLEAN, rehashing' \in BOOLEAN
  PROVE  IInv'
<1>1. PICK f \in MaskFiles :
        /\ file' = f
        /\ maskitem_list' = maskfileparse({m \in maskitem_list : m.type \in FromFile}, f)
        /\ rehashed' = TRUE
        /\ lost' = FALSE
        /\ UNCHANGED <<user, slipped, hups>>
  BY DEF rehash
<1> DEFINE kept == {m \in maskitem_list : m.type \in FromFile}
<1>2. \A m \in kept : m.type \in FromFile => m.left = Forever
  BY DEF IInv, MasksTyped
<1> HIDE DEF kept
<1>3. Loaded'
  BY <1>1, <1>2, ParseLoads DEF Loaded, kept
<1>4. \A m \in maskitem_list' : m \in kept \/ (m.type \in FromFile /\ m.left = Forever)
  BY <1>1, <1>2, ParseLoads DEF kept
<1>5. MasksTyped'
  BY <1>2, <1>4 DEF MasksTyped, kept
<1>6. Noticed'
  BY <1>1 DEF Noticed
<1>7. FlagsTyped'
  BY <1>1 DEF FlagsTyped
<1> QED BY <1>1, <1>3, <1>5, <1>6, <1>7 DEF IInv, FileLoaded

LEMMA ServedKeeps ==
  ASSUME IInv, rehash_served
  PROVE  IInv'
<1>1. /\ UNCHANGED <<maskitem_list, rehashed, user, file, slipped, lost>>
      /\ rehashing /\ rehashing' = FALSE /\ dorehash' = FALSE
  BY DEF rehash_served
<1>2. FileLoaded'
  BY <1>1 DEF IInv, FileLoaded, Loaded
<1>3. Noticed' /\ MasksTyped'
  BY <1>1, SubsetNoticed
<1> QED BY <1>1, <1>2, <1>3 DEF IInv, FlagsTyped

LEMMA StutterKeeps == IInv /\ UNCHANGED maskVars => IInv'
BY DEF maskVars, IInv, FlagsTyped, MasksTyped, Noticed, FileLoaded, Loaded

LEMMA NextKeeps ==
  ASSUME IInv, MaskNext PROVE IInv'
<1>1. CASE Serve /\ UNCHANGED loop
  <2>1. ASSUME NEW c \in Users, conf_connect_allowed(c) \/ attach_Iline(c) \/ exit_client(c)
        PROVE  IInv'
    BY <1>1, <2>1, AcceptKeeps, RegisterKeeps, ExitKeeps
  <2>2. ASSUME NEW s \in Strings, NEW type \in Asked, NEW secs \in Lengths, iproc_kline(type, s, secs)
        PROVE  IInv'
    BY <1>1, <2>2, KlineKeeps
  <2>3. ASSUME NEW s \in Strings, NEW secs \in Lengths, m_exclude(s, secs)
        PROVE  IInv'
    BY <1>1, <2>3, ExcludeKeeps
  <2>4. ASSUME NEW s \in Strings, NEW type \in Asked \cup {"EXCLUDE"}, m_unkline(type, s)
        PROVE  IInv'
    BY <1>1, <2>4, UnklineKeeps
  <2>5. check_pings \/ MasksAge => IInv'
    BY <1>1, PingsKeep, TickKeeps
  <2> QED BY <1>1, <2>1, <2>2, <2>3, <2>4, <2>5 DEF Serve
<1>2. CASE rehash /\ UNCHANGED <<dorehash, rehashing>>
  BY <1>2, RehashKeeps DEF IInv, FlagsTyped
<1>3. CASE rehash_asked
  BY <1>3, RehashKeeps DEF rehash_asked, IInv, FlagsTyped
<1>4. CASE rehash_served \/ sighup_handler
  BY <1>4, ServedKeeps, SighupKeeps
<1> QED BY <1>1, <1>2, <1>3, <1>4 DEF MaskNext

\* For any users, masks and signals: every person a ban in force matches was checked
\* against it or is named in slipped (iproc_kline, attach_Iline, check_pings), and the
\* masks of the file are loaded unless a rehash is due or a SIGHUP was lost.
THEOREM MasksInductive == MaskSpec => []IInv
<1>1. IInv /\ [MaskNext]_maskVars => IInv'
  BY NextKeeps, StutterKeeps
<1>2. MaskInit => IInv
  BY InitHolds
<1> QED BY <1>1, <1>2, PTL DEF MaskSpec

\* Nobody who is banned stays online once check_pings has looked, for any number of
\* users and masks, however they match: iproc_kline, attach_Iline and check_pings
\* leave no gap but the two BansBite names.
THEOREM BansAlwaysBite == MaskSpec => []BansBite
<1>1. IInv => BansBite
  <2> SUFFICES ASSUME IInv, NEW c \in Users, user[c] = "person", ~rehashed,
                      find_kill_level(expire_maskitems(maskitem_list), c)
               PROVE  c \in slipped
    BY DEF BansBite
  <2>1. MatchedUser(expire_maskitems(maskitem_list), c, Bans)
    BY DEF find_kill_level, Bans
  <2> QED BY <2>1 DEF IInv, Noticed
<1> QED BY <1>1, MasksInductive, PTL

\* Whatever the file holds and however often it is read, its masks are in force when
\* no rehash is pending and no SIGHUP was lost between rehash and dorehash = 0.
THEOREM FileMasksInForce == MaskSpec => []FileInForce
<1>1. IInv => FileInForce
  BY DEF IInv, FileLoaded, Loaded, FileInForce
<1> QED BY <1>1, MasksInductive, PTL
=============================================================================
