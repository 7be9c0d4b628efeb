--------------------------- MODULE NetworkProofs ----------------------------
(***************************************************************************)
(* For any number of clients: the lists of the servers mirror servptr, the *)
(* counters agree with the lists, a message to a channel goes once to each *)
(* link, each link is told of the network in an order it understands, and  *)
(* Network implements Topology.                                            *)
(***************************************************************************)
EXTENDS Network, FiniteSetTheorems, SequenceTheorems, WellFoundedInduction, TLAPS

(* The order of the naturals, as a relation the library's WFMin applies to. *)
LEMMA NatWellFounded ==
  \E R : IsWellFoundedOn(R, Nat) /\ \A x, y \in Nat : x < y => <<x, y>> \in R
<1>1. IsWellFoundedOn(OpToRel(<, Nat), Nat)
  BY NatLessThanWellFounded
<1>2. \A x, y \in Nat : x < y => <<x, y>> \in OpToRel(<, Nat)
  BY DEF OpToRel
<1> QED BY <1>1, <1>2, Zenon

LEMMA LeastNat ==
  ASSUME NEW T \in SUBSET Nat, T # {}
  PROVE  \E x \in T : \A y \in T : x <= y
<1>1. PICK R : IsWellFoundedOn(R, Nat) /\ \A x, y \in Nat : x < y => <<x, y>> \in R
  BY NatWellFounded
<1>2. IsWellFoundedOn(R, Nat)
  BY <1>1
<1>3. \E x \in T : \A y \in T : ~ (<<y, x>> \in R)
  BY <1>2, WFMin
<1>4. PICK x \in T : \A y \in T : ~ (<<y, x>> \in R)
  BY <1>3
<1>5. T \subseteq Nat
  OBVIOUS
<1>6. \A y \in T : ~(y < x)
  BY <1>1, <1>4, <1>5, Zenon
<1> QED BY <1>5, <1>6

(* Induction up to a bound, for a property given as a set.                 *)
LEMMA Induction ==
  ASSUME NEW n \in Nat, NEW S, 0 \in S, \A i \in 1 .. n : i - 1 \in S => i \in S
  PROVE  \A i \in 0 .. n : i \in S
<1> DEFINE T == {i \in 0 .. n : i \notin S}
<1>1. SUFFICES ASSUME T # {} PROVE FALSE
  OBVIOUS
<1>2. T \in SUBSET Nat
  OBVIOUS
<1>3. PICK x \in T : \A y \in T : x <= y
  BY <1>1, <1>2, LeastNat
<1>4. x \in 1 .. n /\ x - 1 \in 0 .. n
  BY <1>3
<1>5. x - 1 \in S
  BY <1>3, <1>4
<1> QED BY <1>3, <1>4, <1>5

-----------------------------------------------------------------------------
(* The list of all blocks, and what removing blocks keeps of it.           *)

Injective(s) == \A i, j \in 1 .. Len(s) : s[i] = s[j] => i = j
Items(s) == {s[i] : i \in 1 .. Len(s)}

(* x is nearer to the front of the list than y.                            *)
Before(s, x, y) == \E i, j \in 1 .. Len(s) : i < j /\ s[i] = x /\ s[j] = y

KeptStep(list, gone, i, t) ==
  IF i = 0 THEN << >> ELSE IF list[i] \in gone THEN t ELSE Append(t, list[i])

Solves(f, C, list, gone) ==
  /\ f \in [0 .. Len(list) -> Seq(C)]
  /\ \A i \in 0 .. Len(list) : f[i] = KeptStep(list, gone, i, f[i - 1])

(* The recursion of Kept has a solution, so that Kept is what it says.     *)
LEMMA KeptDefined ==
  ASSUME NEW C, NEW list \in Seq(C), NEW gone
  PROVE  \E f : Solves(f, C, list, gone)
<1> DEFINE n == Len(list)
           P(m) == \E f \in [0 .. m -> Seq(C)] :
                     \A i \in 0 .. m : f[i] = KeptStep(list, gone, i, f[i - 1])
           S == {m \in 0 .. n : P(m)}
<1>0. n \in Nat
  OBVIOUS
<1>1. 0 \in S
  <2> DEFINE f == [i \in 0 .. 0 |-> << >>]
  <2>1. f \in [0 .. 0 -> Seq(C)] /\ \A i \in 0 .. 0 : f[i] = KeptStep(list, gone, i, f[i - 1])
    BY DEF KeptStep
  <2>2. P(0)
    BY <2>1
  <2> QED BY <1>0, <2>2
<1>2. ASSUME NEW m \in 1 .. n, m - 1 \in S PROVE m \in S
  <2>1. PICK f \in [0 .. (m - 1) -> Seq(C)] :
          \A i \in 0 .. (m - 1) : f[i] = KeptStep(list, gone, i, f[i - 1])
    BY <1>2
  <2>2. f[m - 1] \in Seq(C) /\ list[m] \in C
    BY <1>2, <2>1
  <2> DEFINE v == KeptStep(list, gone, m, f[m - 1])
             g == [i \in 0 .. m |-> IF i = m THEN v ELSE f[i]]
  <2>3. v \in Seq(C)
    BY <2>2 DEF KeptStep
  <2>4. g \in [0 .. m -> Seq(C)]
    BY <2>3
  <2>5. ASSUME NEW i \in 0 .. m PROVE g[i] = KeptStep(list, gone, i, g[i - 1])
    <3>1. CASE i = m
      BY <1>2, <3>1
    <3>2. CASE i # m /\ i # 0
      BY <1>2, <2>1, <3>2
    <3>3. CASE i = 0
      <4>1. g[0] = f[0] /\ f[0] = KeptStep(list, gone, 0, f[0 - 1])
        BY <1>2, <2>1
      <4> QED BY <3>3, <4>1 DEF KeptStep
    <3> QED BY <3>1, <3>2, <3>3
  <2>6. P(m)
    BY <2>4, <2>5
  <2>7. m \in 0 .. n
    BY <1>0, <1>2
  <2> HIDE DEF P
  <2> QED BY <2>6, <2>7
<1>3. n \in S
  <2> HIDE DEF S
  <2>1. \A i \in 0 .. n : i \in S
    BY <1>0, <1>1, <1>2, Induction
  <2> QED BY <1>0, <2>1
<1> QED BY <1>3 DEF Solves

LEMMA KeptIs ==
  ASSUME NEW C, NEW list \in Seq(C), NEW gone
  PROVE  \E f : Solves(f, C, list, gone) /\ Kept(list, gone) = f[Len(list)]
<1>0. Len(list) \in Nat
  OBVIOUS
<1>a. PICK f : Solves(f, C, list, gone)
  BY KeptDefined
<1>1. /\ f \in [0 .. Len(list) -> Seq(C)]
      /\ \A i \in 0 .. Len(list) : f[i] = KeptStep(list, gone, i, f[i - 1])
  BY <1>a DEF Solves
<1> DEFINE R(g) == [i \in 0 .. Len(list) |->
                      IF i = 0 THEN << >>
                      ELSE IF list[i] \in gone THEN g[i - 1] ELSE Append(g[i - 1], list[i])]
           F == CHOOSE g : g = R(g)
<1>2. Kept(list, gone) = F[Len(list)]
  BY DEF Kept
<1>3. f = R(f)
  BY <1>1 DEF KeptStep
<1>4. F = R(F)
  BY <1>3
<1> HIDE DEF F
<1> DEFINE S == {i \in 0 .. Len(list) : F[i] = f[i]}
<1>5. 0 \in S
  BY <1>0, <1>3, <1>4
<1>6. ASSUME NEW i \in 1 .. Len(list), i - 1 \in S PROVE i \in S
  <2>1. F[i - 1] = f[i - 1] /\ i \in 0 .. Len(list) /\ i # 0
    BY <1>0, <1>6
  <2>2. F[i] = (IF list[i] \in gone THEN F[i - 1] ELSE Append(F[i - 1], list[i]))
    BY <1>4, <2>1
  <2>3. f[i] = (IF list[i] \in gone THEN f[i - 1] ELSE Append(f[i - 1], list[i]))
    BY <1>1, <2>1 DEF KeptStep
  <2> QED BY <2>1, <2>2, <2>3
<1>7. Len(list) \in S
  <2> HIDE DEF S
  <2>1. \A i \in 0 .. Len(list) : i \in S
    BY <1>0, <1>5, <1>6, Induction
  <2> QED BY <1>0, <2>1
<1> QED BY <1>a, <1>2, <1>7

(* t is what is kept of the first i entries of the list.                   *)
KeptOf(t, list, gone, i) ==
  /\ \A a \in 1 .. i : list[a] \notin gone => \E p \in 1 .. Len(t) : t[p] = list[a]
  /\ \A a, b \in 1 .. i : a < b /\ list[a] \notin gone /\ list[b] \notin gone =>
       \E p, q \in 1 .. Len(t) : p < q /\ t[p] = list[a] /\ t[q] = list[b]
  /\ \A p \in 1 .. Len(t) : \E a \in 1 .. i : t[p] = list[a] /\ list[a] \notin gone
  /\ \A p, q \in 1 .. Len(t) : t[p] = t[q] => p = q

LEMMA KeptOfStep ==
  ASSUME NEW C, NEW list \in Seq(C), NEW gone, Injective(list),
         NEW i \in 1 .. Len(list), NEW t \in Seq(C), KeptOf(t, list, gone, i - 1)
  PROVE  KeptOf(KeptStep(list, gone, i, t), list, gone, i)
<1> DEFINE u == KeptStep(list, gone, i, t)
<1>1. i \in Nat /\ i # 0 /\ list[i] \in C /\ \A a \in 1 .. i : a = i \/ a \in 1 .. (i - 1)
  OBVIOUS
<1>2. CASE list[i] \in gone
  <2>1. u = t
    BY <1>1, <1>2 DEF KeptStep
  <2>2. \A a \in 1 .. i : list[a] \notin gone => a \in 1 .. (i - 1)
    BY <1>1, <1>2
  <2>3. 1 .. (i - 1) \subseteq 1 .. i
    BY <1>1
  <2> QED BY <2>1, <2>2, <2>3 DEF KeptOf
<1>3. CASE list[i] \notin gone
  <2>1. u = Append(t, list[i])
    BY <1>1, <1>3 DEF KeptStep
  <2>2. /\ Len(t) \in Nat /\ Len(u) = Len(t) + 1 /\ u[Len(u)] = list[i]
        /\ \A p \in 1 .. Len(t) : u[p] = t[p]
    BY <1>1, <2>1
  <2> HIDE DEF u
  <2>3. /\ \A p \in 1 .. Len(u) : p = Len(u) \/ p \in 1 .. Len(t)
        /\ Len(u) \in 1 .. Len(u)
        /\ \A p \in 1 .. Len(t) : p \in 1 .. Len(u) /\ p < Len(u)
    BY <2>2
  <2>4. ASSUME NEW a \in 1 .. i, list[a] \notin gone
        PROVE  \E p \in 1 .. Len(u) : u[p] = list[a]
    <3>1. CASE a = i
      BY <2>2, <2>3, <3>1
    <3>2. CASE a # i
      <4>1. PICK p \in 1 .. Len(t) : t[p] = list[a]
        BY <1>1, <2>4, <3>2 DEF KeptOf
      <4> QED BY <2>2, <2>3, <4>1
    <3> QED BY <3>1, <3>2
  <2>5. ASSUME NEW a \in 1 .. i, NEW b \in 1 .. i, a < b,
               list[a] \notin gone, list[b] \notin gone
        PROVE  \E p, q \in 1 .. Len(u) : p < q /\ u[p] = list[a] /\ u[q] = list[b]
    <3>0. a \in 1 .. (i - 1)
      BY <1>1, <2>5
    <3>1. CASE b = i
      <4>1. PICK p \in 1 .. Len(t) : t[p] = list[a]
        BY <2>5, <3>0 DEF KeptOf
      <4> QED BY <2>2, <2>3, <3>1, <4>1
    <3>2. CASE b # i
      <4>0. b \in 1 .. (i - 1)
        BY <1>1, <3>2
      <4>1. PICK p, q \in 1 .. Len(t) : p < q /\ t[p] = list[a] /\ t[q] = list[b]
        BY <2>5, <3>0, <4>0 DEF KeptOf
      <4> QED BY <2>2, <2>3, <4>1
    <3> QED BY <3>1, <3>2
  <2>6. ASSUME NEW p \in 1 .. Len(u)
        PROVE  \E a \in 1 .. i : u[p] = list[a] /\ list[a] \notin gone
    <3>1. CASE p = Len(u)
      BY <1>1, <1>3, <2>2, <3>1
    <3>2. CASE p # Len(u)
      <4>1. p \in 1 .. Len(t)
        BY <2>3, <3>2
      <4>2. PICK a \in 1 .. (i - 1) : t[p] = list[a] /\ list[a] \notin gone
        BY <4>1 DEF KeptOf
      <4>3. a \in 1 .. i
        BY <1>1
      <4> QED BY <2>2, <4>1, <4>2, <4>3
    <3> QED BY <3>1, <3>2
  <2>7. \A p \in 1 .. Len(t) : t[p] # list[i]
    <3> SUFFICES ASSUME NEW p \in 1 .. Len(t), t[p] = list[i] PROVE FALSE
      OBVIOUS
    <3>1. PICK a \in 1 .. (i - 1) : t[p] = list[a]
      BY DEF KeptOf
    <3>2. a \in 1 .. Len(list) /\ a # i /\ list[a] = list[i]
      BY <3>1
    <3> QED BY <3>2 DEF Injective
  <2>8. ASSUME NEW p \in 1 .. Len(u), NEW q \in 1 .. Len(u), u[p] = u[q] PROVE p = q
    <3>1. CASE p \in 1 .. Len(t) /\ q \in 1 .. Len(t)
      BY <2>2, <2>8, <3>1 DEF KeptOf
    <3>2. CASE p = Len(u) \/ q = Len(u)
      BY <2>2, <2>3, <2>7, <2>8, <3>2
    <3> QED BY <2>3, <3>1, <3>2
  <2> QED BY <2>4, <2>5, <2>6, <2>8 DEF KeptOf, u
<1> QED BY <1>2, <1>3

(* The list without some blocks: the others stay, each once, in order.     *)
LEMMA KeptProperties ==
  ASSUME NEW C, NEW list \in Seq(C), NEW gone, Injective(list)
  PROVE  /\ Kept(list, gone) \in Seq(C)
         /\ Injective(Kept(list, gone))
         /\ Items(Kept(list, gone)) = Items(list) \ gone
         /\ \A x, y : Before(list, x, y) /\ x \notin gone /\ y \notin gone
               => Before(Kept(list, gone), x, y)
<1>0. Len(list) \in Nat
  OBVIOUS
<1>a. PICK f : Solves(f, C, list, gone) /\ Kept(list, gone) = f[Len(list)]
  BY KeptIs
<1>1. /\ f \in [0 .. Len(list) -> Seq(C)]
      /\ \A i \in 0 .. Len(list) : f[i] = KeptStep(list, gone, i, f[i - 1])
  BY <1>a DEF Solves
<1> DEFINE S == {i \in 0 .. Len(list) : KeptOf(f[i], list, gone, i)}
<1>2. 0 \in S
  <2>1. f[0] = << >>
    BY <1>0, <1>1 DEF KeptStep
  <2>2. KeptOf(<< >>, list, gone, 0)
    BY DEF KeptOf
  <2> QED BY <1>0, <2>1, <2>2
<1>3. ASSUME NEW i \in 1 .. Len(list), i - 1 \in S PROVE i \in S
  <2>1. i \in 0 .. Len(list) /\ i - 1 \in 0 .. Len(list)
    BY <1>0, <1>3
  <2>2. f[i] = KeptStep(list, gone, i, f[i - 1]) /\ f[i - 1] \in Seq(C)
        /\ KeptOf(f[i - 1], list, gone, i - 1)
    BY <1>1, <1>3, <2>1
  <2>3. KeptOf(f[i], list, gone, i)
    BY <2>2, KeptOfStep
  <2> QED BY <2>1, <2>3
<1>4. Len(list) \in S
  <2> HIDE DEF S
  <2>1. \A i \in 0 .. Len(list) : i \in S
    BY <1>0, <1>2, <1>3, Induction
  <2> QED BY <1>0, <2>1
<1> DEFINE k == Kept(list, gone)
<1>5. k \in Seq(C) /\ KeptOf(k, list, gone, Len(list))
  BY <1>0, <1>a, <1>1, <1>4
<1> HIDE DEF k
<1>6. Injective(k)
  BY <1>5 DEF Injective, KeptOf
<1>7. Items(k) = Items(list) \ gone
  <2>1. ASSUME NEW x \in Items(k) PROVE x \in Items(list) \ gone
    <3>1. PICK p \in 1 .. Len(k) : x = k[p]
      BY DEF Items
    <3>2. PICK a \in 1 .. Len(list) : k[p] = list[a] /\ list[a] \notin gone
      BY <1>5 DEF KeptOf
    <3> QED BY <3>1, <3>2 DEF Items
  <2>2. ASSUME NEW x \in Items(list) \ gone PROVE x \in Items(k)
    <3>1. PICK a \in 1 .. Len(list) : x = list[a]
      BY DEF Items
    <3>2. PICK p \in 1 .. Len(k) : k[p] = list[a]
      BY <1>5, <3>1 DEF KeptOf
    <3> QED BY <3>1, <3>2 DEF Items
  <2> QED BY <2>1, <2>2
<1>8. ASSUME NEW x, NEW y, Before(list, x, y), x \notin gone, y \notin gone
      PROVE  Before(k, x, y)
  <2>1. PICK a, b \in 1 .. Len(list) : a < b /\ list[a] = x /\ list[b] = y
    BY <1>8 DEF Before
  <2>2. PICK p, q \in 1 .. Len(k) : p < q /\ k[p] = list[a] /\ k[q] = list[b]
    BY <1>5, <1>8, <2>1 DEF KeptOf
  <2> QED BY <2>1, <2>2 DEF Before
<1> QED BY <1>5, <1>6, <1>7, <1>8 DEF k

-----------------------------------------------------------------------------
(* The inductive invariant.                                                *)

Statuses == {"free", "unknown", "person", "server"}

TypesOK ==
  /\ status \in [Clients -> Statuses]
  /\ from \in [Clients -> Locals \cup {Nil}]
  /\ servptr \in [Clients -> Nodes \cup {Nil}]
  /\ GlobalClientList \in Seq(Clients)
  /\ users \in [Nodes -> SUBSET Clients] /\ servers \in [Nodes -> SUBSET Clients]
  /\ serv_list \in SUBSET Locals /\ global_serv_list \in SUBSET Clients
  /\ exit_list \in SUBSET Locals /\ stack \in Seq(Clients)

(* A local client is on this server, behind itself; a remote one is on a   *)
(* server that is still here, and behind the same link.                    *)
Placed ==
  /\ \A x \in Locals :
       /\ status[x] # "free" => from[x] = x
       /\ status[x] \in {"person", "server"} => servptr[x] = Me
  /\ \A x \in exit_list : status[x] # "free"
  /\ \A x \in Remotes :
       /\ status[x] # "unknown"
       /\ status[x] # "free" => servptr[x] \in Hosts /\ from[x] = from[servptr[x]]

(* A link is on serv_list until its own split begins, and every remote     *)
(* client is behind such a link.                                           *)
Linked ==
  /\ serv_list \subseteq Hosts
  /\ ~ Idle => stack[1] \notin serv_list
  /\ \A x \in Locals \cap Hosts : x \in serv_list \/ (~ Idle /\ x = stack[1])
  /\ \A x \in Remotes : status[x] # "free" =>
       from[x] \in serv_list \/ (~ Idle /\ from[x] = stack[1])

(* GlobalClientList holds every block once, a client before its server.    *)
Ordered ==
  /\ Injective(GlobalClientList)
  /\ Items(GlobalClientList) = {x \in Clients : status[x] # "free"}
  /\ \A x \in Remotes : status[x] # "free" => Before(GlobalClientList, x, servptr[x])

(* The calls under way are for servers that are here, each for a server of *)
(* the one before.                                                         *)
Splitting ==
  /\ \A i \in 1 .. Len(stack) : stack[i] \in Hosts
  /\ \A i \in 2 .. Len(stack) : servptr[stack[i]] = stack[i - 1]
  /\ \A i, j \in 1 .. Len(stack) : i < j => Before(GlobalClientList, stack[j], stack[i])

Mirrored ==
  /\ \A y \in Nodes :
       /\ users[y] = {x \in Clients : IsPerson(x) /\ servptr[x] = y}
       /\ servers[y] = {x \in Hosts : servptr[x] = y}
  /\ global_serv_list = Hosts

NetInv == TypesOK /\ Placed /\ Linked /\ Ordered /\ Splitting /\ Mirrored

LEMMA NetInvTree == NetInv => TreeMirrored
<1> SUFFICES ASSUME NetInv PROVE TreeMirrored
  OBVIOUS
<1>1. {GlobalClientList[i] : i \in DOMAIN GlobalClientList} = {x \in Clients : status[x] # "free"}
  BY DEF NetInv, TypesOK, Ordered, Items
<1> QED BY <1>1 DEF NetInv, TreeMirrored, Mirrored, Placed, Linked, Idle

LEMMA NetInvInit == Init => NetInv
<1> SUFFICES ASSUME Init PROVE NetInv
  OBVIOUS
<1> USE DEF Init
<1>1. TypesOK
  BY DEF TypesOK, Statuses, Nodes
<1>2. Hosts = {} /\ \A x \in Clients : status[x] = "free"
  BY DEF Hosts, IsServer
<1>6. Placed /\ Linked
  BY <1>2 DEF Placed, Linked, Idle, Clients
<1>3. Ordered
  BY DEF Ordered, Injective, Items, Clients
<1>4. Splitting
  BY DEF Splitting
<1>5. Mirrored
  BY DEF Mirrored, Hosts, IsServer, IsPerson
<1> QED BY <1>1, <1>3, <1>4, <1>5, <1>6 DEF NetInv

(* A new block at the front of the list.                                   *)
LEMMA ConsProperties ==
  ASSUME NEW C, NEW s \in Seq(C), NEW x \in C, Injective(s), x \notin Items(s)
  PROVE  /\ <<x>> \o s \in Seq(C)
         /\ Injective(<<x>> \o s)
         /\ Items(<<x>> \o s) = Items(s) \cup {x}
         /\ \A y, z : Before(s, y, z) => Before(<<x>> \o s, y, z)
         /\ \A y \in Items(s) : Before(<<x>> \o s, x, y)
<1> DEFINE u == <<x>> \o s
<1>1. u \in Seq(C) /\ Len(s) \in Nat /\ Len(u) = Len(s) + 1 /\ u[1] = x
  OBVIOUS
<1>2. \A i \in 1 .. Len(s) : u[i + 1] = s[i]
  OBVIOUS
<1> HIDE DEF u
<1>3. \A i \in 1 .. Len(s) : i + 1 \in 1 .. Len(u) /\ 1 < i + 1
  BY <1>1
<1>4. \A i \in 1 .. Len(u) : i = 1 \/ (i - 1 \in 1 .. Len(s) /\ u[i] = s[i - 1])
  BY <1>1, <1>2
<1>5. \A i \in 1 .. Len(s) : s[i] # x
  BY DEF Items
<1>6. Injective(u)
  <2> SUFFICES ASSUME NEW i \in 1 .. Len(u), NEW j \in 1 .. Len(u), u[i] = u[j] PROVE i = j
    BY DEF Injective
  <2>1. CASE i = 1 \/ j = 1
    BY <1>1, <1>4, <1>5, <2>1
  <2>2. CASE i # 1 /\ j # 1
    <3>1. i - 1 = j - 1
      BY <1>4, <2>2 DEF Injective
    <3> QED BY <3>1
  <2> QED BY <2>1, <2>2
<1>7. ASSUME NEW y \in Items(u) PROVE y \in Items(s) \cup {x}
  BY <1>1, <1>4, <1>7 DEF Items
<1>8. ASSUME NEW y \in Items(s) PROVE y \in Items(u) /\ Before(u, x, y)
  <2>1. PICK i \in 1 .. Len(s) : y = s[i]
    BY <1>8 DEF Items
  <2>2. 1 \in 1 .. Len(u) /\ i + 1 \in 1 .. Len(u) /\ 1 < i + 1 /\ u[i + 1] = y
    BY <1>1, <1>2, <1>3, <2>1
  <2> QED BY <1>1, <2>2 DEF Items, Before
<1>9. x \in Items(u)
  BY <1>1 DEF Items
<1>10. ASSUME NEW y, NEW z, Before(s, y, z) PROVE Before(u, y, z)
  <2>1. PICK i, j \in 1 .. Len(s) : i < j /\ s[i] = y /\ s[j] = z
    BY <1>10 DEF Before
  <2>2. i + 1 < j + 1 /\ i + 1 \in 1 .. Len(u) /\ j + 1 \in 1 .. Len(u)
        /\ u[i + 1] = y /\ u[j + 1] = z
    BY <1>2, <1>3, <2>1
  <2> QED BY <2>2 DEF Before
<1> QED BY <1>1, <1>6, <1>7, <1>8, <1>9, <1>10 DEF u

LEMMA BeforeItems ==
  ASSUME NEW s, NEW x, NEW y, Before(s, x, y)
  PROVE  x \in Items(s) /\ y \in Items(s)
BY DEF Before, Items

LEMMA BeforeOrder ==
  ASSUME NEW C, NEW s \in Seq(C), Injective(s)
  PROVE  /\ \A x, y : Before(s, x, y) => x # y /\ ~ Before(s, y, x)
         /\ \A x, y, z : Before(s, x, y) /\ Before(s, y, z) => Before(s, x, z)
<1>1. ASSUME NEW x, NEW y, Before(s, x, y) PROVE x # y /\ ~ Before(s, y, x)
  BY <1>1 DEF Before, Injective
<1>2. ASSUME NEW x, NEW y, NEW z, Before(s, x, y), Before(s, y, z) PROVE Before(s, x, z)
  BY <1>2 DEF Before, Injective
<1> QED BY <1>1, <1>2

LEMMA ConnectInv ==
  ASSUME NetInv, NEW x \in Locals, Connect(x)
  PROVE  NetInv'
<1> USE DEF NetInv, Connect, counts, links, peers
<1>1. x \in Clients /\ x \notin Remotes /\ x \notin exit_list /\ status[x] = "free"
  BY NetworkAssumption DEF Clients, Placed
<1>2. \A z \in Clients : status'[z] = IF z = x THEN "unknown" ELSE status[z]
  BY <1>1 DEF TypesOK
<1>3. Hosts' = Hosts /\ \A z \in Clients : IsPerson(z)' <=> IsPerson(z)
  BY <1>1, <1>2 DEF Hosts, IsServer, IsPerson
<1>4. x \notin Items(GlobalClientList)
  BY <1>1 DEF Ordered
<1>5. TypesOK'
  BY <1>1 DEF TypesOK, Statuses
<1>6. Placed'
  <2>1. \A z \in Clients : from'[z] = IF z = x THEN x ELSE from[z]
    BY <1>1 DEF TypesOK
  <2>2. \A z \in Hosts : z # x /\ z \in Clients
    BY <1>1 DEF Hosts, IsServer
  <2> QED BY <1>1, <1>2, <1>3, <2>1, <2>2 DEF Placed, Clients
<1>7. Linked'
  BY <1>1, <1>2, <1>3 DEF Linked, TypesOK, Clients, Idle
<1>8. Ordered'
  <2>1. GlobalClientList \in Seq(Clients) /\ Injective(GlobalClientList)
    BY DEF TypesOK, Ordered
  <2>2. GlobalClientList' = <<x>> \o GlobalClientList /\ servptr' = servptr
    OBVIOUS
  <2>3. /\ Injective(<<x>> \o GlobalClientList)
        /\ Items(<<x>> \o GlobalClientList) = Items(GlobalClientList) \cup {x}
        /\ \A y, z : Before(GlobalClientList, y, z) => Before(<<x>> \o GlobalClientList, y, z)
    BY <1>1, <1>4, <2>1, ConsProperties
  <2>4. Items(GlobalClientList') = {z \in Clients : status'[z] # "free"}
    BY <1>1, <1>2, <2>2, <2>3 DEF Ordered
  <2>5. ASSUME NEW z \in Remotes, status'[z] # "free"
        PROVE  Before(GlobalClientList', z, servptr'[z])
    <3>1. z # x /\ z \in Clients
      BY <1>1 DEF Clients
    <3>2. Before(GlobalClientList, z, servptr[z])
      BY <1>2, <2>5, <3>1 DEF Ordered
    <3> QED BY <2>2, <2>3, <3>2
  <2> QED BY <2>2, <2>3, <2>4, <2>5 DEF Ordered
<1>9. Splitting'
  BY DEF Splitting, Idle
<1>10. Mirrored'
  BY <1>3 DEF Mirrored, Nodes
<1> QED BY <1>5, <1>6, <1>7, <1>8, <1>9, <1>10

LEMMA RegisterInv ==
  ASSUME NetInv, NEW x \in Locals, register_local_user(x)
  PROVE  NetInv'
<1> USE DEF NetInv, register_local_user, links
<1>1. /\ x \in Clients /\ x \notin Remotes /\ x \notin exit_list /\ status[x] = "unknown"
      /\ Me \in Nodes /\ Me \notin Clients
  BY NetworkAssumption DEF Clients, Nodes
<1>2. /\ \A z \in Clients : status'[z] = IF z = x THEN "person" ELSE status[z]
      /\ \A z \in Clients : servptr'[z] = IF z = x THEN Me ELSE servptr[z]
      /\ \A y \in Nodes : users'[y] = IF y = Me THEN users[y] \cup {x} ELSE users[y]
  BY <1>1 DEF TypesOK
<1>3. /\ Hosts' = Hosts /\ x \notin Hosts
      /\ \A z \in Clients : IsPerson(z)' <=> IsPerson(z) \/ z = x
  BY <1>1, <1>2 DEF Hosts, IsServer, IsPerson
<1>5. TypesOK'
  BY <1>1 DEF TypesOK, Statuses
<1>6. Placed'
  BY <1>1, <1>2, <1>3 DEF Placed, Clients
<1>7. Linked'
  BY <1>1, <1>2, <1>3 DEF Linked, Clients, Idle
<1>8. Ordered'
  BY <1>1, <1>2 DEF Ordered, Clients
<1>9. Splitting'
  BY DEF Splitting, Idle
<1>10. Mirrored'
  <2>1. ~ IsPerson(x)
    BY <1>1 DEF IsPerson
  <2>2. ASSUME NEW y \in Nodes
        PROVE  /\ users'[y] = {z \in Clients : IsPerson(z)' /\ servptr'[z] = y}
               /\ servers[y] = {z \in Hosts : servptr'[z] = y}
    <3>1. users[y] = {z \in Clients : IsPerson(z) /\ servptr[z] = y}
          /\ servers[y] = {z \in Hosts : servptr[z] = y}
      BY DEF Mirrored
    <3>2. \A z \in Hosts : z \in Clients /\ z # x
      BY <1>3 DEF Hosts
    <3> QED BY <1>1, <1>2, <1>3, <2>1, <3>1, <3>2
  <2> QED BY <1>3, <2>2 DEF Mirrored, Nodes
<1> QED BY <1>5, <1>6, <1>7, <1>8, <1>9, <1>10

(* What server_estab does before the burst, whether or not it is refused.  *)
LEMMA EstablishInv ==
  ASSUME NetInv, NEW x \in Locals, Establish(x),
         \/ serv_list' = serv_list \cup {x} /\ UNCHANGED stack
         \/ serv_list' = serv_list /\ stack' = <<x>>
  PROVE  NetInv'
<1> USE DEF NetInv, Establish
<1>1. /\ x \in Clients /\ x \notin Remotes /\ x \notin exit_list /\ status[x] = "unknown"
      /\ Me \in Nodes /\ Me \notin Clients /\ stack = << >>
  BY NetworkAssumption DEF Clients, Nodes, Idle
<1>2. /\ \A z \in Clients : status'[z] = IF z = x THEN "server" ELSE status[z]
      /\ \A z \in Clients : servptr'[z] = IF z = x THEN Me ELSE servptr[z]
      /\ \A y \in Nodes : servers'[y] = IF y = Me THEN servers[y] \cup {x} ELSE servers[y]
  BY <1>1 DEF TypesOK
<1>3. /\ Hosts' = Hosts \cup {x} /\ x \notin Hosts /\ Hosts \subseteq Clients
      /\ \A z \in Clients : IsPerson(z)' <=> IsPerson(z)
  BY <1>1, <1>2 DEF Hosts, IsServer, IsPerson
<1>4. stack' \in Seq(Clients) /\ serv_list' \in SUBSET Locals
  <2>1. <<x>> \in Seq(Clients) /\ serv_list \cup {x} \in SUBSET Locals
    BY <1>1 DEF TypesOK
  <2> QED BY <2>1 DEF TypesOK
<1>5. TypesOK'
  BY <1>1, <1>4 DEF TypesOK, Statuses
<1>6. Placed'
  BY <1>1, <1>2, <1>3 DEF Placed, Clients
<1>7. Linked'
  <2>1. CASE serv_list' = serv_list \cup {x} /\ UNCHANGED stack
    BY <1>1, <1>2, <1>3, <2>1 DEF Linked, Clients, Idle
  <2>2. CASE serv_list' = serv_list /\ stack' = <<x>>
    <3>1. stack'[1] = x /\ stack' # << >>
      BY <2>2
    <3>2. x \notin serv_list
      BY <1>3 DEF Linked
    <3> QED BY <1>1, <1>2, <1>3, <2>2, <3>1, <3>2 DEF Linked, Clients, Idle
  <2> QED BY <2>1, <2>2
<1>8. Ordered'
  BY <1>1, <1>2 DEF Ordered, Clients
<1>9. Splitting'
  BY <1>1, <1>3 DEF Splitting
<1>10. Mirrored'
  <2>2. ASSUME NEW y \in Nodes
        PROVE  /\ users[y] = {z \in Clients : IsPerson(z)' /\ servptr'[z] = y}
               /\ servers'[y] = {z \in Hosts' : servptr'[z] = y}
    <3>1. users[y] = {z \in Clients : IsPerson(z) /\ servptr[z] = y}
          /\ servers[y] = {z \in Hosts : servptr[z] = y}
      BY DEF Mirrored
    <3>2. ~ IsPerson(x)
      BY <1>1 DEF IsPerson
    <3>3. users[y] = {z \in Clients : IsPerson(z)' /\ servptr'[z] = y}
      BY <1>2, <1>3, <3>1, <3>2
    <3>4. servers'[y] = {z \in Hosts' : servptr'[z] = y}
      <4> HIDE DEF NetInv, Establish
      <4>1. ASSUME NEW z PROVE z \in servers'[y] <=> z \in Hosts' /\ servptr'[z] = y
        <5>1. CASE z = x
          BY <1>1, <1>2, <1>3, <3>1, <5>1
        <5>2. CASE z # x
          <6>1. z \in servers'[y] <=> z \in servers[y]
            BY <1>2, <5>2
          <6>2. z \in Clients => servptr'[z] = servptr[z]
            BY <1>2, <5>2
          <6> QED BY <1>3, <3>1, <5>2, <6>1, <6>2
        <5> QED BY <5>1, <5>2
      <4> QED BY <4>1
    <3> QED BY <3>3, <3>4
  <2> QED BY <1>3, <2>2 DEF Mirrored, Nodes
<1> QED BY <1>5, <1>6, <1>7, <1>8, <1>9, <1>10

(* A new remote block on a known server.                                   *)
LEMMA ServerInv ==
  ASSUME NetInv, NEW x \in Remotes, NEW y \in Clients, m_server(x, y)
  PROVE  NetInv'
<1> USE DEF NetInv, m_server
<1>1. /\ x \in Clients /\ x \notin Locals /\ x \notin exit_list /\ status[x] = "free"
      /\ y \in Hosts /\ y \in Nodes /\ stack = << >> /\ y # x /\ status[y] = "server"
  BY NetworkAssumption DEF Clients, Nodes, Idle, TypesOK, Hosts, IsServer
<1>2. /\ \A z \in Clients : status'[z] = IF z = x THEN "server" ELSE status[z]
      /\ \A z \in Clients : servptr'[z] = IF z = x THEN y ELSE servptr[z]
      /\ \A z \in Clients : from'[z] = IF z = x THEN from[y] ELSE from[z]
      /\ \A z \in Nodes : servers'[z] = IF z = y THEN servers[z] \cup {x} ELSE servers[z]
  BY <1>1 DEF TypesOK
<1>3. /\ Hosts' = Hosts \cup {x} /\ x \notin Hosts /\ Hosts \subseteq Clients
      /\ \A z \in Clients : IsPerson(z)' <=> IsPerson(z)
  BY <1>1, <1>2 DEF Hosts, IsServer, IsPerson
<1>4. from[y] \in serv_list /\ from[y] \in Locals \cup {Nil}
  <2>1. CASE y \in Locals
    BY <1>1, <2>1 DEF Linked, Placed, TypesOK, Idle
  <2>2. CASE y \in Remotes
    BY <1>1, <2>2 DEF Linked, TypesOK, Idle
  <2> QED BY <2>1, <2>2 DEF Clients
<1>5. TypesOK'
  BY <1>1, <1>4 DEF TypesOK, Statuses, Nodes
<1>6. Placed'
  BY <1>1, <1>2, <1>3 DEF Placed, Clients
<1>7. Linked'
  BY <1>1, <1>2, <1>3, <1>4 DEF Linked, Clients, Idle
<1>8. Ordered'
  <2>1. x \notin Items(GlobalClientList) /\ y \in Items(GlobalClientList)
    BY <1>1 DEF Ordered
  <2> QED BY <1>1, <1>2, <2>1, ConsProperties DEF Ordered, TypesOK, Clients
<1>9. Splitting'
  BY <1>1 DEF Splitting
<1>10. Mirrored'
  <2>2. ASSUME NEW n \in Nodes
        PROVE  /\ users[n] = {z \in Clients : IsPerson(z)' /\ servptr'[z] = n}
               /\ servers'[n] = {z \in Hosts' : servptr'[z] = n}
    <3>1. users[n] = {z \in Clients : IsPerson(z) /\ servptr[z] = n}
          /\ servers[n] = {z \in Hosts : servptr[z] = n}
      BY DEF Mirrored
    <3>2. ~ IsPerson(x)
      BY <1>1 DEF IsPerson
    <3>3. users[n] = {z \in Clients : IsPerson(z)' /\ servptr'[z] = n}
      BY <1>2, <1>3, <3>1, <3>2
    <3>4. servers'[n] = {z \in Hosts' : servptr'[z] = n}
      <4> HIDE DEF NetInv, m_server
      <4>1. ASSUME NEW z PROVE z \in servers'[n] <=> z \in Hosts' /\ servptr'[z] = n
        <5>1. CASE z = x
          BY <1>1, <1>2, <1>3, <3>1, <5>1
        <5>2. CASE z # x
          <6>1. z \in servers'[n] <=> z \in servers[n]
            BY <1>2, <5>2
          <6>2. z \in Clients => servptr'[z] = servptr[z]
            BY <1>2, <5>2
          <6> QED BY <1>3, <3>1, <5>2, <6>1, <6>2
        <5> QED BY <5>1, <5>2
      <4> QED BY <4>1
    <3> QED BY <3>3, <3>4
  <2> QED BY <1>3, <2>2 DEF Mirrored, Nodes
<1> QED BY <1>5, <1>6, <1>7, <1>8, <1>9, <1>10

LEMMA RemoteUserInv ==
  ASSUME NetInv, NEW x \in Remotes, NEW y \in Clients, do_remote_user(x, y)
  PROVE  NetInv'
<1> USE DEF NetInv, do_remote_user, links
<1>1. /\ x \in Clients /\ x \notin Locals /\ x \notin exit_list /\ status[x] = "free"
      /\ y \in Hosts /\ y \in Nodes /\ stack = << >> /\ y # x /\ status[y] = "server"
  BY NetworkAssumption DEF Clients, Nodes, Idle, TypesOK, Hosts, IsServer
<1>2. /\ \A z \in Clients : status'[z] = IF z = x THEN "person" ELSE status[z]
      /\ \A z \in Clients : servptr'[z] = IF z = x THEN y ELSE servptr[z]
      /\ \A z \in Clients : from'[z] = IF z = x THEN from[y] ELSE from[z]
      /\ \A z \in Nodes : users'[z] = IF z = y THEN users[z] \cup {x} ELSE users[z]
  BY <1>1 DEF TypesOK
<1>3. /\ Hosts' = Hosts /\ x \notin Hosts /\ Hosts \subseteq Clients
      /\ \A z \in Clients : IsPerson(z)' <=> IsPerson(z) \/ z = x
  BY <1>1, <1>2 DEF Hosts, IsServer, IsPerson
<1>4. from[y] \in serv_list /\ from[y] \in Locals \cup {Nil}
  <2>1. CASE y \in Locals
    BY <1>1, <2>1 DEF Linked, Placed, TypesOK, Idle
  <2>2. CASE y \in Remotes
    BY <1>1, <2>2 DEF Linked, TypesOK, Idle
  <2> QED BY <2>1, <2>2 DEF Clients
<1>5. TypesOK'
  BY <1>1, <1>4 DEF TypesOK, Statuses, Nodes
<1>6. Placed'
  BY <1>1, <1>2, <1>3 DEF Placed, Clients
<1>7. Linked'
  BY <1>1, <1>2, <1>3, <1>4 DEF Linked, Clients, Idle
<1>8. Ordered'
  <2>1. x \notin Items(GlobalClientList) /\ y \in Items(GlobalClientList)
    BY <1>1 DEF Ordered
  <2> QED BY <1>1, <1>2, <2>1, ConsProperties DEF Ordered, TypesOK, Clients
<1>9. Splitting'
  BY <1>1 DEF Splitting
<1>10. Mirrored'
  <2>2. ASSUME NEW n \in Nodes
        PROVE  /\ users'[n] = {z \in Clients : IsPerson(z)' /\ servptr'[z] = n}
               /\ servers[n] = {z \in Hosts' : servptr'[z] = n}
    <3>1. users[n] = {z \in Clients : IsPerson(z) /\ servptr[z] = n}
          /\ servers[n] = {z \in Hosts : servptr[z] = n}
      BY DEF Mirrored
    <3>2. ~ IsPerson(x)
      BY <1>1 DEF IsPerson
    <3>3. users'[n] = {z \in Clients : IsPerson(z)' /\ servptr'[z] = n}
      <4> HIDE DEF NetInv, do_remote_user
      <4>1. ASSUME NEW z PROVE z \in users'[n] <=> z \in Clients /\ IsPerson(z)' /\ servptr'[z] = n
        <5>1. CASE z = x
          BY <1>1, <1>2, <1>3, <3>1, <3>2, <5>1
        <5>2. CASE z # x
          <6>1. z \in users'[n] <=> z \in users[n]
            BY <1>2, <5>2
          <6>2. z \in Clients => servptr'[z] = servptr[z]
            BY <1>2, <5>2
          <6> QED BY <1>3, <3>1, <5>2, <6>1, <6>2
        <5> QED BY <5>1, <5>2
      <4> QED BY <4>1
    <3>4. servers[n] = {z \in Hosts' : servptr'[z] = n}
      BY <1>1, <1>2, <1>3, <3>1
    <3> QED BY <3>3, <3>4
  <2> QED BY <1>3, <2>2 DEF Mirrored, Nodes
<1> QED BY <1>5, <1>6, <1>7, <1>8, <1>9, <1>10

LEMMA NoChange ==
  ASSUME NetInv, UNCHANGED <<tree, links, exit_list, stack>>
  PROVE  NetInv'
BY DEF NetInv, tree, links, TypesOK, Placed, Linked, Ordered, Splitting, Mirrored,
       Hosts, IsServer, IsPerson, Idle, Nodes

(* What remove_client_from_list leaves.                                    *)
LEMMA FreeProperties ==
  ASSUME NetInv, NEW gone \in SUBSET Clients, Free(gone)
  PROVE  /\ status' \in [Clients -> Statuses] /\ from' \in [Clients -> Locals \cup {Nil}]
         /\ servptr' \in [Clients -> Nodes \cup {Nil}] /\ GlobalClientList' \in Seq(Clients)
         /\ \A z \in Clients : status'[z] = IF z \in gone THEN "free" ELSE status[z]
         /\ \A z \in Clients \ gone : from'[z] = from[z] /\ servptr'[z] = servptr[z]
         /\ Injective(GlobalClientList')
         /\ Items(GlobalClientList') = Items(GlobalClientList) \ gone
         /\ \A x, y : Before(GlobalClientList, x, y) /\ x \notin gone /\ y \notin gone
               => Before(GlobalClientList', x, y)
<1>1. GlobalClientList \in Seq(Clients) /\ Injective(GlobalClientList)
  BY DEF NetInv, TypesOK, Ordered
<1>2. GlobalClientList' = Kept(GlobalClientList, gone)
  BY DEF Free
<1>3. /\ status' \in [Clients -> Statuses] /\ from' \in [Clients -> Locals \cup {Nil}]
      /\ servptr' \in [Clients -> Nodes \cup {Nil}]
      /\ \A z \in Clients : status'[z] = IF z \in gone THEN "free" ELSE status[z]
      /\ \A z \in Clients \ gone : from'[z] = from[z] /\ servptr'[z] = servptr[z]
  BY DEF Free, NetInv, TypesOK, Statuses
<1> QED BY <1>1, <1>2, <1>3, KeptProperties

LEMMA FreeOne ==
  ASSUME NetInv, NEW x \in Clients, Free({x})
  PROVE  /\ status' \in [Clients -> Statuses] /\ from' \in [Clients -> Locals \cup {Nil}]
         /\ servptr' \in [Clients -> Nodes \cup {Nil}] /\ GlobalClientList' \in Seq(Clients)
         /\ \A z \in Clients : status'[z] = IF z = x THEN "free" ELSE status[z]
         /\ \A z \in Clients : z # x => from'[z] = from[z] /\ servptr'[z] = servptr[z]
         /\ Injective(GlobalClientList')
         /\ Items(GlobalClientList') = Items(GlobalClientList) \ {x}
         /\ \A y, z : Before(GlobalClientList, y, z) /\ y # x /\ z # x
               => Before(GlobalClientList', y, z)
<1> DEFINE gone == {x}
<1>1. \A z : z \in gone <=> z = x
  OBVIOUS
<1>2. gone \in SUBSET Clients /\ Free(gone)
  OBVIOUS
<1> HIDE DEF gone
<1>3. /\ status' \in [Clients -> Statuses] /\ from' \in [Clients -> Locals \cup {Nil}]
      /\ servptr' \in [Clients -> Nodes \cup {Nil}] /\ GlobalClientList' \in Seq(Clients)
  BY <1>2, FreeProperties
<1>4. /\ \A z \in Clients : status'[z] = IF z \in gone THEN "free" ELSE status[z]
      /\ \A z \in Clients \ gone : from'[z] = from[z] /\ servptr'[z] = servptr[z]
  BY <1>2, FreeProperties
<1>5. /\ Injective(GlobalClientList')
      /\ Items(GlobalClientList') = Items(GlobalClientList) \ gone
  BY <1>2, FreeProperties
<1>6. \A y, z : Before(GlobalClientList, y, z) /\ y \notin gone /\ z \notin gone
         => Before(GlobalClientList', y, z)
  BY <1>2, FreeProperties
<1>7. Items(GlobalClientList') = Items(GlobalClientList) \ {x}
  BY <1>5 DEF gone
<1> QED BY <1>1, <1>3, <1>4, <1>5, <1>6, <1>7

(* A remote person is freed: its QUIT, or the split of its server.         *)
LEMMA RemotePersonGone ==
  ASSUME NetInv, NEW x \in Remotes, IsPerson(x), Free({x}),
         users' = [users EXCEPT ![servptr[x]] = @ \ {x}],
         UNCHANGED <<servers, serv_list, global_serv_list, exit_list, stack>>
  PROVE  NetInv'
<1>1. /\ x \in Clients /\ x \notin Locals /\ {x} \in SUBSET Clients /\ status[x] = "person"
      /\ servptr[x] \in Hosts
  BY NetworkAssumption DEF Clients, IsPerson, NetInv, Placed
<1>2. /\ status' \in [Clients -> Statuses] /\ from' \in [Clients -> Locals \cup {Nil}]
      /\ servptr' \in [Clients -> Nodes \cup {Nil}] /\ GlobalClientList' \in Seq(Clients)
      /\ \A z \in Clients : status'[z] = IF z = x THEN "free" ELSE status[z]
      /\ \A z \in Clients : z # x => from'[z] = from[z] /\ servptr'[z] = servptr[z]
      /\ Injective(GlobalClientList')
      /\ Items(GlobalClientList') = Items(GlobalClientList) \ {x}
      /\ \A y, z : Before(GlobalClientList, y, z) /\ y # x /\ z # x
           => Before(GlobalClientList', y, z)
  BY <1>1, FreeOne
<1>3. /\ Hosts' = Hosts /\ x \notin Hosts /\ Hosts \subseteq Clients
      /\ \A z \in Clients : IsPerson(z)' <=> IsPerson(z) /\ z # x
  BY <1>1, <1>2 DEF Hosts, IsServer, IsPerson
<1>4. TypesOK'
  BY <1>2 DEF NetInv, TypesOK
<1>5. Placed'
  BY <1>1, <1>2, <1>3 DEF NetInv, Placed, Clients, TypesOK
<1>6. Linked'
  BY <1>1, <1>2, <1>3 DEF NetInv, Linked, Clients, Idle
<1>7. Ordered'
  BY <1>1, <1>2, <1>3 DEF NetInv, Ordered, Placed, Clients
<1>8. Splitting'
  <2>1. \A i \in 1 .. Len(stack) : stack[i] \in Hosts /\ stack[i] \in Clients /\ stack[i] # x
    BY <1>3 DEF NetInv, Splitting
  <2>2. 2 .. Len(stack) \subseteq 1 .. Len(stack)
    OBVIOUS
  <2> QED BY <1>2, <1>3, <2>1, <2>2 DEF NetInv, Splitting
<1>9. Mirrored'
  <2>1. ASSUME NEW n \in Nodes
        PROVE  /\ users'[n] = {z \in Clients : IsPerson(z)' /\ servptr'[z] = n}
               /\ servers[n] = {z \in Hosts : servptr'[z] = n}
    <3>1. users[n] = {z \in Clients : IsPerson(z) /\ servptr[z] = n}
          /\ servers[n] = {z \in Hosts : servptr[z] = n}
      BY DEF Mirrored, NetInv
    <3>2. users'[n] = users[n] \ {x}
      <4>1. CASE n = servptr[x]
        BY <4>1 DEF NetInv, TypesOK
      <4>2. CASE n # servptr[x]
        BY <3>1, <4>2 DEF NetInv, TypesOK
      <4> QED BY <4>1, <4>2
    <3>3. users'[n] = {z \in Clients : IsPerson(z)' /\ servptr'[z] = n}
      BY <1>2, <1>3, <3>1, <3>2
    <3>4. servers[n] = {z \in Hosts : servptr'[z] = n}
      BY <1>2, <1>3, <3>1
    <3> QED BY <3>3, <3>4
  <2> QED BY <1>3, <2>1 DEF Mirrored, Nodes, NetInv
<1> QED BY <1>4, <1>5, <1>6, <1>7, <1>8, <1>9 DEF NetInv

(* A local client that is no server goes on exit_list.                     *)
LEMMA LocalGone ==
  ASSUME NetInv, NEW x \in Locals, x \notin Hosts, status[x] # "free",
         exit_list' = exit_list \cup {x},
         \/ users' = [users EXCEPT ![Me] = @ \ {x}] /\ IsPerson(x)
         \/ users' = users /\ ~ IsPerson(x),
         UNCHANGED <<status, from, servptr, GlobalClientList, servers, serv_list,
                     global_serv_list, stack>>
  PROVE  NetInv'
<1>1. x \in Clients /\ x \notin Remotes
  BY NetworkAssumption DEF Clients
<1>2. /\ Hosts' = Hosts /\ Hosts \subseteq Clients
      /\ \A z \in Clients : IsPerson(z)' <=> IsPerson(z) /\ z # x
  BY <1>1 DEF Hosts, IsServer, IsPerson
<1>3. users' \in [Nodes -> SUBSET Clients] /\ \A n \in Nodes : users'[n] = users[n] \ {x}
  <2>1. CASE users' = [users EXCEPT ![Me] = @ \ {x}] /\ IsPerson(x)
    <3>1. servptr[x] = Me
      BY <2>1 DEF NetInv, Placed, IsPerson
    <3>2. \A n \in Nodes : n # Me => x \notin users[n]
      BY <3>1 DEF NetInv, Mirrored
    <3> QED BY <2>1, <3>2 DEF NetInv, TypesOK
  <2>2. CASE users' = users /\ ~ IsPerson(x)
    <3>1. \A n \in Nodes : x \notin users[n]
      BY <2>2 DEF NetInv, Mirrored
    <3> QED BY <2>2, <3>1 DEF NetInv, TypesOK
  <2> QED BY <2>1, <2>2
<1>4. TypesOK'
  BY <1>3 DEF NetInv, TypesOK
<1>5. Placed' /\ Linked' /\ Ordered' /\ Splitting'
  BY <1>1, <1>2 DEF NetInv, Placed, Linked, Ordered, Splitting, Idle
<1>6. Mirrored'
  <2>1. ASSUME NEW n \in Nodes
        PROVE  users'[n] = {z \in Clients : IsPerson(z)' /\ servptr[z] = n}
    <3>1. users[n] = {z \in Clients : IsPerson(z) /\ servptr[z] = n}
      BY DEF Mirrored, NetInv
    <3> QED BY <1>2, <1>3, <3>1
  <2> QED BY <1>2, <2>1 DEF Mirrored, Nodes, NetInv
<1> QED BY <1>4, <1>5, <1>6 DEF NetInv

(* Nobody is behind a link that has no users and no servers left.          *)
LEMMA NoneBehind ==
  ASSUME NetInv, NEW t \in Locals, t \in Hosts, users[t] = {}, servers[t] = {}
  PROVE  \A z \in Remotes : status[z] # "free" => from[z] # t
<1> DEFINE G == GlobalClientList
           Z == {z \in Remotes : status[z] # "free" /\ from[z] = t}
           T == {k \in 0 .. Len(G) : Len(G) - k \in 1 .. Len(G) /\ G[Len(G) - k] \in Z}
<1> SUFFICES ASSUME Z # {} PROVE FALSE
  OBVIOUS
<1>0. G \in Seq(Clients) /\ Len(G) \in Nat /\ Injective(G)
  BY DEF NetInv, TypesOK, Ordered
<1>1. T # {}
  <2>1. PICK z : z \in Z
    OBVIOUS
  <2>2. z \in Items(G)
    BY <2>1 DEF NetInv, Ordered, Clients
  <2>3. PICK i \in 1 .. Len(G) : G[i] = z
    BY <2>2 DEF Items
  <2>4. Len(G) - i \in T
    BY <1>0, <2>1, <2>3
  <2> QED BY <2>4
<1>2. PICK k \in T : \A m \in T : k <= m
  <2>1. T \in SUBSET Nat
    BY <1>0
  <2> QED BY <1>1, <2>1, LeastNat
<1> DEFINE i == Len(G) - k
           z == G[i]
           y == servptr[z]
<1>3. i \in 1 .. Len(G) /\ z \in Z /\ z \in Clients
  BY <1>2 DEF Clients
<1>4. y \in Hosts /\ y \in Clients /\ from[y] = t /\ status[y] = "server"
  BY <1>3 DEF NetInv, Placed, Hosts, IsServer
<1>5. y \notin Remotes
  <2> SUFFICES ASSUME y \in Remotes PROVE FALSE
    OBVIOUS
  <2>1. y \in Z
    BY <1>4
  <2>2. Before(G, z, y)
    BY <1>3 DEF NetInv, Ordered
  <2>3. PICK a, b \in 1 .. Len(G) : a < b /\ G[a] = z /\ G[b] = y
    BY <2>2 DEF Before
  <2>4. a = i
    BY <1>0, <1>3, <2>3 DEF Injective
  <2>5. Len(G) - b \in T /\ Len(G) - b < k
    BY <1>0, <1>2, <1>3, <2>1, <2>3, <2>4
  <2> QED BY <1>0, <1>2, <2>3, <2>5
<1>6. y = t
  BY <1>4, <1>5 DEF NetInv, Placed, Clients
<1>7. z \in users[t] \/ z \in servers[t]
  <2>1. z \notin exit_list
    BY <1>3, NetworkAssumption DEF NetInv, TypesOK
  <2>2. status[z] \in {"person", "server"}
    BY <1>3 DEF NetInv, TypesOK, Placed, Statuses
  <2>3. t \in Nodes
    BY DEF Nodes, Clients
  <2> QED BY <1>3, <1>6, <2>1, <2>2, <2>3 DEF NetInv, Mirrored, Hosts, IsServer, IsPerson
<1> QED BY <1>7

LEMMA ExitServerInv ==
  ASSUME NetInv, NEW x \in Clients, NEW by, exit_server(x, by)
  PROVE  NetInv'
<1>1. /\ stack = << >> /\ x \in Hosts /\ serv_list' = serv_list \ {x} /\ stack' = <<x>>
      /\ stack'[1] = x /\ stack' # << >> /\ Len(stack') = 1
      /\ UNCHANGED <<tree, global_serv_list, exit_list>>
  BY DEF exit_server, Idle
<1>2. Hosts' = Hosts /\ \A z \in Clients : IsPerson(z)' <=> IsPerson(z)
  BY <1>1 DEF Hosts, IsServer, IsPerson, tree
<1>3. TypesOK' /\ Placed' /\ Ordered'
  BY <1>1, <1>2 DEF NetInv, TypesOK, Placed, Ordered, tree
<1>4. Linked'
  BY <1>1, <1>2 DEF NetInv, Linked, tree, Idle
<1>5. Splitting'
  BY <1>1, <1>2 DEF Splitting
<1>6. Mirrored'
  BY <1>1, <1>2 DEF NetInv, Mirrored, tree, Nodes
<1> QED BY <1>3, <1>4, <1>5, <1>6 DEF NetInv

LEMMA DescendInv ==
  ASSUME NetInv, exit_recursion_server
  PROVE  NetInv'
<1>1. PICK x \in servers[Top] : stack' = Append(stack, x)
  BY DEF exit_recursion_server
<1>2. stack # << >> /\ UNCHANGED <<tree, links, exit_list>>
  BY DEF exit_recursion_server
<1>3. Len(stack) \in 1 .. Len(stack) /\ Top = stack[Len(stack)] /\ Top \in Clients
  BY <1>2 DEF Top, NetInv, TypesOK
<1>4. x \in Hosts /\ x \in Clients /\ servptr[x] = Top /\ Top \in Hosts
  BY <1>3 DEF NetInv, Mirrored, Splitting, Nodes, Hosts
<1>5. x \in Remotes
  BY <1>3, <1>4, NetworkAssumption DEF NetInv, Placed, Hosts, IsServer, Clients
<1>6. Before(GlobalClientList, x, Top)
  BY <1>4, <1>5 DEF NetInv, Ordered, Hosts, IsServer
<1>7. /\ Len(stack') = Len(stack) + 1 /\ stack' \in Seq(Clients) /\ stack'[Len(stack')] = x
      /\ \A i \in 1 .. Len(stack) : stack'[i] = stack[i]
  BY <1>1, <1>4 DEF NetInv, TypesOK
<1>8. Hosts' = Hosts /\ \A z \in Clients : IsPerson(z)' <=> IsPerson(z)
  BY <1>2 DEF Hosts, IsServer, IsPerson, tree
<1>9. TypesOK' /\ Placed' /\ Ordered' /\ Mirrored'
  BY <1>2, <1>7, <1>8 DEF NetInv, TypesOK, Placed, Ordered, Mirrored, tree, links, Nodes
<1>10. Linked'
  <2>1. stack'[1] = stack[1] /\ stack' # << >>
    BY <1>3, <1>7
  <2> QED BY <1>2, <1>8, <2>1 DEF NetInv, Linked, tree, links, Idle
<1>11. Splitting'
  <2>0. Len(stack) \in Nat /\ \A i \in 1 .. Len(stack') : i = Len(stack') \/ i \in 1 .. Len(stack)
    BY <1>3, <1>7
  <2>1. ASSUME NEW i \in 1 .. Len(stack') PROVE stack'[i] \in Hosts
    BY <1>4, <1>7, <2>0 DEF NetInv, Splitting
  <2>2. ASSUME NEW i \in 2 .. Len(stack') PROVE servptr[stack'[i]] = stack'[i - 1]
    <3>1. CASE i = Len(stack')
      BY <1>3, <1>4, <1>7, <3>1
    <3>2. CASE i # Len(stack')
      <4>1. i \in 2 .. Len(stack) /\ i \in 1 .. Len(stack) /\ i - 1 \in 1 .. Len(stack)
        BY <1>7, <2>0, <3>2
      <4> QED BY <1>7, <4>1 DEF NetInv, Splitting
    <3> QED BY <3>1, <3>2
  <2>3. ASSUME NEW i \in 1 .. Len(stack'), NEW j \in 1 .. Len(stack'), i < j
        PROVE  Before(GlobalClientList, stack'[j], stack'[i])
    <3>0. i \in 1 .. Len(stack) /\ stack'[i] = stack[i]
      BY <1>7, <2>0, <2>3
    <3>1. CASE j = Len(stack')
      <4>1. CASE i = Len(stack)
        BY <1>3, <1>6, <1>7, <3>0, <3>1, <4>1
      <4>2. CASE i # Len(stack)
        <5>1. Before(GlobalClientList, Top, stack[i])
          BY <1>3, <2>0, <3>0, <4>2 DEF NetInv, Splitting
        <5> QED BY <1>6, <1>7, <3>0, <3>1, <5>1, BeforeOrder DEF NetInv, TypesOK, Ordered
      <4> QED BY <4>1, <4>2
    <3>2. CASE j # Len(stack')
      <4>1. j \in 1 .. Len(stack) /\ stack'[j] = stack[j]
        BY <1>7, <2>0, <3>2
      <4> QED BY <2>3, <3>0, <4>1 DEF NetInv, Splitting
    <3> QED BY <3>1, <3>2
  <2> QED BY <1>2, <1>8, <2>1, <2>2, <2>3 DEF Splitting, tree
<1> QED BY <1>9, <1>10, <1>11 DEF NetInv

(* What is left of the calls when the innermost returns.                   *)
LEMMA CallReturns ==
  ASSUME NEW T, NEW s \in Seq(T), NEW n, n = Len(s), n >= 1
  PROVE  /\ SubSeq(s, 1, n - 1) \in Seq(T) /\ Len(SubSeq(s, 1, n - 1)) = n - 1
         /\ \A i \in 1 .. (n - 1) : SubSeq(s, 1, n - 1)[i] = s[i] /\ i \in 1 .. n
<1>1. n \in Nat /\ n - 1 \in Int /\ 1 \in Int
  OBVIOUS
<1>2. \A i \in 1 .. (n - 1) : s[i] \in T
  BY <1>1
<1>3. /\ SubSeq(s, 1, n - 1) \in Seq(T)
      /\ Len(SubSeq(s, 1, n - 1)) = IF 1 <= n - 1 THEN (n - 1) - 1 + 1 ELSE 0
      /\ \A i \in 1 .. (n - 1) - 1 + 1 : SubSeq(s, 1, n - 1)[i] = s[1 + i - 1]
  BY <1>1, <1>2, SubSeqProperties
<1>4. \A i \in 1 .. (n - 1) : 1 + i - 1 = i /\ i \in 1 .. (n - 1) - 1 + 1 /\ i \in 1 .. n
  BY <1>1
<1> QED BY <1>1, <1>3, <1>4

LEMMA ReturnInv ==
  ASSUME NetInv, exit_one_client
  PROVE  NetInv'
<1> DEFINE t == Top
           n == Len(stack)
<1>1. n \in Nat /\ n >= 1 /\ n \in 1 .. n /\ t = stack[n] /\ t \in Clients /\ t \in Nodes
  BY DEF exit_one_client, Top, NetInv, TypesOK, Nodes
<1>2. /\ users[t] = {} /\ servers[t] = {} /\ Dispose(t)
      /\ global_serv_list' = global_serv_list \ {t}
      /\ servers' = [servers EXCEPT ![servptr[t]] = @ \ {t}]
      /\ stack' = SubSeq(stack, 1, n - 1)
      /\ users' = users /\ serv_list' = serv_list
  BY DEF exit_one_client
<1>3. /\ stack' \in Seq(Clients) /\ Len(stack') = n - 1
      /\ \A i \in 1 .. (n - 1) : stack'[i] = stack[i] /\ i \in 1 .. n
  <2>1. stack \in Seq(Clients)
    BY DEF NetInv, TypesOK
  <2> DEFINE r == SubSeq(stack, 1, n - 1)
  <2>2. r \in Seq(Clients) /\ Len(r) = n - 1 /\ \A i \in 1 .. (n - 1) : r[i] = stack[i] /\ i \in 1 .. n
    <3>1. n = Len(stack)
      OBVIOUS
    <3> HIDE DEF n
    <3> QED BY <1>1, <2>1, <3>1, CallReturns
  <2> QED BY <1>2, <2>2
<1>4. t \in Hosts /\ status[t] = "server" /\ t \notin exit_list /\ Hosts \subseteq Clients
  BY <1>1 DEF NetInv, Splitting, Hosts, IsServer
<1>5. \A i \in 1 .. (n - 1) : stack[i] # t /\ stack[i] \in Hosts
  <2> SUFFICES ASSUME NEW i \in 1 .. (n - 1) PROVE stack[i] # t /\ stack[i] \in Hosts
    OBVIOUS
  <2>1. Before(GlobalClientList, t, stack[i]) /\ stack[i] \in Hosts
    BY <1>1 DEF NetInv, Splitting
  <2> QED BY <2>1, BeforeOrder DEF NetInv, TypesOK, Ordered
<1> HIDE DEF t, n
<1>6. \A z \in Clients : (IsPerson(z) \/ z \in Hosts) => servptr[z] # t
  BY <1>1, <1>2 DEF NetInv, Mirrored
<1>7. \A z \in Remotes : status[z] # "free" => z \in Clients /\ (IsPerson(z) \/ z \in Hosts)
  BY NetworkAssumption DEF NetInv, TypesOK, Placed, Clients, Statuses, IsPerson, Hosts, IsServer
<1>8. \A i \in 2 .. (n - 1) : i \in 2 .. n /\ i - 1 \in 1 .. (n - 1) /\ i \in 1 .. (n - 1)
  BY <1>1
<1>9. ASSUME Hosts' = Hosts \ {t}, \A z \in Clients : z # t => servptr'[z] = servptr[z],
             \A z \in Clients : IsPerson(z)' <=> IsPerson(z)
      PROVE  Mirrored'
  <2>1. ASSUME NEW k \in Nodes
        PROVE  /\ users[k] = {z \in Clients : IsPerson(z)' /\ servptr'[z] = k}
               /\ servers'[k] = {z \in Hosts' : servptr'[z] = k}
    <3>1. users[k] = {z \in Clients : IsPerson(z) /\ servptr[z] = k}
          /\ servers[k] = {z \in Hosts : servptr[z] = k}
      BY DEF Mirrored, NetInv
    <3>2. servers'[k] = servers[k] \ {t}
      <4>1. CASE k = servptr[t]
        BY <1>2, <4>1 DEF NetInv, TypesOK
      <4>2. CASE k # servptr[t]
        BY <1>2, <3>1, <4>2 DEF NetInv, TypesOK
      <4> QED BY <4>1, <4>2
    <3>3. ~ IsPerson(t)
      BY <1>4 DEF IsPerson
    <3>4. servers'[k] = {z \in Hosts' : servptr'[z] = k}
      BY <1>4, <1>9, <3>1, <3>2
    <3>5. users[k] = {z \in Clients : IsPerson(z)' /\ servptr'[z] = k}
      BY <1>9, <3>1, <3>3
    <3> QED BY <3>4, <3>5
  <2> QED BY <1>2, <1>9, <2>1 DEF Mirrored, Nodes, NetInv
<1>10. CASE t \in Locals
  <2>1. /\ exit_list' = exit_list \cup {t}
        /\ UNCHANGED <<status, from, servptr, GlobalClientList>>
    BY <1>2, <1>10 DEF Dispose
  <2>2. Hosts' = Hosts \ {t} /\ \A z \in Clients : IsPerson(z)' <=> IsPerson(z)
    BY <1>4, <2>1 DEF Hosts, IsServer, IsPerson
  <2>3. n = 1 /\ stack' = << >>
    <3>1. servptr[t] = Me /\ Me \notin Clients
      BY <1>4, <1>10, NetworkAssumption DEF NetInv, Placed
    <3>2. n # 1 => n \in 2 .. n /\ n - 1 \in 1 .. (n - 1)
      BY <1>1
    <3>3. n # 1 => servptr[t] = stack[n - 1]
      BY <1>1, <3>2 DEF NetInv, Splitting, n
    <3>4. n = 1
      BY <1>4, <1>5, <3>1, <3>2, <3>3
    <3> QED BY <1>3, <3>4
  <2>4. TypesOK'
    BY <1>2, <1>3, <1>10, <2>1 DEF NetInv, TypesOK
  <2>5. Placed'
    BY <1>4, <1>6, <1>7, <2>1, <2>2 DEF NetInv, Placed
  <2>6. Linked'
    <3>1. stack # << >> /\ stack[1] = t
      BY <1>1, <2>3 DEF n
    <3>2. \A z \in Remotes : status[z] # "free" => from[z] # t
      BY <1>2, <1>4, <1>10, NoneBehind
    <3> QED BY <1>2, <2>1, <2>2, <2>3, <3>1, <3>2 DEF NetInv, Linked, Idle
  <2>7. Ordered'
    BY <2>1 DEF NetInv, Ordered
  <2>8. Splitting'
    BY <2>3 DEF Splitting
  <2> QED BY <1>9, <2>1, <2>2, <2>4, <2>5, <2>6, <2>7, <2>8 DEF NetInv
<1>11. CASE t \in Remotes
  <2>0. t \notin Locals /\ t # Nil /\ Free({t}) /\ exit_list' = exit_list
    BY <1>1, <1>2, <1>11, NetworkAssumption DEF Dispose
  <2>1. /\ status' \in [Clients -> Statuses] /\ from' \in [Clients -> Locals \cup {Nil}]
        /\ servptr' \in [Clients -> Nodes \cup {Nil}] /\ GlobalClientList' \in Seq(Clients)
        /\ \A z \in Clients : status'[z] = IF z = t THEN "free" ELSE status[z]
        /\ \A z \in Clients : z # t => from'[z] = from[z] /\ servptr'[z] = servptr[z]
        /\ Injective(GlobalClientList')
        /\ Items(GlobalClientList') = Items(GlobalClientList) \ {t}
        /\ \A y, z : Before(GlobalClientList, y, z) /\ y # t /\ z # t
             => Before(GlobalClientList', y, z)
    BY <1>1, <2>0, FreeOne
  <2>2. Hosts' = Hosts \ {t} /\ \A z \in Clients : IsPerson(z)' <=> IsPerson(z)
    BY <1>4, <2>0, <2>1 DEF Hosts, IsServer, IsPerson
  <2>3. TypesOK'
    <3>1. servers' \in [Nodes -> SUBSET Clients]
      BY <1>2 DEF NetInv, TypesOK
    <3> QED BY <1>2, <1>3, <2>0, <2>1, <3>1 DEF NetInv, TypesOK
  <2>4. Placed'
    <3>1. ASSUME NEW z \in Locals
          PROVE  /\ status'[z] # "free" => from'[z] = z
                 /\ status'[z] \in {"person", "server"} => servptr'[z] = Me
      BY <2>0, <2>1 DEF NetInv, Placed, Clients
    <3>2. \A z \in exit_list' : status'[z] # "free"
      BY <2>0, <2>1 DEF NetInv, Placed, TypesOK, Clients
    <3>3. ASSUME NEW z \in Remotes
          PROVE  /\ status'[z] # "unknown"
                 /\ status'[z] # "free" => servptr'[z] \in Hosts' /\ from'[z] = from'[servptr'[z]]
      <4>1. z \in Clients
        BY DEF Clients
      <4>2. CASE status'[z] = "free"
        BY <4>2
      <4>3. CASE status'[z] # "free"
        <5>1. z # t /\ status[z] # "free" /\ servptr[z] # t
          BY <1>6, <1>7, <2>1, <4>1, <4>3
        <5>2. servptr[z] \in Hosts /\ from[z] = from[servptr[z]] /\ status[z] # "unknown"
          BY <5>1 DEF NetInv, Placed
        <5> QED BY <1>4, <2>1, <2>2, <4>1, <5>1, <5>2
      <4> QED BY <4>2, <4>3
    <3> QED BY <3>1, <3>2, <3>3 DEF Placed
  <2>5. Linked'
    <3>1. CASE n = 1
      <4>1. stack' = << >> /\ stack # << >> /\ stack[1] = t
        BY <1>1, <1>3, <3>1 DEF n
      <4>2. \A z \in Remotes : status[z] # "free" => from[z] \in serv_list
        BY <2>0, <4>1 DEF NetInv, Linked, TypesOK, Clients
      <4>3. \A z \in Locals \cap Hosts : z \in serv_list
        BY <2>0, <4>1 DEF NetInv, Linked
      <4> QED BY <1>2, <2>0, <2>1, <2>2, <4>1, <4>2, <4>3 DEF NetInv, Linked, Idle, Clients, TypesOK
    <3>2. CASE n # 1
      <4>1. stack' # << >> /\ stack # << >> /\ stack'[1] = stack[1]
        BY <1>1, <1>3, <3>2 DEF n
      <4> QED BY <1>2, <2>0, <2>1, <2>2, <4>1 DEF NetInv, Linked, Idle, Clients, TypesOK
    <3> QED BY <3>1, <3>2
  <2>6. Ordered'
    <3>1. \A z \in Remotes : status'[z] # "free" => Before(GlobalClientList', z, servptr'[z])
      <4> SUFFICES ASSUME NEW z \in Remotes, status'[z] # "free"
                   PROVE  Before(GlobalClientList', z, servptr'[z])
        OBVIOUS
      <4>1. z \in Clients /\ z # t /\ status[z] # "free" /\ servptr[z] # t
        BY <1>6, <1>7, <2>1 DEF Clients
      <4> QED BY <2>1, <4>1 DEF NetInv, Ordered
    <3> QED BY <2>1, <3>1 DEF NetInv, Ordered
  <2>7. Splitting'
    <3>1. \A i \in 1 .. (n - 1) : stack[i] \in Clients
      BY <1>4, <1>5
    <3>2. \A i \in 2 .. (n - 1) : servptr[stack[i]] = stack[i - 1]
      BY <1>8 DEF NetInv, Splitting, n
    <3>3. \A i, j \in 1 .. (n - 1) : i < j => Before(GlobalClientList, stack[j], stack[i])
      BY <1>3 DEF NetInv, Splitting, n
    <3> QED BY <1>3, <1>5, <1>8, <2>1, <2>2, <3>1, <3>2, <3>3 DEF Splitting
  <2> QED BY <1>9, <2>1, <2>2, <2>3, <2>4, <2>5, <2>6, <2>7 DEF NetInv
<1> QED BY <1>1, <1>10, <1>11 DEF Clients

LEMMA RemoveInv ==
  ASSUME NetInv, remove_exited_clients
  PROVE  NetInv'
<1> DEFINE gone == exit_list
<1>1. /\ gone \in SUBSET Locals /\ gone \in SUBSET Clients /\ Free(gone) /\ exit_list' = {}
      /\ gone \cap Remotes = {} /\ stack = << >>
      /\ UNCHANGED <<users, servers, links, stack>>
  BY NetworkAssumption DEF remove_exited_clients, NetInv, TypesOK, Clients, Idle
<1> HIDE DEF gone
<1>2. /\ status' \in [Clients -> Statuses] /\ from' \in [Clients -> Locals \cup {Nil}]
      /\ servptr' \in [Clients -> Nodes \cup {Nil}] /\ GlobalClientList' \in Seq(Clients)
      /\ Injective(GlobalClientList')
      /\ Items(GlobalClientList') = Items(GlobalClientList) \ gone
  BY <1>1, FreeProperties
<1>3. /\ \A z \in Clients : status'[z] = IF z \in gone THEN "free" ELSE status[z]
      /\ \A z \in Clients \ gone : from'[z] = from[z] /\ servptr'[z] = servptr[z]
  BY <1>1, FreeProperties
<1>4. \A x, y : Before(GlobalClientList, x, y) /\ x \notin gone /\ y \notin gone
        => Before(GlobalClientList', x, y)
  BY <1>1, FreeProperties
<1>5. /\ Hosts' = Hosts /\ \A z \in Hosts : z \in Clients \ gone
      /\ \A z \in Clients : IsPerson(z)' <=> IsPerson(z)
      /\ \A z \in Clients : IsPerson(z) => z \notin gone
  BY <1>1, <1>3 DEF Hosts, IsServer, IsPerson, gone
<1>6. \A z \in Remotes : z \in Clients \ gone
  BY <1>1 DEF Clients
<1>7. TypesOK'
  BY <1>1, <1>2 DEF NetInv, TypesOK, links
<1>8. Placed'
  <2>1. \A z \in Locals : status'[z] # "free" => z \in Clients \ gone
    BY <1>3 DEF Clients
  <2> QED BY <1>1, <1>3, <1>5, <1>6, <2>1 DEF NetInv, Placed, Clients
<1>9. Linked'
  BY <1>1, <1>3, <1>5, <1>6 DEF NetInv, Linked, links, Idle
<1>10. Ordered'
  <2>1. ASSUME NEW z \in Remotes, status'[z] # "free"
        PROVE  Before(GlobalClientList', z, servptr'[z])
    <3>1. status[z] # "free" /\ servptr'[z] = servptr[z] /\ z \notin gone
      BY <1>3, <1>6, <2>1
    <3>2. servptr[z] \in Hosts /\ Before(GlobalClientList, z, servptr[z])
      BY <3>1 DEF NetInv, Placed, Ordered
    <3> QED BY <1>4, <1>5, <3>1, <3>2
  <2> QED BY <1>2, <1>3, <2>1 DEF NetInv, Ordered
<1>11. Splitting'
  BY <1>1 DEF Splitting
<1>12. Mirrored'
  <2>1. ASSUME NEW n \in Nodes
        PROVE  /\ users[n] = {z \in Clients : IsPerson(z)' /\ servptr'[z] = n}
               /\ servers[n] = {z \in Hosts : servptr'[z] = n}
    <3>1. users[n] = {z \in Clients : IsPerson(z) /\ servptr[z] = n}
          /\ servers[n] = {z \in Hosts : servptr[z] = n}
      BY DEF Mirrored, NetInv
    <3> QED BY <1>3, <1>5, <3>1
  <2> QED BY <1>1, <1>5, <2>1 DEF Mirrored, Nodes, NetInv, links
<1> QED BY <1>7, <1>8, <1>9, <1>10, <1>11, <1>12 DEF NetInv

LEMMA ExitUnknownInv ==
  ASSUME NetInv, NEW x \in Locals, exit_unknown(x)
  PROVE  NetInv'
<1>1. status[x] = "unknown" /\ x \notin Hosts /\ ~ IsPerson(x)
  BY DEF exit_unknown, Hosts, IsServer, IsPerson
<1>2. /\ exit_list' = exit_list \cup {x} /\ users' = users
      /\ UNCHANGED <<status, from, servptr, GlobalClientList, servers, serv_list,
                     global_serv_list, stack>>
  BY DEF exit_unknown, Dispose, links
<1> QED BY <1>1, <1>2, LocalGone

LEMMA ExitPersonInv ==
  ASSUME NetInv, NEW x \in Clients, exit_person(x)
  PROVE  NetInv'
<1>1. /\ IsPerson(x) /\ users' = [users EXCEPT ![servptr[x]] = @ \ {x}] /\ Dispose(x)
      /\ UNCHANGED <<servers, serv_list, global_serv_list, stack>>
  BY DEF exit_person, ExitPerson, links
<1>2. CASE x \in Locals
  <2>1. x \notin Hosts /\ status[x] # "free" /\ servptr[x] = Me
    BY <1>1, <1>2 DEF IsPerson, Hosts, IsServer, NetInv, Placed
  <2>2. exit_list' = exit_list \cup {x} /\ UNCHANGED <<status, from, servptr, GlobalClientList>>
    BY <1>1, <1>2 DEF Dispose
  <2> QED BY <1>1, <1>2, <2>1, <2>2, LocalGone
<1>3. CASE x \in Remotes
  <2>1. Free({x}) /\ exit_list' = exit_list
    BY <1>1, <1>3, NetworkAssumption DEF Dispose
  <2> QED BY <1>1, <1>3, <2>1, RemotePersonGone
<1> QED BY <1>2, <1>3 DEF Clients

LEMMA SplitUserInv ==
  ASSUME NetInv, exit_recursion_user
  PROVE  NetInv'
<1>1. PICK x \in users[Top] : ExitPerson(x) /\ Free({x})
  BY DEF exit_recursion_user
<1>2. /\ users' = [users EXCEPT ![servptr[x]] = @ \ {x}]
      /\ UNCHANGED <<servers, serv_list, global_serv_list, exit_list, stack>>
  BY <1>1 DEF exit_recursion_user, ExitPerson, links
<1>3. Top \in Clients
  BY DEF exit_recursion_user, Top, NetInv, TypesOK
<1>4. x \in Clients /\ IsPerson(x) /\ servptr[x] = Top
  BY <1>3 DEF NetInv, Mirrored, Nodes
<1>5. x \in Remotes
  BY <1>3, <1>4, NetworkAssumption DEF NetInv, Placed, IsPerson, Clients
<1> QED BY <1>1, <1>2, <1>4, <1>5, RemotePersonGone

LEMMA NetInvNext == NetInv /\ [Next]_vars => NetInv'
<1> SUFFICES ASSUME NetInv, [Next]_vars PROVE NetInv'
  OBVIOUS
<1>1. CASE UNCHANGED vars
  BY <1>1, NoChange DEF vars
<1>2. ASSUME NEW x \in Locals, server_estab(x) PROVE NetInv'
  BY <1>2, EstablishInv DEF server_estab
<1>3. ASSUME NEW x \in Locals, server_estab_overridden(x) PROVE NetInv'
  BY <1>3, EstablishInv DEF server_estab_overridden
<1>4. ASSUME NEW l \in Locals, NEW y \in Nodes, wrong_direction(l, y) PROVE NetInv'
  BY <1>4, NoChange DEF wrong_direction
<1>5. CASE exit_recursion
  BY <1>5, SplitUserInv, DescendInv, ReturnInv DEF exit_recursion
<1>6. CASE Next
  BY <1>2, <1>3, <1>4, <1>5, <1>6, ConnectInv, RegisterInv, ExitUnknownInv, ServerInv,
     RemoteUserInv, ExitPersonInv, ExitServerInv, RemoveInv DEF Next
<1> QED BY <1>1, <1>6

(* In every state, in the middle of a netsplit too, the lists of every     *)
(* server mirror servptr, GlobalClientList and global_serv_list hold what  *)
(* is there, and no client stays behind a link that is gone.               *)
THEOREM TreeAlwaysMirrored == Spec => []TreeMirrored
BY NetInvInit, NetInvNext, NetInvTree, PTL DEF Spec
-----------------------------------------------------------------------------
(* The counters.                                                           *)

People == {x \in Clients : IsPerson(x)}

CountRecords == [total : Int, local : Int, server : Int, myserver : Int]

CountTypes ==
  /\ usercnt \in [Nodes -> Int] /\ servercnt \in [Nodes -> Int]
  /\ astray \in [Nodes -> Int]
  /\ Count \in CountRecords

(* CountersAgree for every node, with global_serv_list in place of Hosts:  *)
(* a block that is no server has no lists, and counters of zero.           *)
CountInv ==
  /\ CountTypes
  /\ \A y \in Nodes : /\ usercnt[y] + astray[y] = Cardinality(users[y])
                      /\ servercnt[y] = Cardinality(servers[y])
  /\ Count.total = Cardinality(People)
  /\ Count.local = Cardinality(users[Me])
  /\ Count.server = Cardinality(global_serv_list)
  /\ Count.myserver = Cardinality(serv_list)

LEMMA CountInvAgree == NetInv /\ CountInv => CountersAgree
BY DEF NetInv, Mirrored, CountInv, CountersAgree, People, Hosts, Nodes

LEMMA CountInvInit == Init => CountInv
<1> SUFFICES ASSUME Init PROVE CountInv
  OBVIOUS
<1>1. Cardinality({}) = 0
  BY FS_EmptySet
<1>2. People = {}
  BY DEF Init, People, IsPerson
<1>3. CountTypes /\ Me \in Nodes
  BY DEF Init, CountTypes, CountRecords, Nodes
<1> QED BY <1>1, <1>2, <1>3 DEF Init, CountInv

LEMMA Sizes ==
  ASSUME NEW S \in SUBSET Clients, NEW x
  PROVE  /\ Cardinality(S) \in Nat
         /\ Cardinality(S \cup {x}) = IF x \in S THEN Cardinality(S) ELSE Cardinality(S) + 1
         /\ Cardinality(S \ {x}) = IF x \in S THEN Cardinality(S) - 1 ELSE Cardinality(S)
<1>1. IsFiniteSet(Clients)
  BY NetworkAssumption, FS_Union DEF Clients
<1>2. IsFiniteSet(S)
  BY <1>1, FS_Subset
<1> QED BY <1>2, FS_CardinalityType, FS_AddElement, FS_RemoveElement

(* The values of the counters after a step.                                *)
CountsTo(total, local, server, myserver) ==
  /\ Count' \in CountRecords
  /\ Count'.total = total /\ Count'.local = local
  /\ Count'.server = server /\ Count'.myserver = myserver

(* A person is taken off the list of its server, and out of all counters.  *)
LEMMA PersonUncounted ==
  ASSUME NetInv, CountInv, NEW x \in Clients, IsPerson(x), ExitPerson(x),
         CountsTo(Count.total - 1, IF x \in Locals THEN Count.local - 1 ELSE Count.local,
                  Count.server, Count.myserver),
         People' = People \ {x}
  PROVE  CountInv'
<1> DEFINE y == servptr[x]
<1>1. y \in Nodes /\ (y = Me <=> x \in Locals) /\ Me \in Nodes
  BY NetworkAssumption DEF NetInv, Placed, IsPerson, Clients, Hosts, Nodes
<1>2. x \in users[y] /\ x \in People
  BY <1>1 DEF NetInv, Mirrored, People
<1> HIDE DEF y
<1>3. /\ users' = [users EXCEPT ![y] = @ \ {x}]
      /\ usercnt' = [usercnt EXCEPT ![y] = @ - 1]
      /\ UNCHANGED <<servers, servercnt, astray, serv_list, global_serv_list>>
  BY DEF ExitPerson, links, y
<1>4. /\ users[y] \in SUBSET Clients /\ People \in SUBSET Clients
      /\ \A z \in Nodes : users'[z] = IF z = y THEN users[y] \ {x} ELSE users[z]
      /\ \A z \in Nodes : usercnt'[z] = IF z = y THEN usercnt[y] - 1 ELSE usercnt[z]
  BY <1>1, <1>3 DEF NetInv, TypesOK, People, CountInv, CountTypes
<1>5. Cardinality(users[y] \ {x}) = Cardinality(users[y]) - 1 /\ Cardinality(users[y]) \in Nat
  BY <1>2, <1>4, Sizes
<1>6. Cardinality(People \ {x}) = Cardinality(People) - 1
  BY <1>2, <1>4, Sizes
<1>7. CountTypes'
  <2>1. usercnt' \in [Nodes -> Int]
    BY <1>1, <1>3 DEF CountInv, CountTypes
  <2> QED BY <1>3, <2>1 DEF CountsTo, CountInv, CountTypes
<1>8. \A z \in Nodes : usercnt'[z] + astray'[z] = Cardinality(users'[z])
  <2> TAKE z \in Nodes
  <2>1. usercnt[z] \in Int /\ astray[z] \in Int /\ astray'[z] = astray[z]
        /\ usercnt[z] + astray[z] = Cardinality(users[z])
    BY <1>3 DEF CountInv, CountTypes
  <2>2. CASE z = y
    <3>1. usercnt'[z] = usercnt[z] - 1 /\ users'[z] = users[y] \ {x}
      BY <1>4, <2>2
    <3>2. Cardinality(users'[z]) = (usercnt[z] + astray[z]) - 1
      BY <1>5, <2>1, <2>2, <3>1
    <3> QED BY <2>1, <3>1, <3>2
  <2>3. CASE z # y
    BY <1>4, <2>1, <2>3
  <2> QED BY <2>2, <2>3
<1>9. Count'.local = Cardinality(users'[Me])
  BY <1>1, <1>4, <1>5 DEF CountsTo, CountInv
<1> QED BY <1>3, <1>6, <1>7, <1>8, <1>9 DEF CountsTo, CountInv

(* A person on y is counted.                                               *)
LEMMA PersonCounted ==
  ASSUME NetInv, CountInv, NEW x \in Clients, NEW y \in Nodes, ~ IsPerson(x),
         users' = [users EXCEPT ![y] = @ \cup {x}],
         usercnt' = [usercnt EXCEPT ![y] = @ + 1],
         CountsTo(Count.total + 1, IF y = Me THEN Count.local + 1 ELSE Count.local,
                  Count.server, Count.myserver),
         People' = People \cup {x},
         UNCHANGED <<servers, servercnt, astray, serv_list, global_serv_list>>
  PROVE  CountInv'
<1>1. Me \in Nodes /\ x \notin users[y] /\ x \notin People
  BY DEF NetInv, Mirrored, People, Nodes
<1>4. /\ users[y] \in SUBSET Clients /\ People \in SUBSET Clients
      /\ \A z \in Nodes : users'[z] = IF z = y THEN users[y] \cup {x} ELSE users[z]
      /\ \A z \in Nodes : usercnt'[z] = IF z = y THEN usercnt[y] + 1 ELSE usercnt[z]
  BY DEF NetInv, TypesOK, People, CountInv, CountTypes
<1>5. Cardinality(users[y] \cup {x}) = Cardinality(users[y]) + 1 /\ Cardinality(users[y]) \in Nat
  BY <1>1, <1>4, Sizes
<1>6. Cardinality(People \cup {x}) = Cardinality(People) + 1
  BY <1>1, <1>4, Sizes
<1>7. CountTypes'
  <2>1. usercnt' \in [Nodes -> Int]
    BY DEF CountInv, CountTypes
  <2> QED BY <2>1 DEF CountsTo, CountInv, CountTypes
<1>8. \A z \in Nodes : usercnt'[z] + astray'[z] = Cardinality(users'[z])
  <2> TAKE z \in Nodes
  <2>1. usercnt[z] \in Int /\ astray[z] \in Int /\ astray'[z] = astray[z]
        /\ usercnt[z] + astray[z] = Cardinality(users[z])
    BY DEF CountInv, CountTypes
  <2>2. CASE z = y
    <3>1. usercnt'[z] = usercnt[z] + 1 /\ users'[z] = users[y] \cup {x}
      BY <1>4, <2>2
    <3>2. Cardinality(users'[z]) = (usercnt[z] + astray[z]) + 1
      BY <1>5, <2>1, <2>2, <3>1
    <3> QED BY <2>1, <3>1, <3>2
  <2>3. CASE z # y
    BY <1>4, <2>1, <2>3
  <2> QED BY <2>2, <2>3
<1>9. Count'.local = Cardinality(users'[Me])
  BY <1>1, <1>4, <1>5 DEF CountsTo, CountInv
<1> QED BY <1>6, <1>7, <1>8, <1>9 DEF CountsTo, CountInv

(* A server on y is counted, and a link that stays as a link.              *)
LEMMA ServerCounted ==
  ASSUME NetInv, CountInv, NEW x \in Clients, NEW y \in Nodes, x \notin Hosts,
         NEW linked \in BOOLEAN,
         servers' = [servers EXCEPT ![y] = @ \cup {x}],
         servercnt' = [servercnt EXCEPT ![y] = @ + 1],
         global_serv_list' = global_serv_list \cup {x},
         serv_list' = IF linked THEN serv_list \cup {x} ELSE serv_list,
         CountsTo(Count.total, Count.local, Count.server + 1,
                  IF linked THEN Count.myserver + 1 ELSE Count.myserver),
         People' = People, UNCHANGED <<users, usercnt, astray>>
  PROVE  CountInv'
<1>1. /\ x \notin servers[y] /\ x \notin global_serv_list /\ x \notin serv_list
      /\ servers[y] \in SUBSET Clients /\ global_serv_list \in SUBSET Clients
      /\ serv_list \in SUBSET Clients
  BY DEF NetInv, TypesOK, Mirrored, Linked, Clients
<1>2. /\ \A z \in Nodes : servers'[z] = IF z = y THEN servers[y] \cup {x} ELSE servers[z]
      /\ \A z \in Nodes : servercnt'[z] = IF z = y THEN servercnt[y] + 1 ELSE servercnt[z]
  BY DEF NetInv, TypesOK, CountInv, CountTypes
<1>3. Cardinality(servers[y] \cup {x}) = Cardinality(servers[y]) + 1
  BY <1>1, Sizes
<1>4. Cardinality(global_serv_list \cup {x}) = Cardinality(global_serv_list) + 1
  BY <1>1, Sizes
<1>5. Cardinality(serv_list \cup {x}) = Cardinality(serv_list) + 1
  BY <1>1, Sizes
<1>6. CountTypes'
  <2>1. servercnt' \in [Nodes -> Int]
    BY DEF CountInv, CountTypes
  <2> QED BY <2>1 DEF CountsTo, CountInv, CountTypes
<1>7. \A z \in Nodes : servercnt'[z] = Cardinality(servers'[z])
  BY <1>2, <1>3 DEF CountInv
<1>8. Count'.myserver = Cardinality(serv_list')
  BY <1>5 DEF CountsTo, CountInv
<1> QED BY <1>4, <1>6, <1>7, <1>8 DEF CountsTo, CountInv
LEMMA RecountPeople ==
  ASSUME CountInv, NEW a \in Int, NEW b \in Int,
         Count' = [Count EXCEPT !.total = a, !.local = b]
  PROVE  CountsTo(a, b, Count.server, Count.myserver)
<1>1. Count \in CountRecords
  BY DEF CountInv, CountTypes
<1> QED BY <1>1 DEF CountsTo, CountRecords

LEMMA RecountServers ==
  ASSUME CountInv, NEW a \in Int, NEW b \in Int,
         Count' = [Count EXCEPT !.server = a, !.myserver = b]
  PROVE  CountsTo(Count.total, Count.local, a, b)
<1>1. Count \in CountRecords
  BY DEF CountInv, CountTypes
<1> QED BY <1>1 DEF CountsTo, CountRecords

LEMMA RecountOne ==
  ASSUME CountInv, NEW a \in Int
  PROVE  /\ Count' = [Count EXCEPT !.total = a] =>
              CountsTo(a, Count.local, Count.server, Count.myserver)
         /\ Count' = [Count EXCEPT !.server = a] =>
              CountsTo(Count.total, Count.local, a, Count.myserver)
         /\ Count' = [Count EXCEPT !.myserver = a] =>
              CountsTo(Count.total, Count.local, Count.server, a)
BY DEF CountInv, CountTypes, CountsTo, CountRecords

LEMMA CountIntegers ==
  ASSUME CountInv
  PROVE  Count.total \in Int /\ Count.local \in Int /\ Count.server \in Int
         /\ Count.myserver \in Int
BY DEF CountInv, CountTypes, CountRecords

(* Steps that count nobody.                                                *)
LEMMA SameCounts ==
  ASSUME CountInv, People' = People,
         UNCHANGED <<usercnt, astray, servercnt, Count, users, servers, links>>
  PROVE  CountInv'
BY DEF CountInv, CountTypes, CountRecords, links

LEMMA ConnectCounts ==
  ASSUME NetInv, CountInv, NEW x \in Locals, Connect(x)
  PROVE  CountInv'
<1>1. \A z \in Clients : IsPerson(z)' <=> IsPerson(z)
  BY DEF Connect, IsPerson, NetInv, TypesOK, Clients
<1> QED BY <1>1, SameCounts DEF Connect, People, counts, links

LEMMA RegisterCounts ==
  ASSUME NetInv, CountInv, NEW x \in Locals, register_local_user(x)
  PROVE  CountInv'
<1>1. x \in Clients /\ Me \in Nodes /\ ~ IsPerson(x)
  BY DEF register_local_user, Clients, Nodes, IsPerson
<1>2. \A z \in Clients : IsPerson(z)' <=> IsPerson(z) \/ z = x
  BY <1>1 DEF register_local_user, IsPerson, NetInv, TypesOK
<1>3. People' = People \cup {x}
  BY <1>1, <1>2 DEF People
<1>4. CountsTo(Count.total + 1, Count.local + 1, Count.server, Count.myserver)
  <2> DEFINE a == Count.total + 1
             b == Count.local + 1
  <2>1. a \in Int /\ b \in Int
    BY CountIntegers
  <2>2. Count' = [Count EXCEPT !.total = a, !.local = b]
    BY DEF register_local_user
  <2> HIDE DEF a, b
  <2>3. CountsTo(a, b, Count.server, Count.myserver)
    BY <2>1, <2>2, RecountPeople
  <2> QED BY <2>3 DEF a, b
<1>5. /\ users' = [users EXCEPT ![Me] = @ \cup {x}]
      /\ usercnt' = [usercnt EXCEPT ![Me] = @ + 1]
      /\ UNCHANGED <<servers, servercnt, astray, serv_list, global_serv_list>>
  BY DEF register_local_user, links
<1> QED BY <1>1, <1>3, <1>4, <1>5, PersonCounted

LEMMA RemoteUserCounts ==
  ASSUME NetInv, CountInv, NEW x \in Remotes, NEW y \in Clients, do_remote_user(x, y)
  PROVE  CountInv'
<1>1. x \in Clients /\ y \in Nodes /\ y # Me /\ ~ IsPerson(x)
  BY NetworkAssumption DEF do_remote_user, Clients, Nodes, IsPerson
<1>2. \A z \in Clients : IsPerson(z)' <=> IsPerson(z) \/ z = x
  <2>1. x \notin exit_list
    BY NetworkAssumption DEF NetInv, TypesOK
  <2> QED BY <1>1, <2>1 DEF do_remote_user, IsPerson, NetInv, TypesOK
<1>3. People' = People \cup {x}
  BY <1>1, <1>2 DEF People
<1>4. CountsTo(Count.total + 1, Count.local, Count.server, Count.myserver)
  <2>1. Count.total + 1 \in Int
    BY CountIntegers
  <2>2. Count' = [Count EXCEPT !.total = Count.total + 1]
    BY DEF do_remote_user
  <2> QED BY <2>1, <2>2, RecountOne
<1>5. /\ users' = [users EXCEPT ![y] = @ \cup {x}]
      /\ usercnt' = [usercnt EXCEPT ![y] = @ + 1]
      /\ UNCHANGED <<servers, servercnt, astray, serv_list, global_serv_list>>
  BY DEF do_remote_user, links
<1> QED BY <1>1, <1>3, <1>4, <1>5, PersonCounted

LEMMA EstablishCounts ==
  ASSUME NetInv, CountInv, NEW x \in Locals, NEW linked \in BOOLEAN, Establish(x),
         serv_list' = IF linked THEN serv_list \cup {x} ELSE serv_list,
         CountsTo(Count.total, Count.local, Count.server + 1,
                  IF linked THEN Count.myserver + 1 ELSE Count.myserver)
  PROVE  CountInv'
<1>1. x \in Clients /\ Me \in Nodes /\ x \notin Hosts
  BY DEF Establish, Clients, Nodes, Hosts, IsServer
<1>2. \A z \in Clients : IsPerson(z)' <=> IsPerson(z)
  BY <1>1 DEF Establish, IsPerson, NetInv, TypesOK
<1>3. People' = People
  BY <1>2 DEF People
<1>5. /\ servers' = [servers EXCEPT ![Me] = @ \cup {x}]
      /\ servercnt' = [servercnt EXCEPT ![Me] = @ + 1]
      /\ global_serv_list' = global_serv_list \cup {x}
      /\ UNCHANGED <<users, usercnt, astray>>
  BY DEF Establish
<1> QED BY <1>1, <1>3, <1>5, ServerCounted

LEMMA LinkCounts ==
  ASSUME NetInv, CountInv, NEW x \in Locals,
         server_estab(x) \/ server_estab_overridden(x)
  PROVE  CountInv'
<1>1. CASE server_estab(x)
  <2> DEFINE a == Count.server + 1
             b == Count.myserver + 1
  <2>1. a \in Int /\ b \in Int
    BY CountIntegers
  <2>2. Count' = [Count EXCEPT !.server = a, !.myserver = b]
    BY <1>1 DEF server_estab
  <2> HIDE DEF a, b
  <2>3. CountsTo(Count.total, Count.local, a, b)
    BY <2>1, <2>2, RecountServers
  <2>4. /\ CountsTo(Count.total, Count.local, Count.server + 1,
                    IF TRUE THEN Count.myserver + 1 ELSE Count.myserver)
        /\ serv_list' = IF TRUE THEN serv_list \cup {x} ELSE serv_list
    BY <1>1, <2>3 DEF a, b, server_estab
  <2>5. Establish(x)
    BY <1>1 DEF server_estab
  <2> QED BY <2>4, <2>5, EstablishCounts
<1>2. CASE server_estab_overridden(x)
  <2>1. CountsTo(Count.total, Count.local, Count.server + 1, Count.myserver)
    <3>1. Count.server + 1 \in Int
      BY CountIntegers
    <3>2. Count' = [Count EXCEPT !.server = Count.server + 1]
      BY <1>2 DEF server_estab_overridden
    <3> QED BY <3>1, <3>2, RecountOne
  <2>2. /\ CountsTo(Count.total, Count.local, Count.server + 1,
                    IF FALSE THEN Count.myserver + 1 ELSE Count.myserver)
        /\ serv_list' = IF FALSE THEN serv_list \cup {x} ELSE serv_list
    BY <1>2, <2>1 DEF server_estab_overridden
  <2>3. Establish(x)
    BY <1>2 DEF server_estab_overridden
  <2> QED BY <2>2, <2>3, EstablishCounts
<1> QED BY <1>1, <1>2

LEMMA ServerCounts ==
  ASSUME NetInv, CountInv, NEW x \in Remotes, NEW y \in Clients, m_server(x, y)
  PROVE  CountInv'
<1>1. x \in Clients /\ y \in Nodes /\ x \notin Hosts /\ FALSE \in BOOLEAN
  BY DEF m_server, Clients, Nodes, Hosts, IsServer
<1>2. \A z \in Clients : IsPerson(z)' <=> IsPerson(z)
  BY <1>1 DEF m_server, IsPerson, NetInv, TypesOK
<1>3. People' = People
  BY <1>2 DEF People
<1>4. CountsTo(Count.total, Count.local, Count.server + 1, Count.myserver)
  <2>1. Count.server + 1 \in Int
    BY CountIntegers
  <2>2. Count' = [Count EXCEPT !.server = Count.server + 1]
    BY DEF m_server
  <2> QED BY <2>1, <2>2, RecountOne
<1>5. /\ servers' = [servers EXCEPT ![y] = @ \cup {x}]
      /\ servercnt' = [servercnt EXCEPT ![y] = @ + 1]
      /\ global_serv_list' = global_serv_list \cup {x}
      /\ serv_list' = IF FALSE THEN serv_list \cup {x} ELSE serv_list
      /\ UNCHANGED <<users, usercnt, astray>>
  BY DEF m_server
<1>6. CountsTo(Count.total, Count.local, Count.server + 1,
               IF FALSE THEN Count.myserver + 1 ELSE Count.myserver)
  BY <1>4
<1> QED BY <1>1, <1>3, <1>5, <1>6, ServerCounted

LEMMA WrongDirectionCounts ==
  ASSUME NetInv, CountInv, NEW l \in Locals, NEW y \in Nodes, wrong_direction(l, y)
  PROVE  CountInv'
<1>1. People' = People
  BY DEF wrong_direction, tree, People, IsPerson
<1>2. CountTypes'
  BY DEF wrong_direction, CountInv, CountTypes
<1>3. \A z \in Nodes : usercnt'[z] + astray'[z] = usercnt[z] + astray[z]
  BY DEF wrong_direction, CountInv, CountTypes
<1> QED BY <1>1, <1>2, <1>3 DEF wrong_direction, tree, links, CountInv
LEMMA DisposePeople ==
  ASSUME NetInv, NEW x \in Clients, Dispose(x)
  PROVE  People' = People \ {x}
<1>1. CASE x \in Locals
  BY <1>1 DEF Dispose, People, IsPerson
<1>2. CASE x \notin Locals
  <2>1. \A z \in Clients : status'[z] = IF z = x THEN "free" ELSE status[z]
    BY <1>2 DEF Dispose, Free
  <2>2. \A z \in Clients : IsPerson(z)' <=> IsPerson(z) /\ z # x
    BY <1>2, <2>1 DEF Dispose, IsPerson
  <2> QED BY <2>2 DEF People
<1> QED BY <1>1, <1>2

LEMMA ExitUnknownCounts ==
  ASSUME NetInv, CountInv, NEW x \in Locals, exit_unknown(x)
  PROVE  CountInv'
<1>1. x \in Clients /\ x \notin People /\ Dispose(x)
  BY DEF exit_unknown, People, IsPerson, Clients
<1>2. People' = People
  BY <1>1, DisposePeople
<1> QED BY <1>2, SameCounts DEF exit_unknown, counts

LEMMA ExitPersonCounts ==
  ASSUME NetInv, CountInv, NEW x \in Clients, exit_person(x)
  PROVE  CountInv'
<1>1. IsPerson(x) /\ ExitPerson(x) /\ Dispose(x)
  BY DEF exit_person
<1>2. People' = People \ {x}
  BY <1>1, DisposePeople
<1> DEFINE a == Count.total - 1
           b == IF x \in Locals THEN Count.local - 1 ELSE Count.local
<1>3. a \in Int /\ b \in Int
  BY CountIntegers
<1>4. Count' = [Count EXCEPT !.total = a, !.local = b]
  BY DEF exit_person
<1> HIDE DEF a, b
<1>5. CountsTo(a, b, Count.server, Count.myserver)
  BY <1>3, <1>4, RecountPeople
<1>6. CountsTo(Count.total - 1, IF x \in Locals THEN Count.local - 1 ELSE Count.local,
               Count.server, Count.myserver)
  BY <1>5 DEF a, b
<1> QED BY <1>1, <1>2, <1>6, PersonUncounted

LEMMA SplitUserCounts ==
  ASSUME NetInv, CountInv, exit_recursion_user
  PROVE  CountInv'
<1>1. PICK x \in users[Top] : ExitPerson(x) /\ Free({x}) /\ Count' = [Count EXCEPT !.total = @ - 1]
  BY DEF exit_recursion_user
<1>2. Top \in Clients
  BY DEF exit_recursion_user, Top, NetInv, TypesOK
<1>3. x \in Clients /\ IsPerson(x) /\ servptr[x] = Top
  BY <1>2 DEF NetInv, Mirrored, Nodes
<1>4. x \notin Locals
  BY <1>2, <1>3, NetworkAssumption DEF NetInv, Placed, IsPerson, Clients
<1>5. People' = People \ {x}
  <2>1. Dispose(x)
    BY <1>1, <1>4 DEF Dispose, exit_recursion_user
  <2> QED BY <1>3, <2>1, DisposePeople
<1>6. CountsTo(Count.total - 1, Count.local, Count.server, Count.myserver)
  <2>1. Count.total - 1 \in Int
    BY CountIntegers
  <2> QED BY <1>1, <2>1, RecountOne
<1>7. CountsTo(Count.total - 1, IF x \in Locals THEN Count.local - 1 ELSE Count.local,
               Count.server, Count.myserver)
  BY <1>4, <1>6
<1> QED BY <1>1, <1>3, <1>5, <1>7, PersonUncounted

LEMMA ExitServerCounts ==
  ASSUME NetInv, CountInv, NEW x \in Clients, NEW by, exit_server(x, by)
  PROVE  CountInv'
<1>1. People' = People
  BY DEF exit_server, tree, People, IsPerson
<1>2. /\ x \in serv_list <=> x \in Locals
      /\ serv_list \in SUBSET Clients
  BY DEF exit_server, NetInv, TypesOK, Linked, Clients
<1>3. Cardinality(serv_list \ {x}) =
        IF x \in Locals THEN Cardinality(serv_list) - 1 ELSE Cardinality(serv_list)
  BY <1>2, Sizes
<1> DEFINE a == IF x \in Locals THEN Count.myserver - 1 ELSE Count.myserver
<1>4. a \in Int /\ a = Cardinality(serv_list \ {x})
  BY <1>3, CountIntegers DEF CountInv
<1>5. Count' = [Count EXCEPT !.myserver = a]
  BY DEF exit_server
<1> HIDE DEF a
<1>6. CountsTo(Count.total, Count.local, Count.server, a)
  BY <1>4, <1>5, RecountOne
<1>7. /\ serv_list' = serv_list \ {x}
      /\ UNCHANGED <<users, servers, usercnt, servercnt, astray, global_serv_list>>
  BY DEF exit_server, tree
<1> QED BY <1>1, <1>4, <1>6, <1>7 DEF CountsTo, CountInv, CountTypes

(* A server leaves with empty lists, and with the counters reset.          *)
LEMMA ReturnCounts ==
  ASSUME NetInv, CountInv, exit_one_client
  PROVE  CountInv'
<1> DEFINE x == Top
           y == servptr[x]
<1>1. x \in Clients /\ x \in Hosts /\ x \in Nodes /\ x # Me
  <2>1. x = stack[Len(stack)] /\ Len(stack) \in 1 .. Len(stack)
    BY DEF exit_one_client, Top, NetInv, TypesOK
  <2> QED BY <2>1, NetworkAssumption DEF NetInv, Splitting, Hosts, Nodes, Clients
<1>2. y \in Nodes /\ y # x
  <2>1. CASE x \in Locals
    BY <1>1, <2>1, NetworkAssumption DEF NetInv, Placed, Hosts, IsServer, Nodes
  <2>2. CASE x \in Remotes
    <3>1. y \in Hosts /\ Before(GlobalClientList, x, y)
      BY <1>1, <2>2 DEF NetInv, Placed, Ordered, Hosts, IsServer
    <3>2. y # x
      BY <3>1 DEF Before, NetInv, Ordered, Injective
    <3> QED BY <3>1, <3>2 DEF Hosts, Nodes
  <2> QED BY <1>1, <2>1, <2>2 DEF Clients
<1>3. /\ users[x] = {} /\ servers[x] = {}
      /\ servers' = [servers EXCEPT ![y] = @ \ {x}]
      /\ servercnt' = [servercnt EXCEPT ![y] = @ - 1, ![x] = 0]
      /\ usercnt' = [usercnt EXCEPT ![x] = 0]
      /\ astray' = [astray EXCEPT ![x] = 0]
      /\ global_serv_list' = global_serv_list \ {x}
      /\ Count' = [Count EXCEPT !.server = @ - 1]
      /\ Dispose(x) /\ UNCHANGED <<users, serv_list>>
  BY DEF exit_one_client
<1> HIDE DEF x, y
<1>4. People' = People
  <2>1. x \notin People
    BY <1>1 DEF People, IsPerson, Hosts, IsServer
  <2> QED BY <1>1, <1>3, <2>1, DisposePeople
<1>5. /\ x \in servers[y] /\ x \in global_serv_list
      /\ servers[y] \in SUBSET Clients /\ global_serv_list \in SUBSET Clients
  BY <1>1, <1>2 DEF NetInv, Mirrored, TypesOK, x, y
<1>6. Cardinality(servers[y] \ {x}) = Cardinality(servers[y]) - 1
  BY <1>5, Sizes
<1>7. Cardinality(global_serv_list \ {x}) = Cardinality(global_serv_list) - 1
  BY <1>5, Sizes
<1>8. CountsTo(Count.total, Count.local, Count.server - 1, Count.myserver)
  <2>1. Count.server - 1 \in Int
    BY CountIntegers
  <2> QED BY <1>3, <2>1, RecountOne
<1>9. /\ usercnt' \in [Nodes -> Int] /\ astray' \in [Nodes -> Int]
      /\ \A z \in Nodes : usercnt'[z] = IF z = x THEN 0 ELSE usercnt[z]
      /\ \A z \in Nodes : astray'[z] = IF z = x THEN 0 ELSE astray[z]
  BY <1>1, <1>3 DEF CountInv, CountTypes
<1>10. /\ servercnt' \in [Nodes -> Int]
       /\ servercnt'[x] = 0 /\ servercnt'[y] = servercnt[y] - 1
       /\ \A z \in Nodes \ {x, y} : servercnt'[z] = servercnt[z]
  <2>1. servercnt \in [Nodes -> Int]
    BY DEF CountInv, CountTypes
  <2>2. servercnt[y] - 1 \in Int
    BY <1>2, <2>1
  <2> QED BY <1>1, <1>2, <1>3, <2>1, <2>2
<1>11. \A z \in Nodes : servers'[z] = IF z = y THEN servers[z] \ {x} ELSE servers[z]
  BY <1>2, <1>3 DEF NetInv, TypesOK
<1>12. Cardinality({}) = 0
  BY FS_EmptySet
<1>13. ASSUME NEW z \in Nodes PROVE usercnt'[z] + astray'[z] = Cardinality(users[z])
  <2>1. CASE z = x
    <3>1. usercnt'[z] = 0 /\ astray'[z] = 0
      BY <1>9, <2>1
    <3>2. Cardinality(users[z]) = 0
      BY <1>3, <1>12, <2>1
    <3> QED BY <3>1, <3>2
  <2>2. CASE z # x
    BY <1>9, <2>2 DEF CountInv
  <2> QED BY <2>1, <2>2
<1>14. ASSUME NEW z \in Nodes PROVE servercnt'[z] = Cardinality(servers'[z])
  <2>1. CASE z = x
    BY <1>2, <1>3, <1>10, <1>11, <1>12, <2>1
  <2>2. CASE z = y
    BY <1>6, <1>10, <1>11, <2>2 DEF CountInv
  <2>3. CASE z # x /\ z # y
    BY <1>10, <1>11, <2>3 DEF CountInv
  <2> QED BY <2>1, <2>2, <2>3
<1>15. CountTypes'
  BY <1>8, <1>9, <1>10 DEF CountsTo, CountTypes
<1> QED BY <1>3, <1>4, <1>7, <1>8, <1>13, <1>14, <1>15 DEF CountsTo, CountInv

LEMMA RemoveCounts ==
  ASSUME NetInv, CountInv, remove_exited_clients
  PROVE  CountInv'
<1>1. \A z \in Clients : status'[z] = IF z \in exit_list THEN "free" ELSE status[z]
  BY DEF remove_exited_clients, Free
<1>2. \A z \in Clients : IsPerson(z)' <=> IsPerson(z)
  BY <1>1 DEF remove_exited_clients, IsPerson
<1> QED BY <1>2, SameCounts DEF remove_exited_clients, counts, People

LEMMA CountInvNext == NetInv /\ CountInv /\ [Next]_vars => CountInv'
<1> SUFFICES ASSUME NetInv, CountInv, [Next]_vars PROVE CountInv'
  OBVIOUS
<1>1. CASE UNCHANGED vars
  <2>1. People' = People
    BY <1>1 DEF vars, tree, People, IsPerson
  <2> QED BY <1>1, <2>1, SameCounts DEF vars, tree, counts
<1>2. CASE exit_recursion_server
  <2>1. People' = People
    BY <1>2 DEF exit_recursion_server, tree, People, IsPerson
  <2> QED BY <1>2, <2>1, SameCounts DEF exit_recursion_server, tree, counts
<1>3. CASE exit_recursion
  BY <1>2, <1>3, SplitUserCounts, ReturnCounts DEF exit_recursion
<1>4. CASE Next
  BY <1>3, <1>4, ConnectCounts, RegisterCounts, LinkCounts, ExitUnknownCounts, ServerCounts,
     RemoteUserCounts, WrongDirectionCounts, ExitPersonCounts, ExitServerCounts,
     RemoveCounts DEF Next
<1> QED BY <1>1, <1>4

(* The counters LUSERS and the limits read never drift from the lists, in  *)
(* whatever order links come up, users come and go and splits interleave;  *)
(* but for the persons of the wrong direction, which astray counts.        *)
THEOREM CountersAlwaysAgree == Spec => []CountersAgree
BY NetInvInit, NetInvNext, CountInvInit, CountInvNext, CountInvAgree, PTL DEF Spec
-----------------------------------------------------------------------------
(* The routes.                                                             *)

(* A recursion over 1 .. n has a solution, for a step given as a function. *)
Solution(f, n, V, v, G) ==
  f \in [0 .. n -> V] /\ f[0] = v /\ \A i \in 1 .. n : f[i] = G[i][f[i - 1]]

LEMMA Recursion ==
  ASSUME NEW n \in Nat, NEW V, NEW v \in V, NEW G \in [1 .. n -> [V -> V]]
  PROVE  \E f : Solution(f, n, V, v, G)
<1> DEFINE P(m) == \E f \in [0 .. m -> V] :
                     f[0] = v /\ \A i \in 1 .. m : f[i] = G[i][f[i - 1]]
           S == {m \in 0 .. n : P(m)}
<1>1. 0 \in S
  <2> DEFINE f == [i \in 0 .. 0 |-> v]
  <2>1. f \in [0 .. 0 -> V] /\ f[0] = v /\ \A i \in 1 .. 0 : f[i] = G[i][f[i - 1]]
    OBVIOUS
  <2>2. P(0)
    BY <2>1
  <2> HIDE DEF P
  <2> QED BY <2>2
<1>2. ASSUME NEW m \in 1 .. n, m - 1 \in S PROVE m \in S
  <2>1. PICK f \in [0 .. (m - 1) -> V] :
          f[0] = v /\ \A i \in 1 .. (m - 1) : f[i] = G[i][f[i - 1]]
    BY <1>2
  <2> DEFINE u == G[m][f[m - 1]]
             g == [i \in 0 .. m |-> IF i = m THEN u ELSE f[i]]
  <2>2. u \in V
    BY <1>2, <2>1
  <2> HIDE DEF u
  <2>3. g \in [0 .. m -> V] /\ g[0] = v
    BY <1>2, <2>1, <2>2
  <2>4. ASSUME NEW i \in 1 .. m PROVE g[i] = G[i][g[i - 1]]
    <3>1. i - 1 \in 0 .. m /\ i - 1 # m /\ i \in 0 .. m /\ m \in 1 .. n
      BY <1>2
    <3>2. g[i - 1] = f[i - 1]
      BY <3>1
    <3>3. CASE i = m
      BY <3>1, <3>2, <3>3 DEF u
    <3>4. CASE i # m
      <4>1. i \in 1 .. (m - 1)
        BY <3>1, <3>4
      <4> QED BY <2>1, <3>1, <3>2, <3>4, <4>1
    <3> QED BY <3>3, <3>4
  <2>5. P(m)
    BY <2>3, <2>4
  <2>6. m \in 0 .. n
    BY <1>2
  <2> HIDE DEF P
  <2> QED BY <2>5, <2>6
<1>3. n \in S
  <2> HIDE DEF S
  <2>1. \A i \in 0 .. n : i \in S
    BY <1>1, <1>2, Induction
  <2> QED BY <2>1
<1> QED BY <1>3 DEF Solution

Routes == [sent : Seq(Locals \cup {Nil}), killed : SUBSET Clients]

LEMMA RouteMemberType ==
  ASSUME TypesOK, NEW r \in Routes, NEW m \in Clients, NEW sender, NEW one
  PROVE  RouteMember(r, m, sender, one) \in Routes
<1>1. from[m] \in Locals \cup {Nil} /\ r.sent \in Seq(Locals \cup {Nil}) /\ r.killed \in SUBSET Clients
  BY DEF TypesOK, Routes
<1>2. [r EXCEPT !.killed = r.killed \cup {m}] \in Routes
  BY <1>1 DEF Routes
<1>3. ASSUME NEW x \in Locals \cup {Nil} PROVE [r EXCEPT !.sent = Append(r.sent, x)] \in Routes
  <2>1. Append(r.sent, x) \in Seq(Locals \cup {Nil})
    BY <1>1, <1>3
  <2> QED BY <2>1 DEF Routes
<1> QED BY <1>1, <1>2, <1>3 DEF RouteMember

(* The steps of Route, one for every member.                               *)
StepsOf(f, list, sender, one) ==
  /\ f[0] = [sent |-> << >>, killed |-> {}]
  /\ \A i \in 1 .. Len(list) : f[i] = RouteMember(f[i - 1], list[i], sender, one)
  /\ f[Len(list)] = Route(list, sender, one)

LEMMA RouteSteps ==
  ASSUME TypesOK, NEW list \in Seq(Clients), NEW sender, NEW one
  PROVE  \E f : StepsOf(f, list, sender, one)
<1> DEFINE n == Len(list)
           v == [sent |-> << >>, killed |-> {}]
           G == [i \in 1 .. n |-> [r \in Routes |-> RouteMember(r, list[i], sender, one)]]
           R(g) == [i \in 0 .. n |->
                      IF i = 0 THEN v ELSE RouteMember(g[i - 1], list[i], sender, one)]
           F == CHOOSE g : g = R(g)
<1>1. n \in Nat /\ v \in Routes
  BY DEF Routes
<1>2. G \in [1 .. n -> [Routes -> Routes]]
  <2>1. ASSUME NEW i \in 1 .. n, NEW r \in Routes PROVE RouteMember(r, list[i], sender, one) \in Routes
    <3>1. list[i] \in Clients
      BY <1>1, <2>1
    <3> QED BY <3>1, RouteMemberType
  <2> QED BY <2>1
<1> HIDE DEF v
<1>a. PICK f : Solution(f, n, Routes, v, G)
  <2> HIDE DEF G, n
  <2> QED BY <1>1, <1>2, Recursion
<1>3. f \in [0 .. n -> Routes] /\ f[0] = v /\ \A i \in 1 .. n : f[i] = G[i][f[i - 1]]
  <2> HIDE DEF G, n
  <2> QED BY <1>a DEF Solution
<1>4. \A i \in 1 .. n : f[i] = RouteMember(f[i - 1], list[i], sender, one)
  <2>1. ASSUME NEW i \in 1 .. n PROVE f[i] = RouteMember(f[i - 1], list[i], sender, one)
    <3>1. f[i - 1] \in Routes
      BY <1>1, <1>3, <2>1
    <3>2. G[i][f[i - 1]] = RouteMember(f[i - 1], list[i], sender, one)
      BY <3>1
    <3> QED BY <1>3, <3>2
  <2> QED BY <2>1
<1>5. f = R(f)
  BY <1>3, <1>4
<1>6. F = R(F)
  BY <1>5
<1>7. Route(list, sender, one) = F[n]
  BY DEF Route, v
<1> HIDE DEF F
<1>8. F[0] = v /\ \A i \in 1 .. n : F[i] = RouteMember(F[i - 1], list[i], sender, one)
  BY <1>1, <1>6
<1>9. StepsOf(F, list, sender, one)
  BY <1>7, <1>8, Zenon DEF StepsOf, v
<1> QED BY <1>9

(* What is written after the first i members of the list.                  *)
Routed(r, list, one, i) ==
  /\ r.sent \in Seq(Locals) /\ r.killed = {}
  /\ Items(r.sent) = {from[list[j]] : j \in 1 .. i} \ {one}
  /\ Injective(r.sent)

LEMMA RoutedStep ==
  ASSUME NetInv, Idle, NEW list \in Seq(Clients), Injective(list),
         \A j \in 1 .. Len(list) : IsPerson(list[j]),
         NEW sender \in Clients, NEW i \in 1 .. Len(list),
         NEW r \in Routes, Routed(r, list, from[sender], i - 1)
  PROVE  Routed(RouteMember(r, list[i], sender, from[sender]), list, from[sender], i)
<1> DEFINE m == list[i]
           one == from[sender]
           q == RouteMember(r, m, sender, one)
           E(k) == {from[list[j]] : j \in 1 .. k}
<1>0. Len(list) \in Nat /\ i \in Nat
  OBVIOUS
<1>1. ASSUME NEW x \in Clients, IsPerson(x)
      PROVE  /\ x \in Locals => from[x] = x
             /\ x \in Remotes => from[x] \in serv_list
  BY <1>1, NetworkAssumption DEF NetInv, Placed, Linked, IsPerson, Clients
<1>2. serv_list \subseteq Locals /\ \A x \in serv_list : ~IsPerson(x)
  BY DEF NetInv, Linked, TypesOK, Hosts, IsPerson, IsServer
<1>3. m \in Clients /\ IsPerson(m) /\ from[m] \in Locals
  BY <1>1, <1>2 DEF Clients
<1>4. E(i) = E(i - 1) \cup {from[m]}
  <2>1. \A j : j \in 1 .. i <=> j \in 1 .. (i - 1) \/ j = i
    BY <1>0
  <2> QED BY <2>1
<1>5. r.sent \in Seq(Locals) /\ r.killed = {} /\ Items(r.sent) = E(i - 1) \ {one} /\ Injective(r.sent)
  BY DEF Routed
<1> HIDE DEF E
(* Writing to one more end, which was not written to before.               *)
<1>6. ASSUME from[m] # one, from[m] \notin Items(r.sent), q = [r EXCEPT !.sent = Append(r.sent, from[m])]
      PROVE  Routed(q, list, one, i)
  <2> DEFINE s == Append(r.sent, from[m])
  <2>1. q.sent = s /\ q.killed = {}
    BY <1>5, <1>6 DEF Routes
  <2>2. s \in Seq(Locals) /\ Len(s) = Len(r.sent) + 1 /\ s[Len(s)] = from[m]
        /\ \A k \in 1 .. Len(r.sent) : s[k] = r.sent[k]
    BY <1>3, <1>5
  <2>3. Len(r.sent) \in Nat
    BY <1>5
  <2> HIDE DEF s
  <2>4. Items(s) = Items(r.sent) \cup {from[m]}
    <3>1. \A k : k \in 1 .. Len(s) <=> k \in 1 .. Len(r.sent) \/ k = Len(s)
      BY <2>2, <2>3
    <3> QED BY <2>2, <3>1, Zenon DEF Items
  <2>5. Injective(s)
    <3>1. ASSUME NEW a \in 1 .. Len(s), NEW b \in 1 .. Len(s), s[a] = s[b], a # b PROVE FALSE
      <4>1. (a \in 1 .. Len(r.sent) /\ b \in 1 .. Len(r.sent)) \/ (a = Len(s) /\ b \in 1 .. Len(r.sent))
            \/ (b = Len(s) /\ a \in 1 .. Len(r.sent))
        BY <2>2, <2>3, <3>1
      <4>2. CASE a \in 1 .. Len(r.sent) /\ b \in 1 .. Len(r.sent)
        BY <1>5, <2>2, <3>1, <4>2, Zenon DEF Injective
      <4>3. ASSUME NEW k \in 1 .. Len(r.sent), s[k] = from[m] PROVE FALSE
        BY <1>6, <2>2, <4>3, Zenon DEF Items
      <4> QED BY <2>2, <3>1, <4>1, <4>2, <4>3
    <3> QED BY <3>1 DEF Injective
  <2>6. Items(s) = E(i) \ {one}
    BY <1>4, <1>5, <1>6, <2>4
  <2> QED BY <2>1, <2>2, <2>5, <2>6 DEF Routed, E
<1>7. ASSUME q = r, from[m] = one \/ from[m] \in Items(r.sent) PROVE Routed(q, list, one, i)
  <2>1. Items(r.sent) = E(i) \ {one}
    BY <1>4, <1>5, <1>7
  <2> QED BY <1>5, <1>7, <2>1 DEF Routed, E
<1>8. CASE from[m] = one
  <2>1. q = r
    BY <1>8 DEF RouteMember
  <2> QED BY <1>7, <1>8, <2>1
<1>9. CASE from[m] # one /\ m \in Locals
  <2>1. from[m] = m
    BY <1>1, <1>3, <1>9
  <2>2. q = [r EXCEPT !.sent = Append(r.sent, m)]
    BY <1>9 DEF RouteMember
  <2>3. m \notin Items(r.sent)
    <3>1. SUFFICES ASSUME NEW j \in 1 .. (i - 1), from[list[j]] = m PROVE FALSE
      BY <1>5 DEF E
    <3>2. j \in 1 .. Len(list) /\ j # i
      BY <1>0, <3>1
    <3>3. list[j] # m /\ list[j] \in Clients /\ IsPerson(list[j])
      BY <3>2 DEF Injective
    <3> QED BY <1>1, <1>2, <1>3, <3>1, <3>3 DEF Clients
  <2> QED BY <1>6, <1>9, <2>1, <2>2, <2>3
<1>10. CASE from[m] # one /\ m \notin Locals
  <2>1. m \in Remotes
    BY <1>3, <1>10 DEF Clients
  <2>2. (\E k \in DOMAIN r.sent : r.sent[k] = from[m]) <=> from[m] \in Items(r.sent)
    BY <1>5 DEF Items
  <2>3. CASE from[m] \in Items(r.sent)
    <3>1. q = r
      BY <1>10, <2>1, <2>2, <2>3 DEF RouteMember
    <3> QED BY <1>7, <2>3, <3>1
  <2>4. CASE from[m] \notin Items(r.sent)
    <3>1. q = [r EXCEPT !.sent = Append(r.sent, from[m])]
      BY <1>10, <2>1, <2>2, <2>4 DEF RouteMember
    <3> QED BY <1>6, <1>10, <2>4, <3>1
  <2> QED BY <2>3, <2>4
<1> QED BY <1>8, <1>9, <1>10

(* A sequence without repetition is as long as its set is large.           *)
LEMMA InjectiveSize ==
  ASSUME NEW T, NEW s \in Seq(T), Injective(s)
  PROVE  Cardinality(Items(s)) = Len(s)
<1>1. Len(s) \in Nat /\ 1 .. Len(s) = DOMAIN s
  OBVIOUS
<1>2. IsFiniteSet(1 .. Len(s)) /\ Cardinality(1 .. Len(s)) = Len(s)
  BY <1>1, FS_Interval
<1>3. s \in Bijection(1 .. Len(s), Items(s))
  <2>1. s \in [1 .. Len(s) -> Items(s)]
    BY <1>1 DEF Items
  <2> QED BY <2>1 DEF Bijection, Injection, Surjection, IsInjective, Injective, Items
<1>4. ExistsBijection(1 .. Len(s), Items(s))
  BY <1>3 DEF ExistsBijection
<1> QED BY <1>2, <1>4, FS_Bijection

LEMMA RoutedAlways == NetInv => RoutedOnce
<1>1. SUFFICES ASSUME NetInv, Idle, NEW members \in SUBSET {x \in Clients : IsPerson(x)},
                      NEW sender \in members
               PROVE  LET list == Kept(GlobalClientList, Clients \ members)
                          r    == Route(list, sender, from[sender])
                          ends == {r.sent[i] : i \in DOMAIN r.sent}
                      IN  /\ r.killed = {}
                          /\ ends = {from[m] : m \in members} \ {from[sender]}
                          /\ Len(r.sent) = Cardinality(ends)
                          /\ ends \cap exit_list = {}
  BY DEF RoutedOnce
<1> DEFINE list == Kept(GlobalClientList, Clients \ members)
           r    == Route(list, sender, from[sender])
           ends == {r.sent[i] : i \in DOMAIN r.sent}
<1>2. TypesOK /\ GlobalClientList \in Seq(Clients) /\ Injective(GlobalClientList)
      /\ Items(GlobalClientList) = {x \in Clients : status[x] # "free"}
  BY <1>1 DEF NetInv, TypesOK, Ordered
<1>3. list \in Seq(Clients) /\ Injective(list) /\ Items(list) = members
  <2>1. \A x \in members : x \in Clients /\ status[x] # "free"
    BY <1>1 DEF IsPerson
  <2>2. list \in Seq(Clients) /\ Injective(list) /\ Items(list) = Items(GlobalClientList) \ (Clients \ members)
    BY <1>2, KeptProperties
  <2> QED BY <1>1, <1>2, <2>1, <2>2
<1> HIDE DEF list
<1>a. PICK f : StepsOf(f, list, sender, from[sender])
  BY <1>2, <1>3, RouteSteps
<1>4. /\ f[0] = [sent |-> << >>, killed |-> {}]
      /\ \A i \in 1 .. Len(list) : f[i] = RouteMember(f[i - 1], list[i], sender, from[sender])
      /\ f[Len(list)] = r
  BY <1>a, Zenon DEF StepsOf
<1> DEFINE S == {i \in 0 .. Len(list) : f[i] \in Routes /\ Routed(f[i], list, from[sender], i)}
<1>5. Len(list) \in Nat /\ sender \in Clients
  BY <1>1, <1>3
<1>6. \A j \in 1 .. Len(list) : list[j] \in Clients /\ IsPerson(list[j])
  BY <1>1, <1>3 DEF Items
<1>7. 0 \in S
  <2>1. << >> \in Seq(Locals) /\ << >> \in Seq(Locals \cup {Nil}) /\ Items(<< >>) = {} /\ Injective(<< >>)
    BY DEF Items, Injective
  <2>2. f[0].sent = << >> /\ f[0].killed = {} /\ f[0] \in Routes
    BY <1>4, <2>1 DEF Routes
  <2>3. {from[list[j]] : j \in 1 .. 0} = {}
    OBVIOUS
  <2>4. Routed(f[0], list, from[sender], 0)
    BY <2>1, <2>2, <2>3, Zenon DEF Routed
  <2>5. 0 \in 0 .. Len(list)
    BY <1>5
  <2> QED BY <2>2, <2>4, <2>5
<1>8. ASSUME NEW i \in 1 .. Len(list), i - 1 \in S PROVE i \in S
  <2>1. f[i - 1] \in Routes /\ Routed(f[i - 1], list, from[sender], i - 1) /\ i \in 0 .. Len(list)
    BY <1>5, <1>8
  <2>2. f[i] = RouteMember(f[i - 1], list[i], sender, from[sender])
    BY <1>4
  <2>3. f[i] \in Routes
    BY <1>2, <1>6, <2>1, <2>2, RouteMemberType
  <2>4. Routed(f[i], list, from[sender], i)
    BY <1>1, <1>3, <1>5, <1>6, <2>1, <2>2, RoutedStep
  <2> QED BY <2>1, <2>3, <2>4
<1>9. Routed(r, list, from[sender], Len(list))
  <2> HIDE DEF S
  <2>1. \A i \in 0 .. Len(list) : i \in S
    BY <1>5, <1>7, <1>8, Induction
  <2>2. Len(list) \in S
    BY <1>5, <2>1
  <2> QED BY <1>4, <2>2 DEF S
<1> HIDE DEF r
<1>10. r.sent \in Seq(Locals) /\ r.killed = {} /\ Injective(r.sent)
       /\ Items(r.sent) = {from[list[j]] : j \in 1 .. Len(list)} \ {from[sender]}
  BY <1>9 DEF Routed
<1>11. ends = Items(r.sent)
  BY <1>10 DEF Items
<1>12. {from[list[j]] : j \in 1 .. Len(list)} = {from[m] : m \in members}
  BY <1>3 DEF Items
<1>13. Len(r.sent) = Cardinality(ends)
  BY <1>10, <1>11, InjectiveSize
<1>14. \A m \in members : from[m] \notin exit_list
  <2>1. TAKE m \in members
  <2>2. m \in Clients /\ IsPerson(m)
    BY <1>1
  <2>3. m \in Locals => from[m] = m /\ m \notin exit_list
    BY <1>1, <2>2 DEF NetInv, Placed, IsPerson
  <2>4. m \in Remotes => from[m] \in serv_list
    BY <1>1, <2>2 DEF NetInv, Linked, IsPerson
  <2>5. \A x \in serv_list : x \notin exit_list
    BY <1>1 DEF NetInv, Linked, Hosts
  <2> QED BY <2>2, <2>3, <2>4, <2>5 DEF Clients
<1>15. ends = {from[m] : m \in members} \ {from[sender]}
  BY <1>10, <1>11, <1>12
<1>16. ends \cap exit_list = {}
  BY <1>14, <1>15
<1> QED BY <1>10, <1>13, <1>15, <1>16, Zenon DEF r, list

(* A line to a channel is written once to every local member and once to   *)
(* every link with members behind it, except the side it came from, and to *)
(* no client that has exited, for any network and any channel.             *)
THEOREM AlwaysRoutedOnce == Spec => []RoutedOnce
BY NetInvInit, NetInvNext, RoutedAlways, PTL DEF Spec
-----------------------------------------------------------------------------
(* What the links have been told.                                          *)

(* The subtree of a client in a view: Topology's recursion has a solution  *)
(* for every view, and only one when parents have smaller ranks.           *)
LEMMA AboveUnfolds ==
  ASSUME NEW view, NEW z \in DOMAIN view
  PROVE  Topo!Above(view)[z] =
           {z} \cup IF view[z] \in DOMAIN view THEN Topo!Above(view)[view[z]] ELSE {}
<1> DEFINE D == DOMAIN view
           Up(S) == \A u \in S : view[u] \in D => view[u] \in S
           C(y) == {w \in D : \A S \in SUBSET D : y \in S /\ Up(S) => w \in S}
           R(g) == [y \in D |-> {y} \cup IF view[y] \in D THEN g[view[y]] ELSE {}]
           f == [y \in D |-> C(y)]
           F == CHOOSE g : g = R(g)
<1>1. ASSUME NEW y \in D PROVE y \in C(y) /\ Up(C(y)) /\ C(y) \in SUBSET D
  OBVIOUS
<1>2. ASSUME NEW y \in D, NEW S \in SUBSET D, y \in S, Up(S) PROVE C(y) \subseteq S
  BY <1>2
<1>3. ASSUME NEW y \in D, view[y] \in D PROVE C(y) = {y} \cup C(view[y])
  <2>1. C(view[y]) \subseteq C(y)
    BY <1>1, <1>2, <1>3
  <2>2. {y} \cup C(view[y]) \in SUBSET D
    BY <1>1, <1>3
  <2>3. Up({y} \cup C(view[y]))
    BY <1>1, <1>3
  <2>4. C(y) \subseteq {y} \cup C(view[y])
    BY <1>2, <2>2, <2>3
  <2> QED BY <1>1, <2>1, <2>4
<1>4. ASSUME NEW y \in D, view[y] \notin D PROVE C(y) = {y}
  <2>1. Up({y}) /\ {y} \in SUBSET D /\ y \in {y}
    BY <1>4
  <2>2. C(y) \subseteq {y}
    BY <1>2, <2>1
  <2>3. y \in C(y)
    BY <1>1
  <2> HIDE DEF C
  <2> QED BY <2>2, <2>3
<1>5. f = R(f)
  <2>1. ASSUME NEW y \in D PROVE f[y] = {y} \cup IF view[y] \in D THEN f[view[y]] ELSE {}
    <3> HIDE DEF C
    <3> QED BY <1>3, <1>4, <2>1
  <2> HIDE DEF f
  <2>2. DOMAIN f = D /\ f = [y \in D |-> f[y]]
    BY DEF f
  <2> QED BY <2>1, <2>2
<1> HIDE DEF f
<1>6. F = R(F)
  BY <1>5
<1>7. Topo!Above(view) = F
  BY DEF Topo!Above
<1> HIDE DEF F
<1> QED BY <1>6, <1>7

LEMMA BehindGrows ==
  ASSUME NEW view, NEW x
  PROVE  /\ Topo!Behind(view, x) \subseteq DOMAIN view
         /\ x \in DOMAIN view => x \in Topo!Behind(view, x)
         /\ \A z \in DOMAIN view : view[z] \in Topo!Behind(view, x) => z \in Topo!Behind(view, x)
<1>1. ASSUME x \in DOMAIN view PROVE x \in Topo!Behind(view, x)
  BY <1>1, AboveUnfolds DEF Topo!Behind
<1>2. ASSUME NEW z \in DOMAIN view, view[z] \in Topo!Behind(view, x) PROVE z \in Topo!Behind(view, x)
  <2>1. view[z] \in DOMAIN view /\ x \in Topo!Above(view)[view[z]]
    BY <1>2 DEF Topo!Behind
  <2>2. Topo!Above(view)[z] = {z} \cup Topo!Above(view)[view[z]]
    BY <2>1, AboveUnfolds
  <2> QED BY <2>1, <2>2 DEF Topo!Behind
<1>3. Topo!Behind(view, x) \subseteq DOMAIN view
  BY DEF Topo!Behind
<1> QED BY <1>1, <1>2, <1>3

Ranked(view, rank) ==
  /\ rank \in [DOMAIN view -> Nat]
  /\ \A z \in DOMAIN view : view[z] \in DOMAIN view => rank[view[z]] < rank[z]

LEMMA BehindLeast ==
  ASSUME NEW view, NEW x, NEW rank, Ranked(view, rank), NEW S, x \in S,
         \A z \in DOMAIN view : view[z] \in S => z \in S
  PROVE  Topo!Behind(view, x) \subseteq S
<1> DEFINE B == Topo!Behind(view, x) \ S
           T == {rank[z] : z \in B}
<1>1. SUFFICES ASSUME B # {} PROVE FALSE
  OBVIOUS
<1>2. \A z \in B : z \in DOMAIN view /\ x \in Topo!Above(view)[z] /\ z \notin S
  BY DEF Topo!Behind
<1>3. T \in SUBSET Nat /\ T # {}
  BY <1>1, <1>2 DEF Ranked
<1>4. PICK t \in T : \A u \in T : t <= u
  BY <1>3, LeastNat
<1>5. PICK z \in B : t = rank[z]
  BY <1>4
<1>6. z # x /\ Topo!Above(view)[z] = {z} \cup IF view[z] \in DOMAIN view THEN Topo!Above(view)[view[z]] ELSE {}
  BY <1>2, AboveUnfolds
<1>7. view[z] \in DOMAIN view /\ x \in Topo!Above(view)[view[z]]
  BY <1>2, <1>6
<1>8. view[z] \notin S
  BY <1>2
<1>9. view[z] \in B
  BY <1>7, <1>8 DEF Topo!Behind
<1>10. rank[view[z]] < rank[z] /\ rank[view[z]] \in Nat /\ rank[z] \in Nat
  BY <1>2, <1>7 DEF Ranked
<1>11. rank[z] <= rank[view[z]]
  BY <1>4, <1>5, <1>9
<1> QED BY <1>10, <1>11

(* A client of a view is one that is here, on its server, and not behind   *)
(* the link that was told; or a local one that has exited; or one a split  *)
(* has freed, whose server is yet to exit.                                 *)
Shown(l, z) == Known(z) /\ from[z] # l /\ told[l][z] = servptr[z]
Exited(l, z) == z \in exit_list /\ told[l][z] = Me
Splits(l, z) ==
  /\ ~ Idle /\ status[z] = "free"
  /\ told[l][z] \in Items(stack) /\ from[stack[1]] # l

(* The clients a link has to know of: all that are not behind it, nor      *)
(* behind the link whose split is under way.                               *)
Owed(l, z) == Known(z) /\ from[z] # l /\ (Idle \/ from[z] # stack[1])

ViewOK(l) ==
  /\ DOMAIN told[l] \subseteq Clients
  /\ \A z \in DOMAIN told[l] : Shown(l, z) \/ Exited(l, z) \/ Splits(l, z)
  /\ \A z \in Clients : Owed(l, z) => z \in DOMAIN told[l]

(* A link knows the server of every client it knows.                       *)
Closed(l) == \A z \in DOMAIN told[l] : told[l][z] \in DOMAIN told[l] \cup {Me}

(* The calls of a split are for servers behind one link; the link that     *)
(* asked for it is that one.                                               *)
OneSide ==
  ~ Idle => /\ source \in {Me, from[stack[1]]}
            /\ \A i \in 1 .. Len(stack) : from[stack[i]] = from[stack[1]]

ToldInv ==
  /\ told = [l \in Locals |-> told[l]]
  /\ \A l \in serv_list : ViewOK(l) /\ Closed(l)
  /\ OneSide /\ confused = {}

LEMMA PlaceIs ==
  ASSUME NetInv, NEW i \in 1 .. Len(GlobalClientList)
  PROVE  Place(GlobalClientList[i]) = i
<1>1. DOMAIN GlobalClientList = 1 .. Len(GlobalClientList) /\ Injective(GlobalClientList)
  BY DEF NetInv, TypesOK, Ordered
<1>2. \A j \in DOMAIN GlobalClientList : GlobalClientList[j] = GlobalClientList[i] <=> j = i
  BY <1>1 DEF Injective
<1>3. i \in DOMAIN GlobalClientList
  BY <1>1
<1> QED BY <1>2, <1>3 DEF Place

LEMMA PlaceRange ==
  ASSUME NetInv, NEW x \in Clients, status[x] # "free"
  PROVE  Place(x) \in 1 .. Len(GlobalClientList)
<1>1. x \in Items(GlobalClientList)
  BY DEF NetInv, Ordered
<1>2. PICK i \in 1 .. Len(GlobalClientList) : x = GlobalClientList[i]
  BY <1>1 DEF Items
<1> QED BY <1>2, PlaceIs

LEMMA PlaceBefore ==
  ASSUME NetInv, NEW x, NEW y, Before(GlobalClientList, x, y)
  PROVE  Place(x) < Place(y)
<1>1. PICK i, j \in 1 .. Len(GlobalClientList) : i < j /\ GlobalClientList[i] = x /\ GlobalClientList[j] = y
  BY DEF Before
<1> QED BY <1>1, PlaceIs

LEMMA ServerOfRemote ==
  ASSUME NetInv, NEW w \in Clients, Known(w), servptr[w] # Me
  PROVE  /\ w \in Remotes /\ servptr[w] \in Hosts /\ Known(servptr[w])
         /\ from[servptr[w]] = from[w]
<1>1. status[w] \in {"person", "server"}
  BY DEF Known, IsServer, IsPerson
<1>2. w \in Remotes
  BY <1>1 DEF NetInv, Placed, Clients
<1>3. servptr[w] \in Hosts /\ from[w] = from[servptr[w]]
  BY <1>1, <1>2 DEF NetInv, Placed
<1> QED BY <1>2, <1>3 DEF Hosts, Known

LEMMA ViewRanked ==
  ASSUME NetInv, NEW l, ViewOK(l)
  PROVE  \E rank : Ranked(told[l], rank)
<1> DEFINE n == Len(GlobalClientList)
           v == told[l]
           rank == [z \in DOMAIN v |-> IF status[z] = "free" THEN n + 1 ELSE n - Place(z)]
<1>1. n \in Nat /\ DOMAIN v \subseteq Clients
  BY DEF NetInv, TypesOK, ViewOK
<1>2. ASSUME NEW z \in Clients, status[z] # "free" PROVE n - Place(z) \in 0 .. n
  BY <1>1, <1>2, PlaceRange
<1>3. rank \in [DOMAIN v -> Nat]
  BY <1>1, <1>2
<1>4. ASSUME NEW z \in DOMAIN v, v[z] \in DOMAIN v PROVE rank[v[z]] < rank[z]
  <2>0. z \in Clients /\ v[z] \in Clients /\ v[z] # Me
    BY <1>1, <1>4, NetworkAssumption
  <2>1. CASE Shown(l, z)
    <3>1. v[z] = servptr[z] /\ Known(z) /\ status[z] # "free"
      BY <2>1 DEF Shown, Known, IsServer, IsPerson
    <3>2. z \in Remotes /\ servptr[z] \in Hosts
      BY <2>0, <3>1, ServerOfRemote
    <3>3. Before(GlobalClientList, z, servptr[z])
      BY <3>1, <3>2 DEF NetInv, Ordered
    <3>4. Place(z) < Place(v[z])
      BY <3>1, <3>3, PlaceBefore
    <3>5. status[v[z]] # "free"
      BY <3>1, <3>2 DEF Hosts, IsServer
    <3>6. Place(z) \in 1 .. n /\ Place(v[z]) \in 1 .. n
      BY <2>0, <3>1, <3>5, PlaceRange
    <3>7. rank[z] = n - Place(z) /\ rank[v[z]] = n - Place(v[z])
      BY <1>4, <3>1, <3>5
    <3> HIDE DEF rank, n
    <3> QED BY <1>1, <3>4, <3>6, <3>7
  <2>2. CASE Exited(l, z)
    BY <2>0, <2>2 DEF Exited
  <2>3. CASE Splits(l, z)
    <3>1. status[z] = "free" /\ v[z] \in Items(stack)
      BY <2>3 DEF Splits
    <3>2. status[v[z]] # "free"
      BY <3>1 DEF NetInv, Splitting, Items, Hosts, IsServer
    <3>3. n - Place(v[z]) \in 0 .. n
      BY <1>2, <2>0, <3>2
    <3>4. rank[z] = n + 1 /\ rank[v[z]] = n - Place(v[z])
      BY <1>4, <3>1, <3>2
    <3> HIDE DEF rank, n
    <3> QED BY <1>1, <3>3, <3>4
  <2> QED BY <2>1, <2>2, <2>3 DEF ViewOK
<1> HIDE DEF rank
<1> QED BY <1>3, <1>4 DEF Ranked

(* A QUIT or SQUIT takes along nobody who is here, when nobody who is here *)
(* is on the client that leaves.                                           *)
LEMMA GoneAlone ==
  ASSUME NetInv, NEW l, ViewOK(l), NEW x,
         \A w \in Clients : Known(w) => servptr[w] # x,
         NEW z \in DOMAIN told[l], Shown(l, z), z # x
  PROVE  z \notin Topo!Behind(told[l], x)
<1> DEFINE v == told[l]
           S == {x} \cup {w \in DOMAIN v : ~ Shown(l, w)}
<1>1. PICK rank : Ranked(v, rank)
  BY ViewRanked
<1>2. DOMAIN v \subseteq Clients
  BY DEF ViewOK
<1>3. ASSUME NEW w \in DOMAIN v, v[w] \in S, w \notin S PROVE FALSE
  <2>1. Shown(l, w) /\ Known(w) /\ from[w] # l /\ v[w] = servptr[w]
    BY <1>3 DEF Shown
  <2>2. servptr[w] # x
    BY <1>2, <2>1
  <2>3. v[w] \in DOMAIN v /\ ~ Shown(l, v[w])
    BY <1>3, <2>1, <2>2
  <2>4. servptr[w] # Me
    BY <1>2, <2>1, <2>3, NetworkAssumption
  <2>5. servptr[w] \in Hosts /\ Known(servptr[w]) /\ from[servptr[w]] = from[w]
    BY <1>2, <2>1, <2>4, ServerOfRemote
  <2>6. ~ Exited(l, v[w]) /\ ~ Splits(l, v[w])
    BY <2>1, <2>5 DEF Exited, Splits, Hosts, IsServer
  <2> QED BY <2>3, <2>6 DEF ViewOK
<1>4. \A w \in DOMAIN v : v[w] \in S => w \in S
  BY <1>3
<1>5. x \in S
  OBVIOUS
<1>6. z \notin S
  OBVIOUS
<1> HIDE DEF S
<1>7. Topo!Behind(v, x) \subseteq S
  BY <1>1, <1>4, <1>5, BehindLeast
<1> QED BY <1>6, <1>7

LEMMA WithoutIs ==
  ASSUME NEW view, NEW gone
  PROVE  /\ DOMAIN Topo!Without(view, gone) = DOMAIN view \ gone
         /\ \A z \in DOMAIN view \ gone : Topo!Without(view, gone)[z] = view[z]
BY DEF Topo!Without

(* Clients that stay as they are.                                          *)
Unmoved(z) ==
  /\ Known(z)' = Known(z)
  /\ Known(z) => from'[z] = from[z] /\ servptr'[z] = servptr[z]

LEMMA ViewSame ==
  ASSUME NEW l, ViewOK(l), Idle, Idle', told'[l] = told[l], exit_list \subseteq exit_list',
         \A z \in Clients : Unmoved(z)
  PROVE  ViewOK(l)'
<1>1. ASSUME NEW z \in DOMAIN told[l] PROVE Shown(l, z)' \/ Exited(l, z)'
  <2>1. z \in Clients /\ (Shown(l, z) \/ Exited(l, z))
    BY DEF ViewOK, Splits
  <2> QED BY <2>1 DEF Shown, Exited, Unmoved
<1>2. ASSUME NEW z \in Clients, Owed(l, z)' PROVE Owed(l, z)
  BY <1>2 DEF Owed, Unmoved
<1> QED BY <1>1, <1>2 DEF ViewOK

LEMMA FitsAlways ==
  ASSUME NEW l, ViewOK(l), Idle, NEW x \in Clients, ~ Known(x), x \notin exit_list,
         NEW y, y = Me \/ (y \in Hosts /\ from[y] # l)
  PROVE  Fits(told[l], x, y)
<1>1. x \notin DOMAIN told[l]
  BY DEF ViewOK, Shown, Exited, Splits
<1>2. y # Me => Owed(l, y) /\ y \in Clients
  BY DEF Owed, Known, Hosts
<1> QED BY <1>1, <1>2 DEF Fits, ViewOK

LEMMA ViewJoin ==
  ASSUME NEW l, ViewOK(l), Idle, Idle', exit_list' = exit_list,
         NEW x \in Clients, ~ Known(x), x \notin exit_list, Known(x)',
         \A z \in Clients \ {x} : Unmoved(z),
         \/ from'[x] = l /\ told'[l] = told[l]
         \/ from'[x] # l /\ told'[l] = Add(told[l], x, servptr'[x])
  PROVE  ViewOK(l)'
<1> DEFINE v == told[l]
           u == told'[l]
<1>0. x \notin DOMAIN v /\ DOMAIN v \subseteq Clients
  BY DEF ViewOK, Shown, Exited, Splits
<1>1. /\ DOMAIN u \subseteq DOMAIN v \cup {x} /\ DOMAIN v \subseteq DOMAIN u
      /\ \A z \in DOMAIN v : u[z] = v[z]
      /\ x \in DOMAIN u => from'[x] # l /\ u[x] = servptr'[x]
      /\ from'[x] # l => x \in DOMAIN u
  BY <1>0 DEF Add
<1> HIDE DEF u
<1>2. ASSUME NEW z \in DOMAIN u PROVE Shown(l, z)' \/ Exited(l, z)'
  <2>1. CASE z = x
    BY <1>1, <1>2, <2>1 DEF Shown, u
  <2>2. CASE z # x
    <3>1. z \in DOMAIN v /\ z \in Clients \ {x} /\ u[z] = v[z]
      BY <1>0, <1>1, <2>2
    <3>2. Shown(l, z) \/ Exited(l, z)
      BY <3>1 DEF ViewOK, Splits
    <3> QED BY <3>1, <3>2 DEF Shown, Exited, Unmoved, u
  <2> QED BY <2>1, <2>2
<1>3. ASSUME NEW z \in Clients, Owed(l, z)' PROVE z \in DOMAIN u
  <2>1. CASE z = x
    BY <1>1, <1>3, <2>1 DEF Owed
  <2>2. CASE z # x
    <3>1. Owed(l, z)
      BY <1>3, <2>2 DEF Owed, Unmoved
    <3> QED BY <1>1, <3>1 DEF ViewOK
  <2> QED BY <2>1, <2>2
<1>4. DOMAIN u \subseteq Clients
  BY <1>0, <1>1
<1> QED BY <1>2, <1>3, <1>4 DEF ViewOK, u
(* The steps.                                                              *)
LEMMA ToldSame ==
  ASSUME ToldInv, Idle, Idle', told' = told, confused' = confused, serv_list' = serv_list,
         exit_list \subseteq exit_list', \A z \in Clients : Unmoved(z)
  PROVE  ToldInv'
<1>1. ASSUME NEW l \in serv_list PROVE ViewOK(l)'
  BY <1>1, ViewSame DEF ToldInv
<1>2. ASSUME NEW l \in serv_list PROVE Closed(l)'
  BY <1>2 DEF ToldInv, Closed
<1> QED BY <1>1, <1>2 DEF ToldInv, OneSide

LEMMA ToldConnect ==
  ASSUME NetInv, ToldInv, NEW x \in Locals, Connect(x)
  PROVE  ToldInv'
<1>1. ASSUME NEW z \in Clients PROVE Unmoved(z)
  BY DEF Connect, NetInv, TypesOK, Unmoved, Known, IsServer, IsPerson
<1> QED BY <1>1, ToldSame DEF Connect, Idle, peers, links

LEMMA ToldWrongDirection ==
  ASSUME NetInv, ToldInv, NEW l \in Locals, NEW y \in Nodes, wrong_direction(l, y)
  PROVE  ToldInv'
<1>1. ASSUME NEW z \in Clients PROVE Unmoved(z)
  BY DEF wrong_direction, tree, Unmoved, Known, IsServer, IsPerson
<1> QED BY <1>1, ToldSame DEF wrong_direction, Idle, peers, links

LEMMA DisposeOthers ==
  ASSUME NetInv, NEW x \in Clients, Dispose(x), NEW z \in Clients, z # x
  PROVE  Unmoved(z) /\ exit_list \subseteq exit_list' /\ (z \in exit_list' => z \in exit_list)
         /\ status'[z] = status[z] /\ from'[z] = from[z] /\ servptr'[z] = servptr[z]
BY DEF Dispose, Free, Unmoved, Known, IsServer, IsPerson

LEMMA DisposeSelf ==
  ASSUME NetInv, NEW x \in Clients, Dispose(x)
  PROVE  ~ Known(x)' /\ exit_list \subseteq exit_list'
BY DEF Dispose, Free, Known, IsServer, IsPerson

LEMMA ToldExitUnknown ==
  ASSUME NetInv, ToldInv, NEW x \in Locals, exit_unknown(x)
  PROVE  ToldInv'
<1>0. Dispose(x) /\ x \in Clients /\ ~ Known(x)
  BY DEF exit_unknown, Known, IsServer, IsPerson, Clients
<1>1. ASSUME NEW z \in Clients PROVE Unmoved(z)
  <2>1. CASE z = x
    <3>1. ~ Known(x)'
      BY <1>0, DisposeSelf
    <3> QED BY <1>0, <2>1, <3>1 DEF Unmoved, Known
  <2>2. CASE z # x
    BY <1>0, <2>2, DisposeOthers
  <2> QED BY <2>1, <2>2
<1>2. exit_list \subseteq exit_list'
  BY <1>0, DisposeSelf
<1> QED BY <1>1, <1>2, ToldSame DEF exit_unknown, Idle, peers, links

LEMMA ClosedAdd ==
  ASSUME NEW l, Closed(l), NEW x, NEW y, Fits(told[l], x, y), told'[l] = Add(told[l], x, y)
  PROVE  Closed(l)'
<1> DEFINE u == told'[l]
<1>1. DOMAIN u = DOMAIN told[l] \cup {x} /\ u[x] = y /\ \A z \in DOMAIN told[l] : u[z] = told[l][z]
  BY DEF Add, Fits
<1>2. y \in DOMAIN told[l] \cup {Me} /\ \A z \in DOMAIN told[l] : told[l][z] \in DOMAIN told[l] \cup {Me}
  BY DEF Fits, Closed
<1> HIDE DEF u
<1>3. \A z \in DOMAIN u : u[z] \in DOMAIN u \cup {Me}
  BY <1>1, <1>2
<1> QED BY <1>3 DEF Closed, u

(* A new client and the line that tells of it.                             *)
LEMMA ToldJoin ==
  ASSUME NetInv, ToldInv, Idle, Idle', exit_list' = exit_list, serv_list' = serv_list,
         NEW x \in Clients, ~ Known(x), x \notin exit_list, Known(x)',
         \A z \in Clients \ {x} : Unmoved(z),
         NEW y, servptr'[x] = y, NEW side,
         (y = Me /\ side \notin serv_list) \/ (y \in Hosts /\ from[y] = side),
         from'[x] = side, Tell(serv_list \ {side}, x, y)
  PROVE  ToldInv'
<1>1. ASSUME NEW l \in serv_list \ {side} PROVE Fits(told[l], x, y)
  BY <1>1, FitsAlways DEF ToldInv
<1>2. confused' = {}
  BY <1>1 DEF Tell, ToldInv
<1>3. serv_list \subseteq Locals
  BY DEF NetInv, TypesOK
<1>4. ASSUME NEW l \in serv_list PROVE ViewOK(l)'
  <2>0. l \in Locals /\ ViewOK(l)
    BY <1>3 DEF ToldInv
  <2>1. CASE l = side
    <3>1. told'[l] = told[l]
      BY <2>0, <2>1 DEF Tell
    <3> QED BY <2>0, <2>1, <3>1, ViewJoin
  <2>2. CASE l # side
    <3>1. told'[l] = Add(told[l], x, servptr'[x])
      BY <1>1, <1>4, <2>0, <2>2 DEF Tell
    <3> QED BY <2>0, <2>2, <3>1, ViewJoin
  <2> QED BY <2>1, <2>2
<1>5. told' = [l \in Locals |-> told'[l]]
  BY DEF Tell
<1>6. ASSUME NEW l \in serv_list PROVE Closed(l)'
  <2>0. l \in Locals /\ Closed(l)
    BY <1>3, <1>6 DEF ToldInv
  <2>1. told'[l] = told[l] \/ (l # side /\ told'[l] = Add(told[l], x, y))
    BY <2>0 DEF Tell
  <2>2. CASE told'[l] = told[l]
    BY <2>0, <2>2 DEF Closed
  <2>3. CASE l # side /\ told'[l] = Add(told[l], x, y)
    BY <1>1, <1>6, <2>0, <2>3, ClosedAdd
  <2> QED BY <2>1, <2>2, <2>3
<1> QED BY <1>2, <1>4, <1>5, <1>6 DEF ToldInv, OneSide

LEMMA ToldRegister ==
  ASSUME NetInv, ToldInv, NEW x \in Locals, register_local_user(x)
  PROVE  ToldInv'
<1>0. x \in Clients /\ x \notin serv_list /\ from[x] = x
  BY DEF Clients, NetInv, Linked, Hosts, IsServer, register_local_user, Placed
<1>1. ~ Known(x) /\ x \notin exit_list /\ Known(x)' /\ servptr'[x] = Me /\ from'[x] = x
  BY <1>0 DEF register_local_user, NetInv, TypesOK, Known, IsServer, IsPerson
<1>2. ASSUME NEW z \in Clients \ {x} PROVE Unmoved(z)
  BY <1>0, <1>2 DEF register_local_user, NetInv, TypesOK, Unmoved, Known, IsServer, IsPerson
<1>3. serv_list \ {x} = serv_list
  BY <1>0
<1>4. Tell(serv_list \ {x}, x, Me) /\ Idle /\ Idle' /\ exit_list' = exit_list /\ serv_list' = serv_list
  BY <1>3 DEF register_local_user, Idle, links
<1>5. (Me = Me /\ x \notin serv_list) \/ (Me \in Hosts /\ from[Me] = x)
  BY <1>0
<1> QED BY <1>0, <1>1, <1>2, <1>4, <1>5, ToldJoin, Zenon

LEMMA ToldServer ==
  ASSUME NetInv, ToldInv, NEW x \in Remotes, NEW y \in Clients, m_server(x, y)
  PROVE  ToldInv'
<1>0. x \in Clients /\ x \notin exit_list
  BY DEF Clients, NetInv, Placed, m_server
<1>1. ~ Known(x) /\ Known(x)' /\ servptr'[x] = y /\ from'[x] = from[y] /\ y \in Hosts
  BY <1>0 DEF m_server, NetInv, TypesOK, Known, IsServer, IsPerson
<1>2. ASSUME NEW z \in Clients \ {x} PROVE Unmoved(z)
  BY <1>0, <1>2 DEF m_server, NetInv, TypesOK, Unmoved, Known, IsServer, IsPerson
<1>3. Tell(serv_list \ {from[y]}, x, y) /\ Idle /\ Idle' /\ exit_list' = exit_list /\ serv_list' = serv_list
  BY DEF m_server, Idle
<1> QED BY <1>0, <1>1, <1>2, <1>3, ToldJoin

LEMMA ToldRemoteUser ==
  ASSUME NetInv, ToldInv, NEW x \in Remotes, NEW y \in Clients, do_remote_user(x, y)
  PROVE  ToldInv'
<1>0. x \in Clients /\ x \notin exit_list
  BY DEF Clients, NetInv, Placed, do_remote_user
<1>1. ~ Known(x) /\ Known(x)' /\ servptr'[x] = y /\ from'[x] = from[y] /\ y \in Hosts
  BY <1>0 DEF do_remote_user, NetInv, TypesOK, Known, IsServer, IsPerson
<1>2. ASSUME NEW z \in Clients \ {x} PROVE Unmoved(z)
  BY <1>0, <1>2 DEF do_remote_user, NetInv, TypesOK, Unmoved, Known, IsServer, IsPerson
<1>3. Tell(serv_list \ {from[y]}, x, y) /\ Idle /\ Idle' /\ exit_list' = exit_list /\ serv_list' = serv_list
  BY DEF do_remote_user, Idle, links
<1> QED BY <1>0, <1>1, <1>2, <1>3, ToldJoin

(* The burst to a new link names every client after its server.            *)
LEMMA BurstInOrder ==
  ASSUME NetInv, NEW x \in Locals, status[x] = "unknown"
  PROVE  ~ Misplaced(x)
<1>1. ASSUME NEW w \in BurstServers(x), servptr[w] # Me
      PROVE  servptr[w] \in BurstServers(x) /\ Place(servptr[w]) > Place(w)
  <2>1. w \in Clients /\ IsServer(w) /\ from[w] # x /\ w # x
    BY <1>1 DEF BurstServers
  <2>2. w \in Remotes
    BY <1>1, <2>1 DEF NetInv, Placed, IsServer, Clients
  <2>3. servptr[w] \in Hosts /\ from[servptr[w]] = from[w] /\ Before(GlobalClientList, w, servptr[w])
    BY <2>1, <2>2 DEF NetInv, Placed, Ordered, IsServer
  <2>4. servptr[w] \in BurstServers(x)
    BY <2>1, <2>3 DEF BurstServers, Hosts, IsServer
  <2>5. Place(w) < Place(servptr[w])
    BY <2>3, PlaceBefore
  <2>6. Place(w) \in 1 .. Len(GlobalClientList) /\ Place(servptr[w]) \in 1 .. Len(GlobalClientList)
    BY <2>1, <2>3, PlaceRange DEF IsServer, Hosts
  <2> QED BY <2>4, <2>5, <2>6
<1>2. ASSUME NEW w \in BurstNicks(x), servptr[w] # Me PROVE servptr[w] \in BurstServers(x)
  <2>1. w \in Clients /\ IsPerson(w) /\ from[w] # x /\ Known(w)
    BY <1>2 DEF BurstNicks, Known, IsPerson
  <2>2. servptr[w] \in Hosts /\ from[servptr[w]] = from[w]
    BY <1>2, <2>1, ServerOfRemote
  <2> QED BY <2>1, <2>2 DEF BurstServers, Hosts, IsServer
<1> QED BY <1>1, <1>2 DEF Misplaced

LEMMA ToldEstablish ==
  ASSUME NetInv, ToldInv, NEW x \in Locals, server_estab(x)
  PROVE  ToldInv'
<1>0. x \in Clients /\ x \notin serv_list /\ from[x] = x /\ x \notin exit_list /\ status[x] = "unknown"
  BY DEF Clients, NetInv, Linked, Hosts, IsServer, server_estab, Establish, Placed
<1>1. ~ Known(x) /\ Known(x)' /\ servptr'[x] = Me /\ from' = from
  BY <1>0 DEF server_estab, Establish, NetInv, TypesOK, Known, IsServer, IsPerson
<1>2. ASSUME NEW z \in Clients \ {x}
      PROVE  Unmoved(z) /\ IsServer(z)' = IsServer(z) /\ IsPerson(z)' = IsPerson(z)
             /\ servptr'[z] = servptr[z]
  BY <1>0, <1>2 DEF server_estab, Establish, NetInv, TypesOK, Unmoved, Known, IsServer, IsPerson
<1>3. Idle /\ Idle' /\ exit_list' = exit_list /\ serv_list' = serv_list \cup {x}
  BY DEF server_estab, Establish, Idle
<1>4. told' = [l \in Locals |->
                CASE l = x -> Burst(x)
                  [] l \in serv_list /\ Fits(told[l], x, Me) -> Add(told[l], x, Me)
                  [] OTHER -> told[l]]
  BY DEF server_estab
<1>5. \A l \in serv_list : Fits(told[l], x, Me)
  BY <1>0, <1>1, <1>3, FitsAlways DEF ToldInv
<1>6. confused' = {}
  <2>1. ~ Misplaced(x)
    BY <1>0, BurstInOrder
  <2> QED BY <1>5, <2>1 DEF server_estab, ToldInv
<1>7. ASSUME NEW l \in serv_list PROVE ViewOK(l)'
  <2>1. l \in Locals /\ l # x /\ ViewOK(l)
    BY <1>0, <1>7 DEF NetInv, TypesOK, ToldInv
  <2>2. told'[l] = Add(told[l], x, servptr'[x])
    BY <1>1, <1>4, <1>5, <1>7, <2>1
  <2>3. from'[x] # l
    BY <1>0, <1>1, <2>1
  <2> QED BY <1>0, <1>1, <1>2, <1>3, <2>1, <2>2, <2>3, ViewJoin
<1>8a. told'[x] = Burst(x)
  <2> DEFINE F(l) == CASE l = x -> Burst(x)
                       [] l \in serv_list /\ Fits(told[l], x, Me) -> Add(told[l], x, Me)
                       [] OTHER -> told[l]
  <2>1. told'[x] = F(x)
    <3> HIDE DEF F
    <3>1. told' = [l \in Locals |-> F(l)]
      BY <1>4 DEF F
    <3> QED BY <3>1
  <2>2. F(x) = Burst(x)
    BY <1>0
  <2> QED BY <2>1, <2>2
<1>8. ViewOK(x)'
  <2> DEFINE u == told'[x]
  <2>1. u = Burst(x)
    BY <1>8a
  <2>2. DOMAIN u = BurstServers(x) \cup BurstNicks(x) /\ \A z \in DOMAIN u : u[z] = servptr[z]
    BY <2>1 DEF Burst
  <2> HIDE DEF u
  <2>3. ASSUME NEW z \in DOMAIN u PROVE z \in Clients /\ (Shown(x, z)' \/ Exited(x, z)')
    <3>1. z \in Clients /\ from[z] # x /\ (IsServer(z) \/ IsPerson(z))
      BY <2>2, <2>3 DEF BurstServers, BurstNicks
    <3>2. z # x
      BY <1>0, <3>1
    <3>3. servptr'[z] = u[z] /\ from'[z] # x
      BY <1>1, <1>2, <2>2, <3>1, <3>2
    <3>4. CASE z \in exit_list
      <4>1. z \in Locals /\ IsServer(z)
        BY <3>1, <3>4 DEF NetInv, TypesOK, IsPerson
      <4>2. servptr[z] = Me
        BY <4>1 DEF NetInv, Placed, IsServer
      <4> QED BY <1>3, <2>2, <3>1, <3>4, <4>2 DEF Exited, u
    <3>5. CASE z \notin exit_list
      <4>1. Known(z)'
        BY <1>2, <3>1, <3>2, <3>5 DEF Known, Unmoved
      <4> QED BY <3>1, <3>3, <4>1 DEF Shown, u
    <3> QED BY <3>4, <3>5
  <2>4. ASSUME NEW z \in Clients, Owed(x, z)' PROVE z \in DOMAIN u
    <3>1. Known(z)' /\ from[z] # x /\ z # x
      BY <1>0, <1>1, <2>4 DEF Owed
    <3>2. Known(z)
      BY <1>2, <3>1 DEF Unmoved
    <3> QED BY <2>2, <3>1, <3>2 DEF Known, BurstServers, BurstNicks, IsPerson
  <2> QED BY <2>3, <2>4 DEF ViewOK, u
<1>9. told' = [l \in Locals |-> told'[l]]
  BY <1>4
<1>10. ASSUME NEW l \in serv_list PROVE Closed(l)'
  <2>1. l \in Locals /\ l # x /\ Closed(l) /\ Fits(told[l], x, Me)
    BY <1>0, <1>5, <1>10 DEF NetInv, TypesOK, ToldInv
  <2>2. told'[l] = Add(told[l], x, Me)
    BY <1>4, <1>10, <2>1
  <2> QED BY <2>1, <2>2, ClosedAdd
<1>11. Closed(x)'
  <2>1. told'[x] = Burst(x)
    BY <1>8a
  <2>2. DOMAIN Burst(x) = BurstServers(x) \cup BurstNicks(x) /\ \A z \in DOMAIN Burst(x) : Burst(x)[z] = servptr[z]
    BY DEF Burst
  <2>3. ~ Misplaced(x)
    BY <1>0, BurstInOrder
  <2>4. \A z \in DOMAIN Burst(x) : servptr[z] \in DOMAIN Burst(x) \cup {Me}
    BY <2>2, <2>3 DEF Misplaced
  <2> QED BY <2>1, <2>2, <2>4 DEF Closed
<1> QED BY <1>3, <1>6, <1>7, <1>8, <1>9, <1>10, <1>11 DEF ToldInv, OneSide
LEMMA ClosedWithout ==
  ASSUME NEW l, Closed(l), NEW x, told'[l] = Topo!Without(told[l], Topo!Behind(told[l], x))
  PROVE  Closed(l)'
<1> DEFINE B == Topo!Behind(told[l], x)
<1>1. \A z \in DOMAIN told[l] : told[l][z] \in B => z \in B
  BY BehindGrows
<1>2. DOMAIN told'[l] = DOMAIN told[l] \ B /\ \A z \in DOMAIN told[l] \ B : told'[l][z] = told[l][z]
  <2> DEFINE u == told'[l]
             v == told[l]
  <2>1. u = Topo!Without(v, B)
    OBVIOUS
  <2> HIDE DEF B, u, v
  <2>2. DOMAIN u = DOMAIN v \ B /\ \A z \in DOMAIN v \ B : u[z] = v[z]
    BY <2>1, WithoutIs
  <2> QED BY <2>2 DEF u, v
<1> HIDE DEF B
<1> QED BY <1>1, <1>2 DEF Closed

(* A person leaves, and the line that tells of it.                         *)
LEMMA ViewLeave ==
  ASSUME NetInv, NEW l, ViewOK(l), Idle, Idle', exit_list \subseteq exit_list',
         NEW x \in Clients, ~ Known(x)', \A w \in Clients : Known(w) => servptr[w] # x,
         \A z \in Clients \ {x} : Unmoved(z),
         \/ from[x] = l /\ told'[l] = told[l]
         \/ told'[l] = Topo!Without(told[l], Topo!Behind(told[l], x))
  PROVE  ViewOK(l)'
<1> DEFINE v == told[l]
           u == told'[l]
           B == Topo!Behind(v, x)
<1>0. DOMAIN v \subseteq Clients
  BY DEF ViewOK
<1>1. x \in DOMAIN v => x \in B
  BY BehindGrows
<1>2. ASSUME u = Topo!Without(v, B)
      PROVE  DOMAIN u = DOMAIN v \ B /\ \A z \in DOMAIN v \ B : u[z] = v[z]
  <2> HIDE DEF B, u, v
  <2> QED BY <1>2, WithoutIs
<1>3. ASSUME NEW z \in DOMAIN u PROVE z \in Clients /\ (Shown(l, z)' \/ Exited(l, z)')
  <2>1. z \in DOMAIN v /\ u[z] = v[z] /\ (z = x => from[x] = l)
    BY <1>1, <1>2, <1>3
  <2>2. z \in Clients /\ (Shown(l, z) \/ Exited(l, z))
    BY <1>0, <2>1 DEF ViewOK, Splits
  <2>3. CASE Shown(l, z)
    <3>1. z \in Clients \ {x}
      BY <2>1, <2>2, <2>3 DEF Shown
    <3> QED BY <2>1, <2>3, <3>1 DEF Shown, Unmoved
  <2>4. CASE Exited(l, z)
    BY <2>1, <2>2, <2>4 DEF Exited
  <2> QED BY <2>2, <2>3, <2>4
<1>4. ASSUME NEW z \in Clients, Owed(l, z)' PROVE z \in DOMAIN u
  <2>1. z \in Clients \ {x} /\ Owed(l, z)
    BY <1>4 DEF Owed, Unmoved
  <2>2. z \in DOMAIN v /\ Shown(l, z)
    BY <2>1 DEF ViewOK, Owed, Exited, Splits, Known
  <2>3. z \notin B
    BY <2>1, <2>2, GoneAlone
  <2> QED BY <1>2, <2>2, <2>3
<1> HIDE DEF u
<1> QED BY <1>3, <1>4 DEF ViewOK, u

LEMMA ToldExitPerson ==
  ASSUME NetInv, ToldInv, NEW x \in Clients, exit_person(x)
  PROVE  ToldInv'
<1>0. Idle /\ Idle' /\ IsPerson(x) /\ serv_list' = serv_list /\ confused' = confused /\ Dispose(x)
  BY DEF exit_person, ExitPerson, Idle, links
<1>1. told' = [l \in Locals |-> IF l \in serv_list \ {from[x]}
                                THEN Topo!Without(told[l], Topo!Behind(told[l], x))
                                ELSE told[l]]
  BY DEF exit_person, TellGone
<1>2. ASSUME NEW w \in Clients, Known(w) PROVE servptr[w] # x
  <2>1. x \notin Hosts /\ x # Me
    BY <1>0, NetworkAssumption DEF IsPerson, Hosts, IsServer
  <2> QED BY <1>2, <2>1, ServerOfRemote
<1>3. \A z \in Clients \ {x} : Unmoved(z)
  BY <1>0, DisposeOthers
<1>4. ~ Known(x)' /\ exit_list \subseteq exit_list'
  BY <1>0, DisposeSelf
<1>5. ASSUME NEW l \in serv_list PROVE ViewOK(l)' /\ Closed(l)'
  <2>1. l \in Locals /\ ViewOK(l) /\ Closed(l)
    BY <1>5 DEF NetInv, TypesOK, ToldInv
  <2>2. CASE l = from[x]
    <3>1. told'[l] = told[l]
      BY <1>1, <2>1, <2>2
    <3>2. ViewOK(l)'
      BY <1>0, <1>2, <1>3, <1>4, <2>1, <2>2, <3>1, ViewLeave
    <3> QED BY <2>1, <3>1, <3>2 DEF Closed
  <2>3. CASE l # from[x]
    <3>1. told'[l] = Topo!Without(told[l], Topo!Behind(told[l], x))
      BY <1>1, <1>5, <2>1, <2>3
    <3>2. ViewOK(l)'
      BY <1>0, <1>2, <1>3, <1>4, <2>1, <3>1, ViewLeave
    <3> QED BY <2>1, <3>1, <3>2, ClosedWithout
  <2> QED BY <2>2, <2>3
<1>6. told' = [l \in Locals |-> told'[l]]
  BY <1>1
<1> QED BY <1>0, <1>5, <1>6 DEF ToldInv, OneSide

(* A split begins.                                                         *)
LEMMA ViewSplit ==
  ASSUME NEW l, ViewOK(l), Idle, NEW x, stack' = <<x>>, told'[l] = told[l], exit_list' = exit_list,
         \A z \in Clients : Unmoved(z) \/ (~ Known(z) /\ z = x /\ from'[z] = x)
  PROVE  ViewOK(l)'
<1>1. ASSUME NEW z \in DOMAIN told[l] PROVE Shown(l, z)' \/ Exited(l, z)'
  <2>1. z \in Clients /\ (Shown(l, z) \/ Exited(l, z))
    BY DEF ViewOK, Splits
  <2> QED BY <2>1 DEF Shown, Exited, Unmoved
<1>2. stack'[1] = x
  OBVIOUS
<1>3. ASSUME NEW z \in Clients, Owed(l, z)' PROVE Owed(l, z)
  <2>1. ~ Idle'
    BY DEF Idle
  <2>2. Known(z)' /\ from'[z] # l /\ from'[z] # x
    BY <1>2, <1>3, <2>1 DEF Owed
  <2> QED BY <2>2 DEF Owed, Unmoved
<1> QED BY <1>1, <1>3 DEF ViewOK

LEMMA ToldSplit ==
  ASSUME ToldInv, Idle, NEW x, stack' = <<x>>, source' \in {Me, from'[x]},
         exit_list' = exit_list, confused' = confused, serv_list' \subseteq serv_list,
         told' = [l \in Locals |-> told'[l]], \A l \in serv_list' : told'[l] = told[l],
         \A z \in Clients : Unmoved(z) \/ (~ Known(z) /\ z = x /\ from'[z] = x)
  PROVE  ToldInv'
<1>1. ASSUME NEW l \in serv_list' PROVE ViewOK(l)' /\ Closed(l)'
  <2>1. ViewOK(l) /\ Closed(l) /\ told'[l] = told[l]
    BY <1>1 DEF ToldInv
  <2>2. ViewOK(l)'
    BY <2>1, ViewSplit
  <2> QED BY <2>1, <2>2 DEF Closed
<1>2. Len(stack') = 1 /\ stack'[1] = x
  OBVIOUS
<1>3. OneSide'
  BY <1>2 DEF OneSide
<1> QED BY <1>1, <1>3 DEF ToldInv

LEMMA ToldExitServer ==
  ASSUME NetInv, ToldInv, NEW x \in Clients, NEW by \in {from[x], Me}, exit_server(x, by)
  PROVE  ToldInv'
<1>1. ASSUME NEW z \in Clients PROVE Unmoved(z)
  BY DEF exit_server, tree, Unmoved, Known, IsServer, IsPerson
<1>2. /\ Idle /\ stack' = <<x>> /\ source' \in {Me, from'[x]} /\ exit_list' = exit_list
      /\ confused' = confused /\ serv_list' = serv_list \ {x}
  BY DEF exit_server, tree
<1>3. told' = [l \in Locals |-> IF l = x THEN Empty ELSE told[l]]
  BY DEF exit_server
<1>4. \A l \in serv_list' : told'[l] = told[l]
  BY <1>2, <1>3 DEF NetInv, TypesOK
<1>5. told' = [l \in Locals |-> told'[l]]
  BY <1>3
<1> QED BY <1>1, <1>2, <1>4, <1>5, ToldSplit

LEMMA ToldOverridden ==
  ASSUME NetInv, ToldInv, NEW x \in Locals, server_estab_overridden(x)
  PROVE  ToldInv'
<1>0. x \in Clients /\ from[x] = x /\ x \notin exit_list /\ status[x] = "unknown" /\ ~ Known(x)
  BY DEF Clients, NetInv, server_estab_overridden, Establish, Placed, Known, IsServer, IsPerson
<1>1. /\ Idle /\ stack' = <<x>> /\ source' = Me /\ exit_list' = exit_list /\ told' = told
      /\ confused' = confused /\ serv_list' = serv_list /\ from' = from
  BY DEF server_estab_overridden, Establish
<1>2. ASSUME NEW z \in Clients \ {x} PROVE Unmoved(z)
  BY <1>0, <1>2 DEF server_estab_overridden, Establish, NetInv, TypesOK, Unmoved, Known, IsServer, IsPerson
<1>3. told = [l \in Locals |-> told[l]]
  BY DEF ToldInv
<1> QED BY <1>0, <1>1, <1>2, <1>3, ToldSplit
(* The calls under way: Top is one of them, and only the last is for Top.  *)
LEMMA TopIs ==
  ASSUME NetInv, ToldInv, ~ Idle
  PROVE  /\ Len(stack) \in Nat /\ Len(stack) >= 1 /\ Top \in Items(stack)
         /\ Top \in Hosts /\ Top \in Clients /\ Top # Me /\ Known(Top)
         /\ stack[1] \in Hosts /\ from[Top] = from[stack[1]]
         /\ \A i \in 1 .. Len(stack) : stack[i] = Top => i = Len(stack)
<1>1. stack \in Seq(Clients) /\ stack # << >>
  BY DEF NetInv, TypesOK, Idle
<1>2. Len(stack) \in Nat /\ Len(stack) >= 1 /\ 1 \in 1 .. Len(stack) /\ Len(stack) \in 1 .. Len(stack)
  BY <1>1
<1>3. Top \in Items(stack) /\ Top \in Hosts /\ stack[1] \in Hosts
  BY <1>2 DEF Top, Items, NetInv, Splitting
<1>4. from[Top] = from[stack[1]]
  BY <1>2 DEF Top, ToldInv, OneSide
<1>5. ASSUME NEW i \in 1 .. Len(stack), stack[i] = Top, i # Len(stack) PROVE FALSE
  <2>1. Before(GlobalClientList, Top, Top)
    BY <1>2, <1>5 DEF NetInv, Splitting, Top
  <2> QED BY <2>1 DEF Before, NetInv, Ordered, Injective
<1>6. Top \in Clients /\ Top # Me /\ Known(Top)
  BY <1>3, NetworkAssumption DEF Hosts, Known
<1> QED BY <1>2, <1>3, <1>4, <1>5, <1>6

(* A user of a server that is leaving: the links still have it.            *)
LEMMA ToldSplitUser ==
  ASSUME NetInv, ToldInv, exit_recursion_user
  PROVE  ToldInv'
<1>0. ~ Idle
  BY DEF exit_recursion_user, Idle
<1>1. PICK x \in users[Top] : ExitPerson(x) /\ Free({x})
  BY DEF exit_recursion_user
<1>2. /\ told' = told /\ exit_list' = exit_list /\ stack' = stack /\ source' = source
      /\ serv_list' = serv_list /\ confused' = confused
  BY <1>1 DEF exit_recursion_user, ExitPerson, links
<1>3. x \in Clients /\ IsPerson(x) /\ servptr[x] = Top /\ Known(x)
  <2>1. Top \in Nodes
    BY <1>0, TopIs DEF Nodes
  <2> QED BY <1>1, <2>1 DEF NetInv, Mirrored, Known, IsPerson
<1>4. from[x] = from[stack[1]] /\ Top \in Items(stack)
  BY <1>0, <1>3, TopIs, ServerOfRemote
<1>5. ASSUME NEW z \in Clients, z # x
      PROVE  /\ status'[z] = status[z] /\ from'[z] = from[z] /\ servptr'[z] = servptr[z]
             /\ Known(z)' = Known(z)
  BY <1>1, <1>2, <1>5 DEF Free, Known, IsServer, IsPerson
<1>6. status'[x] = "free" /\ ~ Known(x)'
  BY <1>1, <1>3 DEF Free, Known, IsServer, IsPerson
<1>7. \A i \in 1 .. Len(stack) : stack[i] \in Clients /\ stack[i] # x
  BY <1>3 DEF NetInv, Splitting, Hosts, IsServer, IsPerson
<1>8. from'[stack[1]] = from[stack[1]] /\ 1 \in 1 .. Len(stack)
  <2>1. 1 \in 1 .. Len(stack)
    BY <1>0, TopIs
  <2> QED BY <1>5, <1>7, <2>1
<1>9. Idle' = Idle /\ Items(stack)' = Items(stack)
  BY <1>2 DEF Idle, Items
<1>10. ASSUME NEW l \in serv_list PROVE ViewOK(l)' /\ Closed(l)'
  <2>0. ViewOK(l) /\ Closed(l)
    BY <1>10 DEF ToldInv
  <2>1. ASSUME NEW z \in DOMAIN told[l] PROVE z \in Clients /\ (Shown(l, z)' \/ Exited(l, z)' \/ Splits(l, z)')
    <3>0. z \in Clients /\ (Shown(l, z) \/ Exited(l, z) \/ Splits(l, z))
      BY <2>0, <2>1 DEF ViewOK
    <3>1. CASE z = x
      <4>1. Shown(l, z)
        BY <1>3, <3>0, <3>1 DEF Exited, Splits, IsPerson
      <4>2. told[l][z] = Top /\ from[stack[1]] # l
        BY <1>3, <1>4, <3>1, <4>1 DEF Shown
      <4> QED BY <1>0, <1>2, <1>4, <1>6, <1>8, <1>9, <3>0, <3>1, <4>2 DEF Splits
    <3>2. CASE z # x
      <4>1. CASE Shown(l, z)
        BY <1>2, <1>5, <3>0, <3>2, <4>1 DEF Shown
      <4>2. CASE Exited(l, z)
        BY <1>2, <3>0, <4>2 DEF Exited
      <4>3. CASE Splits(l, z)
        BY <1>2, <1>5, <1>8, <1>9, <3>0, <3>2, <4>3 DEF Splits
      <4> QED BY <3>0, <4>1, <4>2, <4>3
    <3> QED BY <3>1, <3>2
  <2>2. ASSUME NEW z \in Clients, Owed(l, z)' PROVE z \in DOMAIN told[l]
    <3>1. Owed(l, z)
      BY <1>2, <1>5, <1>6, <1>9, <2>2 DEF Owed
    <3> QED BY <2>0, <3>1 DEF ViewOK
  <2>3. ViewOK(l)'
    BY <1>2, <2>1, <2>2 DEF ViewOK
  <2> QED BY <1>2, <2>0, <2>3 DEF Closed
<1>11. OneSide'
  BY <1>2, <1>5, <1>7, <1>8, <1>9 DEF ToldInv, OneSide
<1> QED BY <1>2, <1>10, <1>11 DEF ToldInv

(* The call for a server of the server that is leaving.                    *)
LEMMA ToldDescend ==
  ASSUME NetInv, ToldInv, exit_recursion_server
  PROVE  ToldInv'
<1>0. ~ Idle
  BY DEF exit_recursion_server, Idle
<1>1. PICK x \in servers[Top] : stack' = Append(stack, x)
  BY DEF exit_recursion_server
<1>2. /\ told' = told /\ exit_list' = exit_list /\ source' = source /\ status' = status
      /\ from' = from /\ servptr' = servptr /\ serv_list' = serv_list /\ confused' = confused
  BY DEF exit_recursion_server, tree, links, peers
<1>3. x \in Clients /\ servptr[x] = Top /\ Known(x)
  <2>1. Top \in Nodes
    BY <1>0, TopIs DEF Nodes
  <2> QED BY <1>1, <2>1 DEF NetInv, Mirrored, Known, Hosts
<1>4. from[x] = from[stack[1]]
  BY <1>0, <1>3, TopIs, ServerOfRemote
<1>5. /\ Len(stack) \in Nat /\ Len(stack') = Len(stack) + 1 /\ stack'[Len(stack')] = x
      /\ \A i \in 1 .. Len(stack) : stack'[i] = stack[i]
  BY <1>1, <1>3 DEF NetInv, TypesOK
<1>6. 1 \in 1 .. Len(stack) /\ stack'[1] = stack[1]
  BY <1>0, <1>5, TopIs
<1>7. ~ Idle' /\ Items(stack) \subseteq Items(stack)'
  <2>1. \A i \in 1 .. Len(stack) : i \in 1 .. Len(stack')
    BY <1>5
  <2> QED BY <1>1, <1>5, <1>6, <2>1 DEF Idle, Items
<1>8. ASSUME NEW l \in serv_list PROVE ViewOK(l)' /\ Closed(l)'
  <2>0. ViewOK(l) /\ Closed(l)
    BY <1>8 DEF ToldInv
  <2>1. ASSUME NEW z \in Clients PROVE Known(z)' = Known(z)
    BY <1>2 DEF Known, IsServer, IsPerson
  <2>2. ASSUME NEW z \in DOMAIN told[l] PROVE Shown(l, z)' \/ Exited(l, z)' \/ Splits(l, z)'
    <3>1. z \in Clients /\ (Shown(l, z) \/ Exited(l, z) \/ Splits(l, z))
      BY <2>0, <2>2 DEF ViewOK
    <3> QED BY <1>2, <1>6, <1>7, <2>1, <3>1 DEF Shown, Exited, Splits
  <2>3. ASSUME NEW z \in Clients, Owed(l, z)' PROVE Owed(l, z)
    BY <1>0, <1>2, <1>6, <1>7, <2>1, <2>3 DEF Owed
  <2>4. ViewOK(l)'
    BY <1>2, <2>0, <2>2, <2>3 DEF ViewOK
  <2> QED BY <1>2, <2>0, <2>4 DEF Closed
<1>9. OneSide'
  <2>1. ASSUME NEW i \in 1 .. Len(stack') PROVE from[stack'[i]] = from[stack[1]]
    <3>1. i \in 1 .. Len(stack) \/ i = Len(stack')
      BY <1>5
    <3> QED BY <1>0, <1>4, <1>5, <3>1 DEF ToldInv, OneSide
  <2> QED BY <1>0, <1>2, <1>6, <2>1 DEF ToldInv, OneSide
<1> QED BY <1>2, <1>8, <1>9 DEF ToldInv

LEMMA ToldRemove ==
  ASSUME NetInv, ToldInv, remove_exited_clients
  PROVE  ToldInv'
<1>0. /\ Idle /\ Idle' /\ Free(exit_list) /\ exit_list' = {} /\ serv_list' = serv_list
      /\ confused' = {}
  BY DEF remove_exited_clients, Idle, links, ToldInv
<1>1. told' = [l \in Locals |-> Topo!Without(told[l], exit_list)]
  BY DEF remove_exited_clients
<1>2. ASSUME NEW z \in Clients PROVE Unmoved(z)
  BY <1>0 DEF Free, NetInv, TypesOK, Unmoved, Known, IsServer, IsPerson
<1>3. ASSUME NEW l \in serv_list PROVE ViewOK(l)' /\ Closed(l)'
  <2> DEFINE v == told[l]
             u == told'[l]
  <2>0. l \in Locals /\ ViewOK(l) /\ Closed(l)
    BY <1>3 DEF NetInv, TypesOK, ToldInv
  <2>1. DOMAIN u = DOMAIN v \ exit_list /\ \A z \in DOMAIN v \ exit_list : u[z] = v[z]
    BY <1>1, <2>0 DEF Topo!Without
  <2> HIDE DEF u
  <2>2. ASSUME NEW z \in DOMAIN u PROVE z \in Clients /\ Shown(l, z)' /\ Shown(l, z)
    <3>1. z \in Clients /\ Shown(l, z) /\ u[z] = v[z]
      BY <1>0, <2>0, <2>1, <2>2 DEF ViewOK, Exited, Splits
    <3> QED BY <1>2, <3>1 DEF Shown, Unmoved, u
  <2>3. ASSUME NEW z \in Clients, Owed(l, z)' PROVE z \in DOMAIN u
    <3>1. Owed(l, z) /\ z \notin exit_list
      BY <1>0, <1>2, <2>3 DEF Owed, Unmoved, Known
    <3> QED BY <2>0, <2>1, <3>1 DEF ViewOK
  <2>4. ViewOK(l)'
    BY <2>2, <2>3 DEF ViewOK, u
  <2>5. ASSUME NEW z \in DOMAIN u PROVE u[z] \in DOMAIN u \cup {Me}
    <3>1. z \in Clients /\ Known(z) /\ v[z] = servptr[z] /\ u[z] = v[z] /\ v[z] \in DOMAIN v \cup {Me}
      BY <2>0, <2>1, <2>2, <2>5 DEF Shown, Closed
    <3>2. servptr[z] # Me => servptr[z] \notin exit_list
      BY <3>1, ServerOfRemote DEF Hosts
    <3> QED BY <2>1, <3>1, <3>2
  <2> QED BY <2>4, <2>5 DEF Closed, u
<1>4. told' = [l \in Locals |-> told'[l]]
  BY <1>1
<1> QED BY <1>0, <1>3, <1>4 DEF ToldInv, OneSide

LEMMA ToldInvInit == Init => ToldInv
<1> SUFFICES ASSUME Init PROVE ToldInv
  OBVIOUS
<1> QED BY DEF Init, ToldInv, OneSide, Idle
(* A server without users or servers leaves, and the SQUIT that tells of   *)
(* it: with it go the clients the split has freed below it.                *)
LEMMA ToldReturn ==
  ASSUME NetInv, NetInv', ToldInv, exit_one_client
  PROVE  ToldInv'
<1>t. PICK t : t = Top
  OBVIOUS
<1>0. ~ Idle
  BY DEF exit_one_client, Idle
<1>1. /\ users[t] = {} /\ servers[t] = {} /\ Dispose(t) /\ serv_list' = serv_list
      /\ confused' = confused /\ stack' = SubSeq(stack, 1, Len(stack) - 1)
      /\ source' = IF Len(stack) = 1 THEN Nil ELSE source
  BY <1>t DEF exit_one_client
<1>2. told' = [l \in Locals |-> IF l \in serv_list \ {t, source}
                                THEN Topo!Without(told[l], Topo!Behind(told[l], t))
                                ELSE told[l]]
  BY <1>t DEF exit_one_client, TellGone
<1>3. /\ Len(stack) \in Nat /\ Len(stack) >= 1 /\ t \in Items(stack)
      /\ t \in Hosts /\ t \in Clients /\ t # Me /\ Known(t)
      /\ stack[1] \in Hosts /\ from[t] = from[stack[1]]
      /\ \A i \in 1 .. Len(stack) : stack[i] = t => i = Len(stack)
  BY <1>0, <1>t, TopIs
<1>4. ASSUME NEW w \in Clients, Known(w) PROVE servptr[w] # t
  <2>1. users[t] = {x \in Clients : IsPerson(x) /\ servptr[x] = t} /\ servers[t] = {x \in Hosts : servptr[x] = t}
    BY <1>3 DEF NetInv, Mirrored, Nodes
  <2> QED BY <1>1, <1>4, <2>1 DEF Known, Hosts, IsPerson
<1>5. \A z \in Clients \ {t} : /\ Unmoved(z) /\ (z \in exit_list' => z \in exit_list)
                               /\ status'[z] = status[z] /\ from'[z] = from[z]
  BY <1>1, <1>3, DisposeOthers
<1>6. ~ Known(t)' /\ exit_list \subseteq exit_list'
  BY <1>1, <1>3, DisposeSelf
<1>7. t \notin serv_list
  <2>1. CASE Len(stack) = 1
    <3>1. t = stack[1]
      BY <1>t, <2>1 DEF Top
    <3> QED BY <1>0, <3>1 DEF NetInv, Linked
  <2>2. CASE Len(stack) # 1
    <3>1. Len(stack) \in 2 .. Len(stack) /\ Len(stack) - 1 \in 1 .. Len(stack)
      BY <1>3, <2>2
    <3>2. servptr[t] = stack[Len(stack) - 1] /\ stack[Len(stack) - 1] \in Hosts
      BY <1>t, <3>1 DEF NetInv, Splitting, Top
    <3>3. servptr[t] # Me
      BY <3>2, NetworkAssumption DEF Hosts
    <3>4. t \in Remotes
      BY <1>3, <3>3, ServerOfRemote
    <3> QED BY <3>4, NetworkAssumption DEF NetInv, TypesOK
  <2> QED BY <2>1, <2>2
<1>8. /\ Len(stack') = Len(stack) - 1
      /\ \A i \in 1 .. Len(stack') : i \in 1 .. Len(stack) /\ stack'[i] = stack[i] /\ stack[i] # t /\ stack[i] \in Clients
  <2>1. stack \in Seq(Clients)
    BY DEF NetInv, TypesOK
  <2>2. Len(stack') = Len(stack) - 1 /\ \A i \in 1 .. Len(stack') : stack'[i] = stack[i]
    <3> DEFINE n == Len(stack)
               r == SubSeq(stack, 1, n - 1)
    <3>1. n = Len(stack) /\ n >= 1 /\ stack' = r
      BY <1>1, <1>3
    <3> HIDE DEF n
    <3>2. Len(r) = n - 1 /\ \A i \in 1 .. (n - 1) : r[i] = stack[i]
      BY <2>1, <3>1, CallReturns
    <3> HIDE DEF r
    <3> QED BY <3>1, <3>2
  <2>3. \A i \in 1 .. Len(stack') : i \in 1 .. Len(stack) /\ i # Len(stack) /\ stack[i] \in Clients
    BY <1>3, <2>1, <2>2
  <2> QED BY <1>3, <2>2, <2>3
<1>9. \A i \in 1 .. Len(stack) : stack[i] # t => i \in 1 .. Len(stack')
  BY <1>t, <1>3, <1>8 DEF Top
<1>10. Idle' <=> Len(stack) = 1
  <2>1. stack \in Seq(Clients) /\ stack' \in Seq(Clients)
    BY DEF NetInv, TypesOK
  <2> QED BY <1>3, <1>8, <2>1 DEF Idle
<1>11. ASSUME ~ Idle' PROVE stack'[1] = stack[1] /\ from'[stack'[1]] = from[stack[1]] /\ 1 \in 1 .. Len(stack')
  <2>1. 1 \in 1 .. Len(stack')
    BY <1>3, <1>8, <1>10, <1>11
  <2> QED BY <1>5, <1>8, <2>1
(* Once the outermost call returns, nobody is behind it.                   *)
<1>12. ASSUME NEW z \in Clients, Known(z)', Idle' PROVE from[z] # stack[1]
  <2>1. z # t /\ from'[z] = from[z]
    BY <1>5, <1>6, <1>12
  <2>2. stack[1] = t
    BY <1>t, <1>10, <1>12 DEF Top
  <2>3. status'[z] # "free"
    BY <1>12 DEF Known, IsServer, IsPerson
  <2>4. CASE z \in Locals
    BY <2>1, <2>2, <2>3, <2>4 DEF NetInv, Placed
  <2>5. CASE z \in Remotes
    BY <1>1, <1>7, <1>12, <2>1, <2>2, <2>3, <2>5 DEF NetInv, Linked
  <2> QED BY <2>4, <2>5 DEF Clients
<1>13. ASSUME NEW l, NEW z \in Clients, Owed(l, z)' PROVE Owed(l, z) /\ z # t
  <2>1. Known(z)' /\ z # t /\ from'[z] = from[z] /\ from[z] # l
    BY <1>5, <1>6, <1>13 DEF Owed
  <2>2. Known(z)
    BY <1>5, <2>1 DEF Unmoved
  <2>3. from[z] # stack[1]
    BY <1>11, <1>12, <1>13, <2>1 DEF Owed
  <2> QED BY <2>1, <2>2, <2>3 DEF Owed
<1>14. ASSUME NEW l, NEW z \in Clients, z # t, told'[l][z] = told[l][z], Shown(l, z) \/ Exited(l, z)
       PROVE  Shown(l, z)' \/ Exited(l, z)'
  <2>1. Unmoved(z)
    BY <1>5, <1>14
  <2> QED BY <1>6, <1>14, <2>1 DEF Shown, Exited, Unmoved
<1>15. ASSUME NEW l \in serv_list, l = source PROVE ViewOK(l)' /\ Closed(l)'
  <2>0. l \in Locals /\ ViewOK(l) /\ Closed(l) /\ told'[l] = told[l]
    BY <1>2, <1>15 DEF NetInv, TypesOK, ToldInv
  <2>1. l = from[t] /\ l = from[stack[1]]
    <3>1. l # Me
      BY <2>0, NetworkAssumption DEF Clients
    <3> QED BY <1>0, <1>3, <1>15, <3>1 DEF ToldInv, OneSide
  <2>2. ASSUME NEW z \in DOMAIN told[l] PROVE z \in Clients /\ (Shown(l, z)' \/ Exited(l, z)')
    <3>1. z \in Clients /\ (Shown(l, z) \/ Exited(l, z))
      BY <2>0, <2>1, <2>2 DEF ViewOK, Splits
    <3>2. z # t
      BY <1>3, <2>1, <3>1 DEF Shown, Exited, Known
    <3> QED BY <1>14, <2>0, <3>1, <3>2
  <2>3. ASSUME NEW z \in Clients, Owed(l, z)' PROVE z \in DOMAIN told[l]
    <3>1. Owed(l, z)
      BY <1>13, <2>3
    <3> QED BY <2>0, <3>1 DEF ViewOK
  <2>4. ViewOK(l)'
    BY <2>0, <2>2, <2>3 DEF ViewOK
  <2> QED BY <2>0, <2>4 DEF Closed
<1>16. ASSUME NEW l \in serv_list, l # source PROVE ViewOK(l)' /\ Closed(l)'
  <2> DEFINE v == told[l]
             u == told'[l]
             B == Topo!Behind(v, t)
  <2>0. l \in Locals /\ ViewOK(l) /\ Closed(l)
    BY <1>16 DEF NetInv, TypesOK, ToldInv
  <2>1. u = Topo!Without(v, B)
    BY <1>2, <1>7, <1>16, <2>0
  <2>2. Closed(l)'
    BY <2>0, <2>1, ClosedWithout
  <2>3. DOMAIN u = DOMAIN v \ B /\ \A z \in DOMAIN v \ B : u[z] = v[z]
    <3> HIDE DEF B, u, v
    <3> QED BY <2>1, WithoutIs
  <2>4. /\ t \in DOMAIN v => t \in B
        /\ \A z \in DOMAIN v : v[z] \in B => z \in B
    BY BehindGrows
  <2>5. \A z \in DOMAIN v : Shown(l, z) /\ z # t => z \notin B
    BY <1>4, <2>0, GoneAlone
  <2> HIDE DEF B, u
  <2>6. ASSUME NEW z \in DOMAIN u PROVE z \in Clients /\ (Shown(l, z)' \/ Exited(l, z)' \/ Splits(l, z)')
    <3>1. z \in DOMAIN v /\ z \notin B /\ u[z] = v[z] /\ z # t
      BY <2>3, <2>4, <2>6
    <3>2. z \in Clients /\ (Shown(l, z) \/ Exited(l, z) \/ Splits(l, z))
      BY <2>0, <3>1 DEF ViewOK
    <3>3. CASE Splits(l, z)
      <4>1. status[z] = "free" /\ v[z] \in Items(stack) /\ from[stack[1]] # l
        BY <3>3 DEF Splits
      <4>2. PICK i \in 1 .. Len(stack) : v[z] = stack[i]
        BY <4>1 DEF Items
      <4>3. v[z] # Me
        BY <4>2, NetworkAssumption DEF NetInv, Splitting, Hosts
      <4>4. v[z] # t
        BY <2>0, <2>4, <3>1, <4>3 DEF Closed
      <4>5. i \in 1 .. Len(stack') /\ stack'[i] = stack[i]
        BY <1>8, <1>9, <4>2, <4>4
      <4>6. u[z] \in Items(stack)'
        BY <3>1, <4>2, <4>5 DEF Items
      <4>7. ~ Idle'
        BY <1>3, <1>8, <1>10, <4>5
      <4>8. status'[z] = "free"
        BY <1>5, <3>1, <3>2, <4>1
      <4> QED BY <1>11, <3>2, <4>1, <4>6, <4>7, <4>8 DEF Splits, u
    <3>4. CASE Shown(l, z) \/ Exited(l, z)
      BY <1>14, <3>1, <3>2, <3>4 DEF u
    <3> QED BY <3>2, <3>3, <3>4
  <2>7. ASSUME NEW z \in Clients, Owed(l, z)' PROVE z \in DOMAIN u
    <3>1. Owed(l, z) /\ z # t
      BY <1>13, <2>7
    <3>2. z \in DOMAIN v /\ Shown(l, z)
      BY <2>0, <3>1 DEF ViewOK, Owed, Exited, Splits, Known, IsServer, IsPerson
    <3> QED BY <2>3, <2>5, <3>1, <3>2
  <2>8. ViewOK(l)'
    BY <2>6, <2>7 DEF ViewOK, u
  <2> QED BY <2>2, <2>8
<1>17. OneSide'
  <2>1. SUFFICES ASSUME ~ Idle'
                 PROVE  /\ source' \in {Me, from'[stack'[1]]}
                        /\ \A i \in 1 .. Len(stack') : from'[stack'[i]] = from'[stack'[1]]
    BY DEF OneSide
  <2>2. source' = source
    BY <1>1, <1>10, <2>1
  <2>3. ASSUME NEW i \in 1 .. Len(stack') PROVE from'[stack'[i]] = from[stack[1]]
    <3>1. stack'[i] = stack[i] /\ stack[i] \in Clients \ {t} /\ i \in 1 .. Len(stack)
      BY <1>8, <2>3
    <3>2. from'[stack[i]] = from[stack[i]]
      BY <1>5, <3>1
    <3> QED BY <1>0, <3>1, <3>2 DEF ToldInv, OneSide
  <2> QED BY <1>0, <1>11, <2>1, <2>2, <2>3 DEF ToldInv, OneSide
<1>18. told' = [l \in Locals |-> told'[l]]
  BY <1>2
<1> QED BY <1>1, <1>15, <1>16, <1>17, <1>18 DEF ToldInv

LEMMA ToldInvNext == NetInv /\ NetInv' /\ ToldInv /\ [Next]_vars => ToldInv'
<1> SUFFICES ASSUME NetInv, NetInv', ToldInv, [Next]_vars PROVE ToldInv'
  OBVIOUS
<1>1. CASE UNCHANGED vars
  <2>1. /\ told' = told /\ exit_list' = exit_list /\ stack' = stack /\ source' = source
        /\ serv_list' = serv_list /\ confused' = confused
        /\ status' = status /\ from' = from /\ servptr' = servptr
    BY <1>1 DEF vars, tree, links, peers
  <2>2. \A l : ViewOK(l)' = ViewOK(l) /\ Closed(l)' = Closed(l)
    BY <2>1 DEF ViewOK, Closed, Shown, Exited, Splits, Owed, Known, IsServer, IsPerson, Idle, Items
  <2>3. OneSide' = OneSide
    BY <2>1 DEF OneSide, Idle
  <2> QED BY <2>1, <2>2, <2>3 DEF ToldInv
<1>2. CASE exit_recursion
  BY <1>2, ToldSplitUser, ToldDescend, ToldReturn DEF exit_recursion
<1>3. CASE Next
  BY <1>2, <1>3, ToldConnect, ToldRegister, ToldEstablish, ToldOverridden, ToldExitUnknown,
     ToldServer, ToldRemoteUser, ToldWrongDirection, ToldExitPerson, ToldExitServer,
     ToldRemove DEF Next
<1> QED BY <1>1, <1>3

(* A link is never told of a client it already knows, nor of a client      *)
(* before its server: not by the burst of server_estab, which reads the    *)
(* list of all blocks from its end, nor by a line sent while other links   *)
(* come up or splits are taken apart, for any network and any order.       *)
THEOREM AlwaysToldInOrder == Spec => []ToldInOrder
<1>1. ToldInv => ToldInOrder
  BY DEF ToldInv, ToldInOrder
<1> QED BY <1>1, NetInvInit, NetInvNext, ToldInvInit, ToldInvNext, PTL DEF Spec

-----------------------------------------------------------------------------
(* Network implements Topology: every step of the code is one step of the  *)
(* abstract tree or none.                                                   *)

Knowns == {z \in Clients : Known(z)}

(* The part of the tree that holds the clients of a set.                   *)
Part(D) == [z \in D |-> servptr[z]]

Upward(D) == D \subseteq Knowns /\ \A z \in D : servptr[z] \in D \cup {Me}

LEMMA PartIs ==
  ASSUME NEW D
  PROVE  DOMAIN Part(D) = D /\ \A z \in D : Part(D)[z] = servptr[z]
BY DEF Part

LEMMA KnownTreeIs ==
  KnownTree = Part(Knowns)
BY DEF KnownTree, Part, Knowns

LEMMA KnownsUpward ==
  ASSUME NetInv
  PROVE  Upward(Knowns)
<1>1. ASSUME NEW z \in Knowns, servptr[z] # Me PROVE servptr[z] \in Knowns
  <2>1. servptr[z] \in Hosts /\ Known(servptr[z])
    BY <1>1, ServerOfRemote DEF Knowns
  <2> QED BY <2>1 DEF Knowns, Hosts
<1> QED BY <1>1 DEF Upward

LEMMA PartRanked ==
  ASSUME NetInv, NEW D, D \subseteq Knowns
  PROVE  \E rank : Ranked(Part(D), rank)
<1> DEFINE n == Len(GlobalClientList)
           rank == [z \in D |-> n - Place(z)]
<1>1. n \in Nat
  BY DEF NetInv, TypesOK
<1>2. ASSUME NEW z \in D PROVE z \in Clients /\ Known(z) /\ Place(z) \in 1 .. n
  <2>1. z \in Clients /\ Known(z) /\ status[z] # "free"
    BY <1>2 DEF Knowns, Known, IsServer, IsPerson
  <2> QED BY <2>1, PlaceRange
<1>3. rank \in [D -> Nat]
  BY <1>1, <1>2
<1>4. ASSUME NEW z \in D, servptr[z] \in D PROVE rank[servptr[z]] < rank[z]
  <2>1. z \in Clients /\ Known(z) /\ servptr[z] # Me
    BY <1>2, <1>4, NetworkAssumption
  <2>2. z \in Remotes /\ status[z] # "free"
    BY <2>1, ServerOfRemote DEF Known, IsServer, IsPerson
  <2>3. Place(z) < Place(servptr[z])
    BY <2>2, PlaceBefore DEF NetInv, Ordered
  <2>4. Place(z) \in 1 .. n /\ Place(servptr[z]) \in 1 .. n
    BY <1>2, <1>4
  <2>5. rank[z] = n - Place(z) /\ rank[servptr[z]] = n - Place(servptr[z])
    BY <1>4
  <2> HIDE DEF rank, n
  <2> QED BY <1>1, <2>3, <2>4, <2>5
<1> HIDE DEF rank
<1>5. Ranked(Part(D), rank)
  BY <1>3, <1>4, PartIs DEF Ranked
<1> QED BY <1>5

(* What is behind a link: the clients whose from it is.                    *)
LEMMA BehindLink ==
  ASSUME NetInv, NEW D, Upward(D), NEW l \in D, l \in Locals
  PROVE  Topo!Behind(Part(D), l) = {z \in D : from[z] = l}
<1> DEFINE P == Part(D)
           B == Topo!Behind(P, l)
           S == {z \in D : from[z] = l}
<1>1. PICK rank : Ranked(P, rank)
  BY PartRanked DEF Upward
<1>2. DOMAIN P = D /\ \A z \in D : P[z] = servptr[z]
  BY PartIs
<1>3. ASSUME NEW z \in D
      PROVE  /\ z \in Clients /\ Known(z) /\ servptr[z] \in D \cup {Me}
             /\ z \in Locals => from[z] = z
             /\ servptr[z] # Me => from[servptr[z]] = from[z]
             /\ servptr[z] = Me => z \in Locals
  <2>1. z \in Clients /\ Known(z) /\ servptr[z] \in D \cup {Me} /\ status[z] # "free"
    BY <1>3 DEF Upward, Knowns, Known, IsServer, IsPerson
  <2>2. z \in Locals => from[z] = z
    BY <2>1 DEF NetInv, Placed
  <2>3. servptr[z] # Me => from[servptr[z]] = from[z]
    BY <2>1, ServerOfRemote
  <2>4. servptr[z] = Me => z \in Locals
    BY <2>1, NetworkAssumption DEF NetInv, Placed, Hosts, Clients
  <2> QED BY <2>1, <2>2, <2>3, <2>4
<1>4. B \subseteq D /\ l \in B /\ \A z \in D : P[z] \in B => z \in B
  BY <1>2, BehindGrows
<1>5. l \in S
  BY <1>3
<1>6. \A z \in DOMAIN P : P[z] \in S => z \in S
  <2>1. ASSUME NEW z \in D, servptr[z] \in S PROVE z \in S
    <3>1. servptr[z] \in D /\ servptr[z] # Me
      BY <1>3, <2>1, NetworkAssumption
    <3> QED BY <1>3, <2>1, <3>1
  <2> QED BY <1>2, <2>1
<1>7. B \subseteq S
  <2> HIDE DEF S, P
  <2> QED BY <1>1, <1>5, <1>6, BehindLeast
<1>8. S \subseteq B
  <2> HIDE DEF B, P
  <2> DEFINE X == {rank[z] : z \in S \ B}
  <2>1. SUFFICES ASSUME S \ B # {} PROVE FALSE
    OBVIOUS
  <2>2. X \in SUBSET Nat /\ X # {}
    BY <1>1, <1>2, <2>1 DEF Ranked
  <2>3. PICK x \in X : \A y \in X : x <= y
    BY <2>2, LeastNat
  <2>4. PICK z \in S \ B : x = rank[z]
    BY <2>3
  <2>5. z \in D /\ from[z] = l /\ z # l
    BY <1>4, <2>4
  <2>6. servptr[z] \in D /\ from[servptr[z]] = l
    BY <1>3, <2>5
  <2>7. servptr[z] \notin B
    BY <1>2, <1>4, <2>4, <2>5
  <2>8. rank[servptr[z]] \in X
    BY <2>6, <2>7
  <2>9. rank[servptr[z]] < rank[z] /\ rank[z] \in Nat /\ rank[servptr[z]] \in Nat
    BY <1>1, <1>2, <2>5, <2>6 DEF Ranked
  <2> QED BY <2>3, <2>4, <2>8, <2>9
<1> QED BY <1>7, <1>8
-----------------------------------------------------------------------------
(* What a split under way hides.                                           *)

H == Hidden(KnownTree)
Rest == Knowns \ H

LEMMA HiddenIs ==
  ASSUME NetInv
  PROVE  /\ H \subseteq Knowns /\ (Idle => H = {})
         /\ \A z \in Knowns : servptr[z] \in H => z \in H
         /\ ~ Idle => stack[1] \in H /\ H = Topo!Behind(Part(Knowns), stack[1])
<1>1. CASE Idle
  <2>1. H = {}
    BY <1>1 DEF H, Hidden
  <2> QED BY <1>1, <2>1
<1>2. CASE ~ Idle
  <2>1. H = Topo!Behind(Part(Knowns), stack[1])
    BY <1>2, KnownTreeIs DEF H, Hidden
  <2>2. stack[1] \in Knowns
    <3>1. 1 \in 1 .. Len(stack)
      BY <1>2 DEF NetInv, TypesOK, Idle
    <3> QED BY <3>1 DEF NetInv, Splitting, Hosts, Knowns, Known
  <2>3. DOMAIN Part(Knowns) = Knowns /\ \A z \in Knowns : Part(Knowns)[z] = servptr[z]
    BY PartIs
  <2>4. /\ Topo!Behind(Part(Knowns), stack[1]) \subseteq DOMAIN Part(Knowns)
        /\ stack[1] \in DOMAIN Part(Knowns) => stack[1] \in Topo!Behind(Part(Knowns), stack[1])
        /\ \A z \in DOMAIN Part(Knowns) : Part(Knowns)[z] \in Topo!Behind(Part(Knowns), stack[1])
             => z \in Topo!Behind(Part(Knowns), stack[1])
    BY BehindGrows
  <2> QED BY <1>2, <2>1, <2>2, <2>3, <2>4
<1> QED BY <1>1, <1>2

LEMMA HiddenLeast ==
  ASSUME NetInv, ~ Idle, NEW S, stack[1] \in S, \A z \in Knowns : servptr[z] \in S => z \in S
  PROVE  H \subseteq S
<1>1. PICK rank : Ranked(Part(Knowns), rank)
  BY PartRanked
<1>2. DOMAIN Part(Knowns) = Knowns /\ \A z \in Knowns : Part(Knowns)[z] = servptr[z]
  BY PartIs
<1>3. \A z \in DOMAIN Part(Knowns) : Part(Knowns)[z] \in S => z \in S
  BY <1>2
<1>4. Topo!Behind(Part(Knowns), stack[1]) \subseteq S
  BY <1>1, <1>3, BehindLeast
<1> QED BY <1>4, HiddenIs

LEMMA RestUpward ==
  ASSUME NetInv
  PROVE  Upward(Rest)
<1>1. Upward(Knowns)
  BY KnownsUpward
<1>2. \A z \in Knowns : servptr[z] \in H => z \in H
  BY HiddenIs
<1> QED BY <1>1, <1>2 DEF Upward, Rest

(* A hidden local client is the link whose split is under way.             *)
LEMMA HiddenLocal ==
  ASSUME NetInv, NEW z \in H, z \in Locals
  PROVE  ~ Idle /\ z = stack[1]
<1>0. ~ Idle
  BY HiddenIs
<1> DEFINE S == {stack[1]} \cup (Clients \ Locals)
<1>1. ASSUME NEW w \in Knowns, servptr[w] \in S PROVE w \in S
  <2>1. w \in Clients /\ Known(w)
    BY <1>1 DEF Knowns
  <2>2. stack[1] \in Clients
    BY <1>0, HiddenIs DEF Knowns
  <2>3. servptr[w] # Me
    BY <1>1, <2>2, NetworkAssumption
  <2> QED BY <2>1, <2>3, ServerOfRemote, NetworkAssumption
<1>2. H \subseteq S
  <2> HIDE DEF S
  <2>1. stack[1] \in S
    BY DEF S
  <2> QED BY <1>0, <1>1, <2>1, HiddenLeast
<1> QED BY <1>0, <1>2

LEMMA UpIs ==
  /\ Topo!Without(KnownTree, H) = Part(Rest)
  /\ Abstract!Without(KnownTree, H) = Part(Rest)
<1>1. KnownTree = Part(Knowns) /\ DOMAIN Part(Knowns) = Knowns /\ \A z \in Knowns : Part(Knowns)[z] = servptr[z]
  BY KnownTreeIs, PartIs
<1>2. Part(Rest) = [z \in Knowns \ H |-> Part(Knowns)[z]]
  BY <1>1 DEF Part, Rest
<1> QED BY <1>1, <1>2 DEF Topo!Without, Abstract!Without

LEMMA StackHidden ==
  ASSUME NetInv, ~ Idle, NEW i \in 1 .. Len(stack)
  PROVE  stack[i] \in H
<1> DEFINE n == Len(stack)
           S == {j \in 0 .. n : j >= 1 => stack[j] \in H}
<1>1. n \in Nat /\ 0 \in S
  BY DEF NetInv, TypesOK
<1>2. ASSUME NEW j \in 1 .. n, j - 1 \in S PROVE j \in S
  <2>1. j \in 0 .. n
    BY <1>1
  <2>2. CASE j = 1
    BY <2>1, <2>2, HiddenIs
  <2>3. CASE j # 1
    <3>1. j \in 2 .. n /\ j - 1 >= 1
      BY <1>1, <2>3
    <3>2. servptr[stack[j]] = stack[j - 1] /\ stack[j] \in Knowns
      BY <3>1 DEF NetInv, Splitting, Knowns, Hosts, Known
    <3>3. stack[j - 1] \in H
      BY <1>2, <3>1
    <3>4. stack[j] \in H
      BY <3>2, <3>3, HiddenIs
    <3> QED BY <2>1, <3>4
  <2> QED BY <2>2, <2>3
<1>3. \A j \in 0 .. n : j \in S
  <2> HIDE DEF S, n
  <2> QED BY <1>1, <1>2, Induction
<1>4. i \in 0 .. n /\ i >= 1
  BY <1>1
<1>5. i \in S
  BY <1>3, <1>4
<1> QED BY <1>4, <1>5
-----------------------------------------------------------------------------
(* What a link has been told is the rest of the tree, but for its side.    *)

LEMMA KnownShown ==
  ASSUME NEW l, ViewOK(l), NEW z \in DOMAIN told[l], Known(z)
  PROVE  Shown(l, z) /\ z \in Knowns
BY DEF ViewOK, Exited, Splits, Known, IsServer, IsPerson, Knowns

(* In a view, a split hides the clients it has freed.                      *)
LEMMA SplitsHidden ==
  ASSUME NetInv, NEW l, ViewOK(l), Closed(l), ~ Idle, NEW z \in DOMAIN told[l], Splits(l, z)
  PROVE  z \in Topo!Behind(told[l], stack[1])
<1> DEFINE v == told[l]
           B == Topo!Behind(v, stack[1])
           n == Len(stack)
           S == {j \in 0 .. n : j >= 1 /\ stack[j] \in DOMAIN v => stack[j] \in B}
<1>1. /\ stack[1] \in DOMAIN v => stack[1] \in B
      /\ \A w \in DOMAIN v : v[w] \in B => w \in B
  BY BehindGrows
<1> HIDE DEF B
<1>2. n \in Nat /\ 0 \in S
  BY DEF NetInv, TypesOK
<1>3. ASSUME NEW j \in 1 .. n, j - 1 \in S PROVE j \in S
  <2>1. j \in 0 .. n
    BY <1>2
  <2>2. CASE j = 1
    BY <1>1, <2>1, <2>2
  <2>3. CASE j # 1
    <3>1. j \in 2 .. n /\ j - 1 >= 1 /\ j - 1 \in 1 .. n
      BY <1>2, <2>3
    <3>2. SUFFICES ASSUME stack[j] \in DOMAIN v PROVE stack[j] \in B
      BY <2>1
    <3>3. servptr[stack[j]] = stack[j - 1] /\ Known(stack[j]) /\ stack[j - 1] # Me
      BY <3>1, NetworkAssumption DEF NetInv, Splitting, Hosts, Known
    <3>4. v[stack[j]] = stack[j - 1]
      BY <3>2, <3>3, KnownShown DEF Shown
    <3>5. stack[j - 1] \in DOMAIN v
      BY <3>2, <3>3, <3>4 DEF Closed
    <3>6. stack[j - 1] \in B
      BY <1>3, <3>1, <3>5
    <3> QED BY <1>1, <3>2, <3>4, <3>6
  <2> QED BY <2>2, <2>3
<1>4. \A j \in 0 .. n : j \in S
  <2> HIDE DEF S, n
  <2> QED BY <1>2, <1>3, Induction
<1>5. PICK i \in 1 .. n : v[z] = stack[i]
  BY DEF Splits, Items
<1>6. stack[i] # Me
  BY NetworkAssumption DEF NetInv, Splitting, Hosts
<1>7. stack[i] \in DOMAIN v
  BY <1>5, <1>6 DEF Closed
<1>8. i \in 0 .. n /\ i >= 1
  BY <1>2
<1>9. stack[i] \in B
  BY <1>4, <1>7, <1>8
<1>10. z \in B
  BY <1>1, <1>5, <1>9
<1> QED BY <1>10 DEF B

(* And of the others exactly those it hides here.                          *)
LEMMA ShownHidden ==
  ASSUME NetInv, NEW l, ViewOK(l), Closed(l), ~ Idle, NEW z \in DOMAIN told[l], Shown(l, z)
  PROVE  z \in Topo!Behind(told[l], stack[1]) <=> z \in H
<1> DEFINE v == told[l]
           B == Topo!Behind(v, stack[1])
           S == {stack[1]} \cup {w \in DOMAIN v : Shown(l, w) => w \in H}
           T == {w \in Knowns : w \in DOMAIN v => w \in B}
<1>0. stack[1] \in H /\ H \subseteq Knowns /\ \A w \in Knowns : servptr[w] \in H => w \in H
  BY HiddenIs
<1>1. PICK rank : Ranked(v, rank)
  BY ViewRanked
<1>2. /\ stack[1] \in DOMAIN v => stack[1] \in B
      /\ \A w \in DOMAIN v : v[w] \in B => w \in B
  BY BehindGrows
<1>3. ASSUME NEW w \in DOMAIN v, Known(w)
      PROVE  w \in Clients /\ w \in Knowns /\ Shown(l, w) /\ v[w] = servptr[w]
             /\ (servptr[w] # Me => servptr[w] \in DOMAIN v /\ Known(servptr[w]))
  <2>1. w \in Clients /\ w \in Knowns /\ Shown(l, w) /\ v[w] = servptr[w]
    BY <1>3, KnownShown DEF Shown, Knowns
  <2>2. servptr[w] # Me => servptr[w] \in DOMAIN v
    BY <1>3, <2>1 DEF Closed
  <2>3. servptr[w] # Me => Known(servptr[w])
    BY <1>3, <2>1, ServerOfRemote
  <2> QED BY <2>1, <2>2, <2>3
<1>4. B \subseteq S
  <2>1. ASSUME NEW w \in DOMAIN v, v[w] \in S, Shown(l, w) PROVE w \in H
    <3>1. Known(w) /\ w \in Knowns /\ v[w] = servptr[w]
      BY <1>3, <2>1 DEF Shown
    <3>2. servptr[w] \in H
      <4>1. CASE v[w] = stack[1]
        BY <1>0, <3>1, <4>1
      <4>2. CASE v[w] # stack[1]
        <5>1. v[w] \in DOMAIN v /\ (Shown(l, v[w]) => v[w] \in H)
          BY <2>1, <4>2
        <5>2. v[w] \in Clients
          BY <5>1 DEF ViewOK
        <5>3. servptr[w] # Me
          BY <3>1, <5>2, NetworkAssumption
        <5> QED BY <1>3, <2>1, <3>1, <5>1, <5>3
      <4> QED BY <4>1, <4>2
    <3> QED BY <1>0, <3>1, <3>2
  <2>2. \A w \in DOMAIN v : v[w] \in S => w \in S
    BY <2>1
  <2>3. stack[1] \in S
    OBVIOUS
  <2> HIDE DEF S, v
  <2> QED BY <1>1, <2>2, <2>3, BehindLeast
<1>5. H \subseteq T
  <2> HIDE DEF B
  <2>1. ASSUME NEW w \in Knowns, servptr[w] \in T, w \in DOMAIN v PROVE w \in B
    <3>1. Known(w) /\ servptr[w] # Me
      BY <2>1, NetworkAssumption DEF Knowns
    <3>2. v[w] = servptr[w] /\ servptr[w] \in DOMAIN v
      BY <1>3, <2>1, <3>1
    <3> QED BY <1>2, <2>1, <3>2
  <2>2. \A w \in Knowns : servptr[w] \in T => w \in T
    BY <2>1
  <2>3. stack[1] \in T
    BY <1>0, <1>2
  <2> HIDE DEF T
  <2> QED BY <2>2, <2>3, HiddenLeast
<1>6. z \in Knowns /\ z \in DOMAIN v /\ Known(z)
  BY <1>3 DEF Shown
<1> HIDE DEF B
<1>7. z \in B => z \in H
  BY <1>0, <1>4
<1>8. z \in H => z \in B
  BY <1>5, <1>6
<1> QED BY <1>7, <1>8 DEF B

LEMMA ViewIs ==
  ASSUME NetInv, ToldInv, NEW l \in serv_list
  PROVE  Topo!Without(told[l], exit_list \cup Hidden(told[l])) = Part({z \in Rest : from[z] # l})
<1> DEFINE v == told[l]
           G == exit_list \cup Hidden(v)
           D == {z \in Rest : from[z] # l}
<1>0. ViewOK(l) /\ Closed(l) /\ l \in Locals
  BY DEF ToldInv, NetInv, TypesOK
<1>1. ASSUME NEW z \in DOMAIN v, z \notin G PROVE z \in D /\ v[z] = servptr[z]
  <2>1. Shown(l, z) \/ Splits(l, z)
    BY <1>0, <1>1 DEF ViewOK, Exited
  <2>2. ~ Splits(l, z)
    <3>1. SUFFICES ASSUME Splits(l, z) PROVE FALSE
      OBVIOUS
    <3>2. ~ Idle
      BY <3>1 DEF Splits
    <3>3. z \in Topo!Behind(v, stack[1])
      BY <1>0, <3>1, <3>2, SplitsHidden
    <3> QED BY <1>1, <3>2, <3>3 DEF Hidden
  <2>3. Shown(l, z) /\ Known(z) /\ z \in Knowns /\ from[z] # l /\ v[z] = servptr[z]
    BY <1>0, <2>1, <2>2, KnownShown DEF Shown
  <2>4. z \notin H
    <3>1. CASE Idle
      BY <3>1, HiddenIs
    <3>2. CASE ~ Idle
      BY <1>0, <1>1, <2>3, <3>2, ShownHidden DEF Hidden
    <3> QED BY <3>1, <3>2
  <2> QED BY <2>3, <2>4 DEF Rest
<1>2. ASSUME NEW z \in D PROVE z \in DOMAIN v /\ z \notin G
  <2>1. z \in Clients /\ Known(z) /\ z \in Knowns /\ z \notin H /\ from[z] # l /\ z \notin exit_list
    BY <1>2 DEF Rest, Knowns, Known
  <2>2. ~ Idle => from[z] # stack[1]
    <3>1. SUFFICES ASSUME ~ Idle, from[z] = stack[1] PROVE FALSE
      OBVIOUS
    <3>2. stack[1] \in Knowns /\ stack[1] \in Clients /\ H = Topo!Behind(Part(Knowns), stack[1])
      BY <3>1, HiddenIs DEF Knowns
    <3>3. stack[1] \in Locals
      BY <2>1, <3>1, <3>2, NetworkAssumption DEF NetInv, TypesOK
    <3>4. H = {w \in Knowns : from[w] = stack[1]}
      BY <3>2, <3>3, KnownsUpward, BehindLink
    <3> QED BY <2>1, <3>1, <3>4
  <2>3. Owed(l, z)
    BY <2>1, <2>2 DEF Owed
  <2>4. z \in DOMAIN v /\ Shown(l, z)
    BY <1>0, <2>1, <2>3, KnownShown DEF ViewOK
  <2>5. z \notin Hidden(v)
    <3>1. CASE Idle
      BY <3>1 DEF Hidden
    <3>2. CASE ~ Idle
      BY <1>0, <2>1, <2>4, <3>2, ShownHidden DEF Hidden
    <3> QED BY <3>1, <3>2
  <2> QED BY <2>1, <2>4, <2>5
<1> HIDE DEF G, D, v
<1>3. DOMAIN v \ G = D /\ \A z \in D : v[z] = servptr[z]
  BY <1>1, <1>2
<1>4. Topo!Without(v, G) = Part(D)
  BY <1>3 DEF Topo!Without, Part
<1> QED BY <1>4 DEF v, G, D
-----------------------------------------------------------------------------
(* The steps of the abstract specification.                                *)

Live == Hosts \ H

Told == [l \in serv_list |-> Topo!Without(told[l], exit_list \cup Hidden(told[l]))]

LEMMA SameBehind ==
  ASSUME NEW view, NEW x
  PROVE  Abstract!Behind(view, x) = Topo!Behind(view, x)
BY DEF Abstract!Behind, Abstract!Above, Topo!Behind, Topo!Above

LEMMA LinksAre ==
  ASSUME NetInv
  PROVE  /\ serv_list = {x \in Live : servptr[x] = Me}
         /\ Live \subseteq Rest /\ serv_list \subseteq Locals
<1>1. Live \subseteq Rest
  BY DEF Live, Rest, Hosts, Knowns, Known
<1>2. serv_list \subseteq Locals
  BY DEF NetInv, TypesOK
<1>3. ASSUME NEW x \in serv_list PROVE x \in Live /\ servptr[x] = Me
  <2>1. x \in Locals /\ x \in Hosts /\ (~ Idle => x # stack[1])
    BY <1>3 DEF NetInv, TypesOK, Linked
  <2>2. servptr[x] = Me
    BY <2>1 DEF NetInv, Placed, Hosts, IsServer
  <2>3. x \notin H
    BY <2>1, HiddenLocal
  <2> QED BY <2>1, <2>2, <2>3 DEF Live
<1>4. ASSUME NEW x \in Live, servptr[x] = Me PROVE x \in serv_list
  <2>1. x \in Hosts /\ x \in Clients /\ x \notin H /\ status[x] = "server"
    BY <1>4 DEF Live, Hosts, IsServer
  <2>2. x \in Locals
    BY <1>4, <2>1, NetworkAssumption DEF NetInv, Placed, Hosts, Clients
  <2>3. ~ Idle => x # stack[1]
    BY <2>1, HiddenIs
  <2> QED BY <2>1, <2>2, <2>3 DEF NetInv, Linked
<1> QED BY <1>1, <1>2, <1>3, <1>4

LEMMA ViewsAre ==
  ASSUME NetInv, ToldInv
  PROVE  Told = Abstract!Views(Part(Rest), Live)
<1>1. DOMAIN Part(Rest) = Rest /\ \A z \in Rest : Part(Rest)[z] = servptr[z]
  BY PartIs
<1>2. Abstract!Neighbours(Part(Rest), Live) = serv_list
  BY <1>1, LinksAre DEF Abstract!Neighbours
<1>3. ASSUME NEW l \in serv_list
      PROVE  Abstract!Without(Part(Rest), Abstract!Behind(Part(Rest), l))
               = Topo!Without(told[l], exit_list \cup Hidden(told[l]))
  <2>1. l \in Rest /\ l \in Locals
    BY <1>3, LinksAre
  <2>2. Abstract!Behind(Part(Rest), l) = {z \in Rest : from[z] = l}
    BY <2>1, SameBehind, RestUpward, BehindLink
  <2>3. Rest \ {z \in Rest : from[z] = l} = {z \in Rest : from[z] # l}
    OBVIOUS
  <2>4. Abstract!Without(Part(Rest), {z \in Rest : from[z] = l}) = Part({z \in Rest : from[z] # l})
    <3>1. [z \in Rest \ {w \in Rest : from[w] = l} |-> Part(Rest)[z]] = [z \in {w \in Rest : from[w] # l} |-> servptr[z]]
      BY <1>1, <2>3
    <3> QED BY <1>1, <3>1 DEF Abstract!Without, Part
  <2>5. Topo!Without(told[l], exit_list \cup Hidden(told[l])) = Part({z \in Rest : from[z] # l})
    BY <1>3, ViewIs
  <2> QED BY <2>2, <2>4, <2>5
<1> QED BY <1>2, <1>3 DEF Told, Abstract!Views

LEMMA Mapped ==
  Topo!Without(KnownTree, Hidden(KnownTree)) = Part(Rest) /\ Hosts \ Hidden(KnownTree) = Live
BY UpIs DEF H, Live

LEMMA ViewsAlways == NetInv /\ ToldInv => Told = Abstract!Views(Part(Rest), Live)
BY ViewsAre

LEMMA StutterStep ==
  ASSUME NetInv, ToldInv, NetInv', ToldInv', Part(Rest)' = Part(Rest), Live' = Live
  PROVE  UNCHANGED Abstract!topology
<1>1. Told = Abstract!Views(Part(Rest), Live)
  BY ViewsAre
<1>2. (NetInv /\ ToldInv => Told = Abstract!Views(Part(Rest), Live))'
  BY ViewsAlways, PTL
<1>3. Told' = Abstract!Views(Part(Rest), Live)'
  BY <1>2
<1>4. Abstract!Views(Part(Rest), Live)' = Abstract!Views(Part(Rest), Live)
  OBVIOUS
<1>5. Told' = Told
  BY <1>1, <1>3, <1>4
<1>6. (Topo!Without(KnownTree, Hidden(KnownTree)) = Part(Rest) /\ Hosts \ Hidden(KnownTree) = Live)'
  BY Mapped, PTL
<1>7. UNCHANGED <<Topo!Without(KnownTree, Hidden(KnownTree)), Hosts \ Hidden(KnownTree)>>
  BY <1>6, Mapped
<1> QED BY <1>5, <1>7 DEF Abstract!topology, Told
(* Both sides of a step read off the tree of what is not hidden.           *)
LEMMA StepMapped ==
  ASSUME NetInv, ToldInv, NetInv', ToldInv'
  PROVE  /\ Topo!Without(KnownTree, Hidden(KnownTree)) = Part(Rest)
         /\ Hosts \ Hidden(KnownTree) = Live
         /\ Topo!Without(KnownTree, Hidden(KnownTree))' = Part(Rest)'
         /\ (Hosts \ Hidden(KnownTree))' = Live'
         /\ Told' = Abstract!Views(Part(Rest)', Live')
<1>1. (Topo!Without(KnownTree, Hidden(KnownTree)) = Part(Rest) /\ Hosts \ Hidden(KnownTree) = Live)'
  BY Mapped, PTL
<1>2. (NetInv /\ ToldInv => Told = Abstract!Views(Part(Rest), Live))'
  BY ViewsAlways, PTL
<1>3. Told' = Abstract!Views(Part(Rest), Live)'
  BY <1>2
<1>4. Abstract!Views(Part(Rest), Live)' = Abstract!Views(Part(Rest)', Live')
  OBVIOUS
<1> QED BY <1>1, <1>3, <1>4, Mapped

LEMMA JoinStep ==
  ASSUME NetInv, ToldInv, NetInv', ToldInv',
         NEW x \in Clients, x \notin Rest, NEW y \in Live \cup {Me}, NEW b \in BOOLEAN,
         Rest' = Rest \cup {x}, servptr'[x] = y, \A z \in Rest : servptr'[z] = servptr[z],
         Live' = IF b THEN Live \cup {x} ELSE Live
  PROVE  Abstract!Next
<1>1. DOMAIN Part(Rest) = Rest /\ \A z \in Rest : Part(Rest)[z] = servptr[z]
  BY PartIs
<1>2. Part(Rest)' = [z \in DOMAIN Part(Rest) \cup {x} |-> IF z = x THEN y ELSE Part(Rest)[z]]
  BY <1>1 DEF Part
<1>3. Abstract!Join(x, y, b)
  BY <1>2, StepMapped DEF Abstract!Join, Told
<1> QED BY <1>1, <1>3, StepMapped DEF Abstract!Next

LEMMA LeaveStep ==
  ASSUME NetInv, ToldInv, NetInv', ToldInv',
         NEW x \in Rest, NEW B, B = Topo!Behind(Part(Rest), x),
         Rest' = Rest \ B, \A z \in Rest \ B : servptr'[z] = servptr[z], Live' = Live \ B
  PROVE  Abstract!Next
<1>1. DOMAIN Part(Rest) = Rest /\ \A z \in Rest : Part(Rest)[z] = servptr[z]
  BY PartIs
<1>2. Abstract!Behind(Part(Rest), x) = B
  BY SameBehind
<1>3. Part(Rest)' = Abstract!Without(Part(Rest), B)
  BY <1>1 DEF Part, Abstract!Without
<1>4. Abstract!Leave(x)
  BY <1>2, <1>3, StepMapped DEF Abstract!Leave, Told
<1> QED BY <1>1, <1>4, StepMapped DEF Abstract!Next

LEMMA StaySame ==
  ASSUME NetInv, ToldInv, NetInv', ToldInv', Rest' = Rest, Live' = Live,
         \A z \in Rest : servptr'[z] = servptr[z]
  PROVE  UNCHANGED Abstract!topology
<1>1. Part(Rest)' = Part(Rest)
  BY DEF Part
<1> QED BY <1>1, StutterStep
-----------------------------------------------------------------------------
(* The steps of Network, outside of a split.                               *)

LEMMA IdleIs == Idle => Rest = Knowns /\ Live = Hosts
BY DEF H, Hidden, Rest, Live

LEMMA IdleNext == Idle' => Rest' = Knowns' /\ Live' = Hosts'
<1>1. (Idle => Rest = Knowns /\ Live = Hosts)'
  BY IdleIs, PTL
<1> QED BY <1>1

LEMMA QuietStep ==
  ASSUME NetInv, ToldInv, NetInv', ToldInv', Idle, Idle',
         \A z \in Clients : Unmoved(z), Hosts' = Hosts
  PROVE  UNCHANGED Abstract!topology
<1>1. Knowns' = Knowns
  BY DEF Knowns, Unmoved
<1>2. \A z \in Knowns : servptr'[z] = servptr[z]
  BY DEF Knowns, Unmoved
<1> QED BY <1>1, <1>2, IdleIs, IdleNext, StaySame

LEMMA AddStep ==
  ASSUME NetInv, ToldInv, NetInv', ToldInv', Idle, Idle',
         NEW x \in Clients, ~ Known(x), Known(x)', \A z \in Clients \ {x} : Unmoved(z),
         NEW y \in Hosts \cup {Me}, servptr'[x] = y, NEW b \in BOOLEAN,
         Hosts' = IF b THEN Hosts \cup {x} ELSE Hosts
  PROVE  Abstract!Next
<1>1. Knowns' = Knowns \cup {x} /\ x \notin Knowns
  BY DEF Knowns, Unmoved
<1>2. \A z \in Knowns : servptr'[z] = servptr[z]
  BY DEF Knowns, Unmoved
<1>3. Rest = Knowns /\ Live = Hosts /\ Rest' = Knowns' /\ Live' = Hosts'
  BY IdleIs, IdleNext
<1> QED BY <1>1, <1>2, <1>3, JoinStep

LEMMA MapConnect ==
  ASSUME NetInv, ToldInv, NetInv', ToldInv', NEW x \in Locals, Connect(x)
  PROVE  UNCHANGED Abstract!topology
<1>1. ASSUME NEW z \in Clients PROVE Unmoved(z) /\ (z \in Hosts' <=> z \in Hosts)
  BY DEF Connect, NetInv, TypesOK, Unmoved, Known, IsServer, IsPerson, Hosts
<1>2. Hosts' = Hosts
  BY <1>1 DEF Hosts
<1> QED BY <1>1, <1>2, QuietStep DEF Connect, Idle

LEMMA MapWrongDirection ==
  ASSUME NetInv, ToldInv, NetInv', ToldInv', NEW l \in Locals, NEW y \in Nodes, wrong_direction(l, y)
  PROVE  UNCHANGED Abstract!topology
<1>1. ASSUME NEW z \in Clients PROVE Unmoved(z) /\ (z \in Hosts' <=> z \in Hosts)
  BY DEF wrong_direction, tree, Unmoved, Known, IsServer, IsPerson, Hosts
<1>2. Hosts' = Hosts
  BY <1>1 DEF Hosts
<1> QED BY <1>1, <1>2, QuietStep DEF wrong_direction, Idle

LEMMA MapExitUnknown ==
  ASSUME NetInv, ToldInv, NetInv', ToldInv', NEW x \in Locals, exit_unknown(x)
  PROVE  UNCHANGED Abstract!topology
<1>1. x \in Clients /\ status[x] = "unknown" /\ exit_list' = exit_list \cup {x}
      /\ status' = status /\ from' = from /\ servptr' = servptr
  BY DEF exit_unknown, Dispose, Clients
<1>2. ASSUME NEW z \in Clients PROVE Unmoved(z) /\ (z \in Hosts' <=> z \in Hosts)
  BY <1>1 DEF Unmoved, Known, IsServer, IsPerson, Hosts
<1>3. Hosts' = Hosts
  BY <1>2 DEF Hosts
<1> QED BY <1>2, <1>3, QuietStep DEF exit_unknown, Idle

LEMMA MapRemove ==
  ASSUME NetInv, ToldInv, NetInv', ToldInv', remove_exited_clients
  PROVE  UNCHANGED Abstract!topology
<1>1. Free(exit_list) /\ exit_list' = {} /\ Idle /\ Idle'
  BY DEF remove_exited_clients, Idle
<1>2. ASSUME NEW z \in Clients PROVE Unmoved(z) /\ (z \in Hosts' <=> z \in Hosts)
  BY <1>1 DEF Free, NetInv, TypesOK, Unmoved, Known, IsServer, IsPerson, Hosts
<1>3. Hosts' = Hosts
  BY <1>2 DEF Hosts
<1> QED BY <1>1, <1>2, <1>3, QuietStep

LEMMA MapRegister ==
  ASSUME NetInv, ToldInv, NetInv', ToldInv', NEW x \in Locals, register_local_user(x)
  PROVE  Abstract!Next
<1>0. x \in Clients
  BY DEF Clients
<1>1. ~ Known(x) /\ Known(x)' /\ servptr'[x] = Me
  BY <1>0 DEF register_local_user, NetInv, TypesOK, Known, IsServer, IsPerson
<1>2. ASSUME NEW z \in Clients \ {x} PROVE Unmoved(z) /\ (z \in Hosts' <=> z \in Hosts)
  BY <1>0, <1>2 DEF register_local_user, NetInv, TypesOK, Unmoved, Known, IsServer, IsPerson, Hosts
<1>3. x \notin Hosts /\ x \notin Hosts'
  BY <1>0 DEF register_local_user, NetInv, TypesOK, Hosts, IsServer
<1>4. Hosts' = IF FALSE THEN Hosts \cup {x} ELSE Hosts
  BY <1>2, <1>3 DEF Hosts
<1>5. Idle /\ Idle'
  BY DEF register_local_user, Idle
<1> QED BY <1>0, <1>1, <1>2, <1>4, <1>5, AddStep

LEMMA MapEstablish ==
  ASSUME NetInv, ToldInv, NetInv', ToldInv', NEW x \in Locals, server_estab(x)
  PROVE  Abstract!Next
<1>0. x \in Clients
  BY DEF Clients
<1>1. ~ Known(x) /\ Known(x)' /\ servptr'[x] = Me /\ x \in Hosts'
  BY <1>0 DEF server_estab, Establish, NetInv, TypesOK, Known, IsServer, IsPerson, Hosts
<1>2. ASSUME NEW z \in Clients \ {x} PROVE Unmoved(z) /\ (z \in Hosts' <=> z \in Hosts)
  BY <1>0, <1>2 DEF server_estab, Establish, NetInv, TypesOK, Unmoved, Known, IsServer, IsPerson, Hosts
<1>4. Hosts' = IF TRUE THEN Hosts \cup {x} ELSE Hosts
  BY <1>0, <1>1, <1>2 DEF Hosts
<1>5. Idle /\ Idle'
  BY DEF server_estab, Establish, Idle
<1> QED BY <1>0, <1>1, <1>2, <1>4, <1>5, AddStep

LEMMA MapServer ==
  ASSUME NetInv, ToldInv, NetInv', ToldInv', NEW x \in Remotes, NEW y \in Clients, m_server(x, y)
  PROVE  Abstract!Next
<1>0. x \in Clients /\ x \notin exit_list
  BY DEF Clients, NetInv, Placed, m_server
<1>1. ~ Known(x) /\ Known(x)' /\ servptr'[x] = y /\ x \in Hosts' /\ y \in Hosts
  BY <1>0 DEF m_server, NetInv, TypesOK, Known, IsServer, IsPerson, Hosts
<1>2. ASSUME NEW z \in Clients \ {x} PROVE Unmoved(z) /\ (z \in Hosts' <=> z \in Hosts)
  BY <1>0, <1>2 DEF m_server, NetInv, TypesOK, Unmoved, Known, IsServer, IsPerson, Hosts
<1>4. Hosts' = IF TRUE THEN Hosts \cup {x} ELSE Hosts
  BY <1>0, <1>1, <1>2 DEF Hosts
<1>5. Idle /\ Idle'
  BY DEF m_server, Idle
<1> QED BY <1>0, <1>1, <1>2, <1>4, <1>5, AddStep

LEMMA MapRemoteUser ==
  ASSUME NetInv, ToldInv, NetInv', ToldInv', NEW x \in Remotes, NEW y \in Clients, do_remote_user(x, y)
  PROVE  Abstract!Next
<1>0. x \in Clients /\ x \notin exit_list
  BY DEF Clients, NetInv, Placed, do_remote_user
<1>1. ~ Known(x) /\ Known(x)' /\ servptr'[x] = y /\ x \notin Hosts /\ x \notin Hosts' /\ y \in Hosts
  BY <1>0 DEF do_remote_user, NetInv, TypesOK, Known, IsServer, IsPerson, Hosts
<1>2. ASSUME NEW z \in Clients \ {x} PROVE Unmoved(z) /\ (z \in Hosts' <=> z \in Hosts)
  BY <1>0, <1>2 DEF do_remote_user, NetInv, TypesOK, Unmoved, Known, IsServer, IsPerson, Hosts
<1>4. Hosts' = IF FALSE THEN Hosts \cup {x} ELSE Hosts
  BY <1>1, <1>2 DEF Hosts
<1>5. Idle /\ Idle'
  BY DEF do_remote_user, Idle
<1> QED BY <1>0, <1>1, <1>2, <1>4, <1>5, AddStep
-----------------------------------------------------------------------------
(* The steps that exit.                                                    *)

(* Nobody is behind a client that nobody is on.                            *)
LEMMA LeafBehind ==
  ASSUME NetInv, NEW D, D \subseteq Knowns, NEW x \in D, \A w \in D : servptr[w] # x
  PROVE  Topo!Behind(Part(D), x) = {x}
<1>1. PICK rank : Ranked(Part(D), rank)
  BY PartRanked
<1>2. DOMAIN Part(D) = D /\ \A z \in D : Part(D)[z] = servptr[z]
  BY PartIs
<1>3. x \in {x} /\ \A z \in DOMAIN Part(D) : Part(D)[z] \in {x} => z \in {x}
  BY <1>2
<1>4. Topo!Behind(Part(D), x) \subseteq {x}
  BY <1>1, <1>3, BehindLeast
<1>5. x \in Topo!Behind(Part(D), x)
  BY <1>2, BehindGrows
<1> QED BY <1>4, <1>5

(* A client that nobody is on can be taken out first.                      *)
LEMMA LeafRemoved ==
  ASSUME NetInv, NEW x \in Knowns, NEW s \in Knowns, s # x, \A w \in Knowns : servptr[w] # x
  PROVE  Topo!Behind(Part(Knowns \ {x}), s) = Topo!Behind(Part(Knowns), s) \ {x}
<1> DEFINE D == Knowns \ {x}
           A == Topo!Behind(Part(Knowns), s)
           B == Topo!Behind(Part(D), s)
<1>1. PICK r : Ranked(Part(Knowns), r)
  BY PartRanked
<1>2. PICK q : Ranked(Part(D), q)
  BY PartRanked
<1>3. /\ DOMAIN Part(Knowns) = Knowns /\ \A z \in Knowns : Part(Knowns)[z] = servptr[z]
      /\ DOMAIN Part(D) = D /\ \A z \in D : Part(D)[z] = servptr[z]
  BY PartIs
<1>4. s \in A /\ \A z \in Knowns : servptr[z] \in A => z \in A
  BY <1>3, BehindGrows
<1>5. s \in B /\ B \subseteq D /\ \A z \in D : servptr[z] \in B => z \in B
  <2>1. /\ Topo!Behind(Part(D), s) \subseteq DOMAIN Part(D)
        /\ s \in DOMAIN Part(D) => s \in Topo!Behind(Part(D), s)
        /\ \A z \in DOMAIN Part(D) : Part(D)[z] \in Topo!Behind(Part(D), s) => z \in Topo!Behind(Part(D), s)
    BY BehindGrows
  <2> QED BY <1>3, <2>1
<1>6. B \subseteq A
  <2>1. \A z \in DOMAIN Part(D) : Part(D)[z] \in A => z \in A
    BY <1>3, <1>4
  <2> HIDE DEF A, D
  <2> QED BY <1>2, <1>4, <2>1, BehindLeast
<1>7. A \subseteq B \cup {x}
  <2>1. \A z \in DOMAIN Part(Knowns) : Part(Knowns)[z] \in B \cup {x} => z \in B \cup {x}
    BY <1>3, <1>5
  <2>2. s \in B \cup {x}
    BY <1>5
  <2> HIDE DEF B
  <2> QED BY <1>1, <2>1, <2>2, BehindLeast
<1> QED BY <1>5, <1>6, <1>7

LEMMA LoneSplit ==
  NetInv /\ ~ Idle /\ (\A w \in Knowns : servptr[w] # stack[1]) => H = {stack[1]}
<1> SUFFICES ASSUME NetInv, ~ Idle, \A w \in Knowns : servptr[w] # stack[1] PROVE H = {stack[1]}
  OBVIOUS
<1>1. stack[1] \in Knowns /\ H = Topo!Behind(Part(Knowns), stack[1])
  BY HiddenIs
<1> QED BY <1>1, LeafBehind

LEMMA MapExitPerson ==
  ASSUME NetInv, ToldInv, NetInv', ToldInv', NEW x \in Clients, exit_person(x)
  PROVE  Abstract!Next
<1>0. Idle /\ Idle' /\ IsPerson(x) /\ Dispose(x)
  BY DEF exit_person, Idle
<1>1. ASSUME NEW w \in Knowns PROVE servptr[w] # x
  <2>1. x \notin Hosts /\ x # Me /\ w \in Clients /\ Known(w)
    BY <1>0, <1>1, NetworkAssumption DEF IsPerson, Hosts, IsServer, Knowns
  <2> QED BY <2>1, ServerOfRemote
<1>2. \A z \in Clients \ {x} : /\ Unmoved(z) /\ status'[z] = status[z]
                               /\ (z \in exit_list' <=> z \in exit_list)
  BY <1>0, DisposeOthers
<1>3. ~ Known(x)'
  BY <1>0, DisposeSelf
<1>4. x \in Knowns /\ Knowns' = Knowns \ {x}
  <2>1. x \in Knowns
    BY <1>0 DEF Knowns, Known, IsPerson
  <2>2. \A z \in Clients \ {x} : z \in Knowns' <=> z \in Knowns
    BY <1>2 DEF Knowns, Unmoved
  <2> QED BY <1>3, <2>1, <2>2 DEF Knowns
<1>5. \A z \in Knowns' : servptr'[z] = servptr[z]
  BY <1>2, <1>4 DEF Knowns, Unmoved
<1>6. Hosts' = Hosts \ {x}
  <2>1. x \notin Hosts'
    BY <1>3 DEF Hosts, Known
  <2> QED BY <1>2, <2>1 DEF Hosts, IsServer
<1>7. Rest = Knowns /\ Live = Hosts /\ Rest' = Knowns' /\ Live' = Hosts'
  BY <1>0, IdleIs, IdleNext
<1>8. {x} = Topo!Behind(Part(Rest), x)
  BY <1>1, <1>4, <1>7, LeafBehind
<1> QED BY <1>4, <1>5, <1>6, <1>7, <1>8, LeaveStep

LEMMA MapExitServer ==
  ASSUME NetInv, ToldInv, NetInv', ToldInv', NEW x \in Clients, NEW by, exit_server(x, by)
  PROVE  Abstract!Next
<1>0. Idle /\ x \in Hosts /\ stack' = <<x>> /\ ~ Idle' /\ UNCHANGED <<tree, exit_list>>
  BY DEF exit_server, Idle
<1>1. Knowns' = Knowns /\ Hosts' = Hosts /\ servptr' = servptr /\ x \in Knowns
  BY <1>0 DEF tree, Knowns, Hosts, Known, IsServer, IsPerson
<1>2. KnownTree' = KnownTree
  BY <1>1 DEF KnownTree, Knowns
<1>3. H' = Topo!Behind(Part(Knowns), x)
  <2>1. H' = Topo!Behind(KnownTree', stack'[1])
    BY <1>0 DEF H, Hidden
  <2>2. stack'[1] = x
    BY <1>0
  <2> QED BY <1>2, <2>1, <2>2, KnownTreeIs
<1>4. Rest = Knowns /\ Live = Hosts
  BY <1>0, IdleIs
<1>5. Rest' = Knowns \ H' /\ Live' = Hosts \ H'
  BY <1>1 DEF Rest, Live
<1> QED BY <1>1, <1>3, <1>4, <1>5, LeaveStep

(* The link that exits before it was announced has never been part of it.  *)
LEMMA MapOverridden ==
  ASSUME NetInv, ToldInv, NetInv', ToldInv', NEW x \in Locals, server_estab_overridden(x)
  PROVE  UNCHANGED Abstract!topology
<1>0. Idle /\ stack' = <<x>> /\ ~ Idle' /\ x \in Clients /\ status[x] = "unknown" /\ stack'[1] = x
  BY DEF server_estab_overridden, Establish, Idle, Clients
<1>1. ~ Known(x) /\ Known(x)' /\ servptr'[x] = Me /\ x \in Hosts' /\ x \notin Hosts
  BY <1>0 DEF server_estab_overridden, Establish, NetInv, TypesOK, Known, IsServer, IsPerson, Hosts
<1>2. ASSUME NEW z \in Clients \ {x} PROVE Unmoved(z) /\ (z \in Hosts' <=> z \in Hosts)
  BY <1>0, <1>2 DEF server_estab_overridden, Establish, NetInv, TypesOK, Unmoved, Known, IsServer, IsPerson, Hosts
<1>3. Knowns' = Knowns \cup {x} /\ x \notin Knowns /\ Hosts' = Hosts \cup {x}
  <2>1. Hosts' = Hosts \cup {x}
    BY <1>0, <1>1, <1>2 DEF Hosts
  <2>2. \A z \in Clients \ {x} : z \in Knowns' <=> z \in Knowns
    BY <1>2 DEF Knowns, Unmoved
  <2> QED BY <1>0, <1>1, <2>1, <2>2 DEF Knowns
<1>4. \A z \in Knowns : servptr'[z] = servptr[z]
  BY <1>2, <1>3 DEF Knowns, Unmoved
<1>5. \A w \in Knowns' : servptr'[w] # x
  <2>1. ASSUME NEW w \in Knowns PROVE servptr[w] # x
    <3>1. w \in Clients /\ Known(w) /\ x # Me
      BY <1>0, NetworkAssumption DEF Knowns
    <3> QED BY <1>1, <3>1, ServerOfRemote
  <2> QED BY <1>0, <1>1, <1>3, <1>4, <2>1, NetworkAssumption
<1>6. H' = {x}
  <2>1. (NetInv /\ ~ Idle /\ (\A w \in Knowns : servptr[w] # stack[1]) => H = {stack[1]})'
    BY LoneSplit, PTL
  <2> QED BY <1>0, <1>5, <2>1
<1>7. Rest = Knowns /\ Live = Hosts
  BY <1>0, IdleIs
<1>8. Rest' = Rest /\ Live' = Live
  BY <1>1, <1>3, <1>6, <1>7 DEF Rest, Live
<1> QED BY <1>4, <1>7, <1>8, StaySame
(* A split under way: what exits is hidden already.                        *)
LEMMA SplitStep ==
  ASSUME NetInv, ToldInv, NetInv', ToldInv', ~ Idle,
         NEW x \in H, \A w \in Knowns : servptr[w] # x,
         Knowns' = Knowns \ {x}, Hosts' = Hosts \ {x},
         \A z \in Knowns \ {x} : servptr'[z] = servptr[z],
         \/ ~ Idle' /\ stack'[1] = stack[1] /\ x # stack[1]
         \/ Idle' /\ x = stack[1]
  PROVE  UNCHANGED Abstract!topology
<1>1. /\ x \in Knowns /\ stack[1] \in Knowns /\ H \subseteq Knowns
      /\ H = Topo!Behind(Part(Knowns), stack[1])
  BY HiddenIs
<1>2. Knowns' \ H' = Knowns \ H /\ Hosts' \ H' = Hosts \ H
  <2>1. CASE ~ Idle' /\ stack'[1] = stack[1] /\ x # stack[1]
    <3>1. KnownTree' = Part(Knowns \ {x})
      <4>1. KnownTree' = [z \in Knowns' |-> servptr'[z]]
        BY DEF KnownTree, Knowns
      <4> QED BY <4>1 DEF Part
    <3>2. H' = Topo!Behind(KnownTree', stack'[1])
      BY <2>1 DEF H, Hidden
    <3>3. H' = H \ {x}
      BY <1>1, <2>1, <3>1, <3>2, LeafRemoved
    <3> QED BY <1>1, <3>3
  <2>2. CASE Idle' /\ x = stack[1]
    <3>1. H = {x}
      BY <2>2, LoneSplit
    <3>2. H' = {}
      BY <2>2 DEF H, Hidden
    <3> QED BY <3>1, <3>2
  <2> QED BY <2>1, <2>2
<1>3. Rest' = Rest /\ Live' = Live
  BY <1>2 DEF Rest, Live
<1>4. \A z \in Rest : servptr'[z] = servptr[z]
  BY DEF Rest
<1> QED BY <1>3, <1>4, StaySame

LEMMA MapSplitUser ==
  ASSUME NetInv, ToldInv, NetInv', ToldInv', exit_recursion_user
  PROVE  UNCHANGED Abstract!topology
<1>0. ~ Idle /\ ~ Idle' /\ stack' = stack /\ exit_list' = exit_list
  BY DEF exit_recursion_user, Idle
<1>1. PICK x \in users[Top] : Free({x})
  BY DEF exit_recursion_user
<1>2. Top \in Hosts /\ Top \in Nodes /\ Top \in H
  <2>1. Top \in Items(stack)
    BY <1>0, TopIs
  <2>2. Top \in H
    BY <1>0, <2>1, StackHidden DEF Items
  <2> QED BY <1>0, <2>2, TopIs DEF Nodes
<1>3. x \in Clients /\ IsPerson(x) /\ servptr[x] = Top /\ x \in Knowns
  BY <1>1, <1>2 DEF NetInv, Mirrored, Known, IsPerson, Knowns
<1>4. x \in H
  BY <1>2, <1>3, HiddenIs
<1>5. ASSUME NEW w \in Knowns PROVE servptr[w] # x
  <2>1. x \notin Hosts /\ x # Me /\ w \in Clients /\ Known(w)
    BY <1>3, NetworkAssumption DEF IsPerson, Hosts, IsServer, Knowns
  <2> QED BY <2>1, ServerOfRemote
<1>6. ASSUME NEW z \in Clients, z # x
      PROVE  /\ servptr'[z] = servptr[z] /\ (z \in Knowns' <=> z \in Knowns)
             /\ (z \in Hosts' <=> z \in Hosts)
  BY <1>0, <1>1, <1>6 DEF Free, Knowns, Hosts, Known, IsServer, IsPerson
<1>7. x \notin Knowns' /\ x \notin Hosts'
  BY <1>1, <1>3 DEF Free, Knowns, Hosts, Known, IsServer, IsPerson
<1>8. Knowns' = Knowns \ {x} /\ Hosts' = Hosts \ {x}
  BY <1>6, <1>7 DEF Knowns, Hosts
<1>9. \A z \in Knowns \ {x} : servptr'[z] = servptr[z]
  BY <1>6 DEF Knowns
<1>10. stack'[1] = stack[1] /\ x # stack[1]
  <2>1. stack[1] \in Hosts
    BY <1>0, TopIs
  <2> QED BY <1>0, <1>3, <2>1 DEF Hosts, IsServer, IsPerson
<1> QED BY <1>0, <1>4, <1>5, <1>8, <1>9, <1>10, SplitStep

LEMMA MapDescend ==
  ASSUME NetInv, ToldInv, NetInv', ToldInv', exit_recursion_server
  PROVE  UNCHANGED Abstract!topology
<1>0. ~ Idle /\ UNCHANGED <<tree, exit_list>>
  BY DEF exit_recursion_server, Idle
<1>1. PICK x \in servers[Top] : stack' = Append(stack, x)
  BY DEF exit_recursion_server
<1>2. stack'[1] = stack[1] /\ ~ Idle'
  <2>1. Len(stack) \in Nat /\ Len(stack) >= 1 /\ stack \in Seq(Clients)
    BY <1>0, TopIs DEF NetInv, TypesOK
  <2>2. x \in Clients
    BY <1>0, <1>1, TopIs DEF NetInv, TypesOK, Nodes
  <2> QED BY <1>1, <2>1, <2>2 DEF Idle
<1>3. Knowns' = Knowns /\ Hosts' = Hosts /\ servptr' = servptr
  BY <1>0 DEF tree, Knowns, Hosts, Known, IsServer, IsPerson
<1>4. KnownTree' = KnownTree
  BY <1>3 DEF KnownTree, Knowns
<1>5. H' = H
  BY <1>0, <1>2, <1>4 DEF H, Hidden
<1>6. Rest' = Rest /\ Live' = Live
  BY <1>3, <1>5 DEF Rest, Live
<1> QED BY <1>3, <1>6, StaySame

LEMMA MapReturn ==
  ASSUME NetInv, ToldInv, NetInv', ToldInv', exit_one_client
  PROVE  UNCHANGED Abstract!topology
<1>0. ~ Idle
  BY DEF exit_one_client, Idle
<1>t. PICK t : t = Top
  OBVIOUS
<1>1. users[t] = {} /\ servers[t] = {} /\ Dispose(t) /\ stack' = SubSeq(stack, 1, Len(stack) - 1)
  BY <1>t DEF exit_one_client
<1>2. /\ Len(stack) \in Nat /\ Len(stack) >= 1 /\ t \in Items(stack)
      /\ t \in Hosts /\ t \in Clients /\ t \in Nodes
      /\ \A i \in 1 .. Len(stack) : stack[i] = t => i = Len(stack)
  BY <1>0, <1>t, TopIs DEF Nodes
<1>3. t \in H
  BY <1>0, <1>2, StackHidden DEF Items
<1>4. ASSUME NEW w \in Knowns PROVE servptr[w] # t
  BY <1>1, <1>2, <1>4 DEF NetInv, Mirrored, Knowns, Known, Hosts, IsPerson
<1>5. ASSUME NEW z \in Clients, z # t
      PROVE  /\ servptr'[z] = servptr[z] /\ (z \in Knowns' <=> z \in Knowns)
             /\ (z \in Hosts' <=> z \in Hosts)
  <2>1. /\ Unmoved(z) /\ exit_list \subseteq exit_list' /\ (z \in exit_list' => z \in exit_list)
        /\ status'[z] = status[z] /\ from'[z] = from[z] /\ servptr'[z] = servptr[z]
    BY <1>1, <1>2, <1>5, DisposeOthers
  <2> QED BY <1>5, <2>1 DEF Unmoved, Knowns, Hosts, IsServer
<1>6. t \notin Knowns' /\ t \notin Hosts'
  <2>1. ~ Known(t)'
    BY <1>1, <1>2, DisposeSelf
  <2> QED BY <2>1 DEF Knowns, Hosts, Known
<1>7. Knowns' = Knowns \ {t} /\ Hosts' = Hosts \ {t}
  BY <1>5, <1>6 DEF Knowns, Hosts
<1>8. \A z \in Knowns \ {t} : servptr'[z] = servptr[z]
  BY <1>5 DEF Knowns
<1>9. stack \in Seq(Clients) /\ stack' \in Seq(Clients) /\ Len(stack') = Len(stack) - 1
      /\ \A i \in 1 .. Len(stack') : stack'[i] = stack[i]
  <2> DEFINE n == Len(stack)
             r == SubSeq(stack, 1, n - 1)
  <2>0. stack \in Seq(Clients)
    BY DEF NetInv, TypesOK
  <2>1. n = Len(stack) /\ n >= 1 /\ stack' = r
    BY <1>1, <1>2
  <2> HIDE DEF n
  <2>2. r \in Seq(Clients) /\ Len(r) = n - 1 /\ \A i \in 1 .. (n - 1) : r[i] = stack[i]
    BY <2>0, <2>1, CallReturns
  <2> HIDE DEF r
  <2> QED BY <2>0, <2>1, <2>2
<1>10. \/ ~ Idle' /\ stack'[1] = stack[1] /\ t # stack[1]
       \/ Idle' /\ t = stack[1]
  <2>1. CASE Len(stack) = 1
    BY <1>9, <1>t, <2>1 DEF Idle, Top
  <2>2. CASE Len(stack) # 1
    BY <1>2, <1>9, <2>2 DEF Idle
  <2> QED BY <2>1, <2>2
<1> QED BY <1>0, <1>3, <1>4, <1>7, <1>8, <1>10, SplitStep

LEMMA MapInit == Init => Abstract!Init
<1> SUFFICES ASSUME Init PROVE Abstract!Init
  OBVIOUS
<1>1. Idle /\ Knowns = {} /\ Hosts = {} /\ serv_list = {}
  BY DEF Init, Idle, Knowns, Hosts, Known, IsServer, IsPerson
<1>2. Part(Rest) = << >> /\ Live = {}
  BY <1>1, IdleIs DEF Part
<1>3. [l \in serv_list |-> Topo!Without(told[l], exit_list \cup Hidden(told[l]))] = << >>
  BY <1>1
<1> QED BY <1>2, <1>3, Mapped DEF Abstract!Init

LEMMA MapNext ==
  NetInv /\ ToldInv /\ NetInv' /\ ToldInv' /\ [Next]_vars => [Abstract!Next]_Abstract!topology
<1> SUFFICES ASSUME NetInv, ToldInv, NetInv', ToldInv', [Next]_vars
             PROVE  [Abstract!Next]_Abstract!topology
  OBVIOUS
<1>1. CASE UNCHANGED vars
  <2>1. UNCHANGED <<status, from, servptr, exit_list, stack>>
    BY <1>1 DEF vars, tree
  <2>2. Knowns' = Knowns /\ Hosts' = Hosts /\ KnownTree' = KnownTree
    BY <2>1 DEF Knowns, Hosts, KnownTree, Known, IsServer, IsPerson
  <2>3. H' = H
    BY <2>1, <2>2 DEF H, Hidden, Idle
  <2>4. Rest' = Rest /\ Live' = Live
    BY <2>2, <2>3 DEF Rest, Live
  <2>5. UNCHANGED Abstract!topology
    BY <2>1, <2>4, StaySame
  <2> QED BY <2>5
<1>2. CASE exit_recursion
  BY <1>2, MapSplitUser, MapDescend, MapReturn DEF exit_recursion
<1>3. CASE Next
  BY <1>2, <1>3, MapConnect, MapRegister, MapEstablish, MapOverridden, MapExitUnknown,
     MapServer, MapRemoteUser, MapWrongDirection, MapExitPerson, MapExitServer,
     MapRemove DEF Next
<1> QED BY <1>1, <1>3

(* Network implements Topology.  exit_recursion takes a split apart one    *)
(* exit at a time, and tells the links of one server at a time; yet to     *)
(* whoever does not look behind a server that is leaving, the tree and     *)
(* what every link has been told of it change in one step, and agree in    *)
(* every state, for any network.                                           *)
THEOREM NetworkImplementsTopology == Spec => ImplementsTopology
BY NetInvInit, NetInvNext, ToldInvInit, ToldInvNext, MapInit, MapNext, PTL
   DEF Spec, ImplementsTopology, Abstract!Spec
=============================================================================
