----------------------------- MODULE ConfProofs ------------------------------
(***************************************************************************)
(* For any file, any number of clients and of rehashes: the counters of    *)
(* items and classes are exact, and no pointer outlives what it points to. *)
(***************************************************************************)
EXTENDS Conf, FiniteSetTheorems, SequenceTheorems, WellFoundedInduction, TLAPS

(* The items and classes w, when the clients hold the items of h.          *)
HeldBy(h, f) == {c \in Clients : f \in h[c]}
Charged(it, h, k) ==
  {cf \in Clients \X Confs : cf[2] \in h[cf[1]] /\ Counted(cf[2]) /\ it[cf[2]].class = k}

Items   == [status : {"free", "listed", "illegal"}, class : Classes \cup {Nil}, clients : Int]
States  == [state : {"free", "listed", "marked"}, links : Int]
Worlds  == [item : [Confs -> Items], class : [Classes -> States]]

(* The counters agree with what is held; what is held is allocated, and    *)
(* what is off its list is held; a listed item has a listed class, one     *)
(* that counts on its class an allocated one.                              *)
Exact(w, h) ==
  /\ \A f \in Confs : w.item[f].clients = Cardinality(HeldBy(h, f))
  /\ \A k \in Classes : w.class[k].links = Cardinality(Charged(w.item, h, k))
Alive(w, h) ==
  /\ \A f \in Confs : HeldBy(h, f) # {} => w.item[f].status # "free"
  /\ \A f \in Confs : HeldBy(h, f) # {} /\ Counted(f) =>
       w.item[f].class \in Classes /\ w.class[w.item[f].class].state # "free"
  /\ \A f \in Confs : w.item[f].status = "listed" =>
       w.item[f].class \in Classes /\ w.class[w.item[f].class].state = "listed"
  /\ w.class[Zero].state = "listed"
Needed(w, h) ==
  /\ \A f \in Confs : w.item[f].status = "illegal" => HeldBy(h, f) # {}
  /\ \A k \in Classes : w.class[k].state = "marked" => Charged(w.item, h, k) # {}

Holdings == [Clients -> SUBSET Confs]

Sound(w, h) == w \in Worlds /\ h \in Holdings /\ Exact(w, h) /\ Alive(w, h) /\ Needed(w, h)

Members(s) == {s[i] : i \in 1 .. Len(s)}

Held == [c \in Clients |-> Members(confs[c])]

Once(s) == \A i, j \in 1 .. Len(s) : s[i] = s[j] => i = j

ConfInv ==
  /\ Sound(World, Held)
  /\ confs \in [Clients -> Seq(Confs)] /\ \A c \in Clients : Once(confs[c])
  /\ GlobalConfItemList \in Seq(Confs)
  /\ \A f \in Confs : item[f].status = "listed" <=> f \in Listed
  /\ \A p \in Persons : Len(confs[p]) = 1 => Kind[confs[p][1][1]] = "client"
  /\ stage \in [Conns -> {"none", "connecting", "up"}]
  /\ \A c \in Conns : stage[c] = "none" => confs[c] = << >>

LEMMA Finite ==
  /\ IsFiniteSet(Clients) /\ IsFiniteSet(Confs)
  /\ \A h, f : IsFiniteSet(HeldBy(h, f))
  /\ \A it, h, k : IsFiniteSet(Charged(it, h, k))
<1>1. IsFiniteSet(Clients)
  BY ConfAssumption, FS_Union DEF Clients
<1>2. IsFiniteSet(Blocks)
  <2>1. FileOrder \in Seq(Blocks) /\ Len(FileOrder) \in Nat /\ DOMAIN FileOrder = 1 .. Len(FileOrder)
    BY ConfAssumption
  <2>2. IsFiniteSet(1 .. Len(FileOrder))
    BY <2>1, FS_Interval
  <2>3. FileOrder \in Surjection(1 .. Len(FileOrder), Blocks)
    BY <2>1 DEF Surjection, Blocks
  <2> QED BY <2>2, <2>3, FS_Surjection
<1>3. IsFiniteSet(Confs)
  BY <1>2, ConfAssumption, FS_Product DEF Confs
<1>4. IsFiniteSet(Clients \X Confs)
  BY <1>1, <1>3, FS_Product
<1>5. ASSUME NEW h, NEW f PROVE IsFiniteSet(HeldBy(h, f))
  BY <1>1, FS_Subset DEF HeldBy
<1>6. ASSUME NEW it, NEW h, NEW k PROVE IsFiniteSet(Charged(it, h, k))
  BY <1>4, FS_Subset DEF Charged
<1> QED BY <1>1, <1>3, <1>5, <1>6

(* What a client that lets go of an item changes.                          *)
Dropped(h, c, f) == [h EXCEPT ![c] = h[c] \ {f}]

LEMMA HeldLess ==
  ASSUME NEW h \in Holdings, NEW c \in Clients, NEW f \in h[c]
  PROVE  /\ Dropped(h, c, f) \in Holdings /\ f \in Confs /\ c \in HeldBy(h, f)
         /\ \A g \in Confs : HeldBy(Dropped(h, c, f), g) = IF g = f THEN HeldBy(h, f) \ {c} ELSE HeldBy(h, g)
<1>1. Dropped(h, c, f) \in Holdings /\ f \in Confs /\ \A d \in Clients : Dropped(h, c, f)[d] = IF d = c THEN h[d] \ {f} ELSE h[d]
  BY DEF Holdings, Dropped
<1> QED BY <1>1 DEF HeldBy

LEMMA ChargedLess ==
  ASSUME NEW h \in Holdings, NEW c \in Clients, NEW f \in h[c],
         NEW it, NEW jt, \A g \in Confs \ {f} : jt[g] = it[g],
         jt[f].class = it[f].class \/ HeldBy(h, f) = {c}, NEW k
  PROVE  Charged(jt, Dropped(h, c, f), k) = Charged(it, h, k) \ {<<c, f>>}
<1>1. \A d \in Clients : Dropped(h, c, f)[d] = IF d = c THEN h[d] \ {f} ELSE h[d]
  BY DEF Holdings, Dropped
<1>2. ASSUME NEW d \in Clients, NEW g \in Confs
      PROVE  <<d, g>> \in Charged(jt, Dropped(h, c, f), k) <=> <<d, g>> \in Charged(it, h, k) /\ <<d, g>> # <<c, f>>
  <2>1. CASE g # f
    <3>1. jt[g] = it[g] /\ (g \in Dropped(h, c, f)[d] <=> g \in h[d])
      BY <1>1, <2>1
    <3> QED BY <2>1, <3>1 DEF Charged
  <2>2. CASE g = f /\ d = c
    BY <1>1, <2>2 DEF Charged
  <2>3. CASE g = f /\ d # c
    <3>1. g \in Dropped(h, c, f)[d] <=> g \in h[d]
      BY <1>1, <2>3
    <3>2. CASE jt[f].class = it[f].class
      BY <2>3, <3>1, <3>2 DEF Charged
    <3>3. CASE HeldBy(h, f) = {c}
      <4>1. f \notin h[d]
        BY <2>3, <3>3 DEF HeldBy
      <4> QED BY <2>3, <3>1, <4>1 DEF Charged
    <3> QED BY <3>2, <3>3
  <2> QED BY <2>1, <2>2, <2>3
<1> QED BY <1>2 DEF Charged

(* The class after the client has left it.                                 *)
Left(w, f) ==
  IF w.item[f].class = Nil \/ w.class[w.item[f].class].state = "free" THEN w ELSE LeaveClass(w, f)

ClassesLeft(new, old, C) ==
  \A j \in Classes :
     /\ new[j].links = Cardinality(C[j])
     /\ \/ new[j].state = old[j].state
        \/ old[j].state = "marked" /\ new[j].state = "free" /\ C[j] = {}
     /\ new[j].state = "marked" => C[j] # {}

WellLeft(w, h, c, f) ==
  LET v == Left(w, f)
  IN  /\ v \in Worlds
      /\ \A g \in Confs \ {f} : v.item[g] = w.item[g]
      /\ v.item[f].status = w.item[f].status /\ v.item[f].clients = w.item[f].clients
      /\ v.item[f].class = w.item[f].class \/ (HeldBy(h, f) = {c} /\ w.item[f].status # "listed")
      /\ ClassesLeft(v.class, w.class, [j \in Classes |-> Charged(w.item, h, j) \ {<<c, f>>}])

LEMMA LeaveProperties ==
  ASSUME NEW w, NEW h, Sound(w, h), NEW c \in Clients, NEW f \in h[c]
  PROVE  WellLeft(w, h, c, f)
<1> DEFINE k == w.item[f].class
           v == Left(w, f)
           it == w.item
           cl == w.class
           cf == <<c, f>>
           C(j) == Charged(it, h, j)
<1>1. h \in Holdings /\ f \in Confs /\ c \in HeldBy(h, f)
  BY DEF Sound, Holdings, HeldBy
<1>2. it \in [Confs -> Items] /\ cl \in [Classes -> States] /\ w = [item |-> it, class |-> cl]
  BY DEF Sound, Worlds
<1>3. \A j \in Classes : cl[j].links = Cardinality(C(j)) /\ IsFiniteSet(C(j)) /\ Cardinality(C(j)) \in Nat
  BY Finite, FS_CardinalityType DEF Sound, Exact
<1>4. \A j \in Classes : cf \in C(j) <=> Counted(f) /\ k = j
  BY <1>1 DEF Charged
<1>5. \A j \in Classes : cl[j].state = "marked" => C(j) # {}
  BY DEF Sound, Needed
<1>6. k \in Classes \cup {Nil}
  BY <1>1, <1>2 DEF Items
<1> HIDE DEF cf, C
<1>7. CASE ~ Counted(f)
  <2>1. \A j \in Classes : C(j) \ {cf} = C(j)
    BY <1>4, <1>7
  <2>2. v = w
    <3>1. CASE k = Nil \/ cl[k].state = "free"
      BY <3>1 DEF Left
    <3>2. CASE k # Nil /\ cl[k].state # "free"
      <4>1. k \in Classes /\ cl[k] \in States
        BY <1>2, <1>6, <3>2
      <4>2. ~ (cl[k].state = "marked" /\ cl[k].links = 0)
        BY <1>3, <1>5, <4>1, FS_EmptySet
      <4>3. v = LeaveClass(w, f)
        BY <3>2 DEF Left
      <4>4. v = [item |-> it, class |-> [cl EXCEPT ![k].links = cl[k].links]]
        BY <1>7, <4>2, <4>3 DEF LeaveClass
      <4>5. [cl EXCEPT ![k].links = cl[k].links] = cl
        BY <1>2, <4>1 DEF States
      <4> QED BY <1>2, <4>4, <4>5
    <3> QED BY <3>1, <3>2
  <2>3. v \in Worlds
    BY <2>2 DEF Sound
  <2> QED BY <1>3, <1>5, <2>1, <2>2, <2>3 DEF C, cf, ClassesLeft, WellLeft
<1>8. CASE Counted(f)
  <2>1. k \in Classes /\ cl[k].state # "free" /\ cl[k] \in States
    BY <1>1, <1>2, <1>8 DEF Sound, Alive
  <2>2. k # Nil
    BY <2>1, ConfAssumption
  <2>3. cf \in C(k) /\ \A j \in Classes : j # k => C(j) \ {cf} = C(j)
    BY <1>4, <1>8, <2>1
  <2>4. cl[k].links > 0 /\ Cardinality(C(k) \ {cf}) = cl[k].links - 1 /\ cl[k].links \in Nat
    <3>1. Cardinality(C(k) \ {cf}) = Cardinality(C(k)) - 1 /\ Cardinality(C(k)) \in Nat
      BY <1>3, <2>1, <2>3, FS_RemoveElement
    <3>2. Cardinality(C(k)) # 0
      BY <1>3, <2>1, <2>3, FS_EmptySet
    <3> QED BY <1>3, <2>1, <3>1, <3>2
  <2>5. v = LeaveClass(w, f)
    BY <2>1, <2>2 DEF Left
  <2>6. CASE cl[k].state = "marked" /\ cl[k].links = 1
    <3>1. v = [item |-> [it EXCEPT ![f].class = Nil], class |-> [cl EXCEPT ![k] = FreeClass]]
      BY <1>8, <2>4, <2>5, <2>6 DEF LeaveClass
    <3>2. C(k) \ {cf} = {}
      <4>1. Cardinality(C(k) \ {cf}) = 0 /\ IsFiniteSet(C(k) \ {cf})
        BY <1>3, <2>1, <2>4, <2>6, FS_Subset
      <4> QED BY <4>1, FS_EmptySet
    <3>3. HeldBy(h, f) = {c}
      <4>1. ASSUME NEW d \in HeldBy(h, f) PROVE d = c
        <5>1. <<d, f>> \in C(k)
          BY <1>1, <1>8, <4>1 DEF HeldBy, Charged, C
        <5>2. <<d, f>> = cf
          BY <3>2, <5>1
        <5> QED BY <5>2 DEF cf
      <4> QED BY <1>1, <4>1
    <3>4. it[f].status # "listed"
      BY <1>1, <2>6 DEF Sound, Alive
    <3>5. it[f] \in Items /\ [it[f] EXCEPT !.class = Nil] \in Items /\ FreeClass \in States
      BY <1>1, <1>2 DEF Items, States, FreeClass
    <3>6. v \in Worlds
      <4>1. [it EXCEPT ![f].class = Nil] \in [Confs -> Items]
        BY <1>1, <1>2, <3>5
      <4>2. [cl EXCEPT ![k] = FreeClass] \in [Classes -> States]
        BY <1>2, <2>1, <3>5
      <4> QED BY <3>1, <4>1, <4>2 DEF Worlds
    <3>7. /\ \A g \in Confs \ {f} : v.item[g] = it[g]
          /\ v.item[f].status = it[f].status /\ v.item[f].clients = it[f].clients
      BY <1>1, <1>2, <3>1, <3>5 DEF Items
    <3>8. v.class[k] = FreeClass /\ \A j \in Classes : j # k => v.class[j] = cl[j]
      BY <1>2, <2>1, <3>1
    <3>9. ASSUME NEW j \in Classes
          PROVE  /\ v.class[j].links = Cardinality(C(j) \ {cf})
                 /\ \/ v.class[j].state = cl[j].state
                    \/ cl[j].state = "marked" /\ v.class[j].state = "free" /\ C(j) \ {cf} = {}
                 /\ v.class[j].state = "marked" => C(j) \ {cf} # {}
      <4>1. CASE j = k
        BY <2>4, <2>6, <3>2, <3>8, <4>1 DEF FreeClass
      <4>2. CASE j # k
        BY <1>3, <1>5, <2>3, <3>8, <4>2
      <4> QED BY <4>1, <4>2
    <3> QED BY <3>3, <3>4, <3>6, <3>7, <3>9 DEF C, cf, ClassesLeft, WellLeft
  <2>7. CASE ~ (cl[k].state = "marked" /\ cl[k].links = 1)
    <3>0. ~ (cl[k].state = "marked" /\ cl[k].links - 1 = 0)
      BY <2>4, <2>7
    <3>1. v = [item |-> it, class |-> [cl EXCEPT ![k].links = cl[k].links - 1]]
      BY <1>8, <2>4, <2>5, <3>0 DEF LeaveClass
    <3>2. [cl[k] EXCEPT !.links = cl[k].links - 1] \in States
      BY <2>1, <2>4 DEF States
    <3>3. v \in Worlds
      BY <1>2, <2>1, <3>1, <3>2 DEF Worlds
    <3>4. /\ v.class[k].links = cl[k].links - 1 /\ v.class[k].state = cl[k].state
          /\ \A j \in Classes : j # k => v.class[j] = cl[j]
      BY <1>2, <2>1, <3>1 DEF States
    <3>5. ASSUME NEW j \in Classes
          PROVE  /\ v.class[j].links = Cardinality(C(j) \ {cf})
                 /\ v.class[j].state = cl[j].state
                 /\ v.class[j].state = "marked" => C(j) \ {cf} # {}
      <4>1. CASE j = k
        <5>1. cl[k].state = "marked" => Cardinality(C(k) \ {cf}) # 0
          BY <2>4, <2>7
        <5> QED BY <2>4, <3>4, <4>1, <5>1, FS_EmptySet
      <4>2. CASE j # k
        BY <1>3, <1>5, <2>3, <3>4, <4>2
      <4> QED BY <4>1, <4>2
    <3>6. v.item = it
      BY <3>1
    <3> QED BY <3>3, <3>5, <3>6 DEF C, cf, ClassesLeft, WellLeft
  <2> QED BY <2>6, <2>7
<1> QED BY <1>7, <1>8
(* Detaching keeps the world sound for what is held afterwards.            *)
LEMMA Detach ==
  ASSUME NEW w, NEW h, Sound(w, h), NEW c \in Clients, NEW f \in h[c], NEW r, r = detach_conf(w, f)
  PROVE  /\ Sound(r, Dropped(h, c, f))
         /\ \A g \in Confs : r.item[g].status = "listed" <=> w.item[g].status = "listed"
<1> DEFINE k == w.item[f].class
           v == Left(w, f)
<1>1. h \in Holdings /\ f \in Confs /\ w \in Worlds
  BY DEF Sound, Holdings
<1>2. /\ Dropped(h, c, f) \in Holdings /\ c \in HeldBy(h, f)
      /\ \A g \in Confs : HeldBy(Dropped(h, c, f), g) = IF g = f THEN HeldBy(h, f) \ {c} ELSE HeldBy(h, g)
  BY <1>1, HeldLess
<1>2a. WellLeft(w, h, c, f)
  BY LeaveProperties
<1>3. /\ v \in Worlds
      /\ \A g \in Confs \ {f} : v.item[g] = w.item[g]
      /\ v.item[f].status = w.item[f].status /\ v.item[f].clients = w.item[f].clients
      /\ v.item[f].class = k \/ (HeldBy(h, f) = {c} /\ w.item[f].status # "listed")
  BY <1>2a DEF WellLeft
<1>4a. ClassesLeft(v.class, w.class, [j \in Classes |-> Charged(w.item, h, j) \ {<<c, f>>}])
  BY <1>2a DEF WellLeft
<1>4. \A j \in Classes :
              /\ v.class[j].links = Cardinality(Charged(w.item, h, j) \ {<<c, f>>})
              /\ \/ v.class[j].state = w.class[j].state
                 \/ /\ w.class[j].state = "marked" /\ v.class[j].state = "free"
                    /\ Charged(w.item, h, j) \ {<<c, f>>} = {}
              /\ v.class[j].state = "marked" => Charged(w.item, h, j) \ {<<c, f>>} # {}
  BY <1>4a DEF ClassesLeft
<1>5. r = IF v.item[f].clients = 1 /\ v.item[f].status = "illegal"
          THEN [item |-> [v.item EXCEPT ![f] = FreeItem], class |-> v.class]
          ELSE [item |-> [v.item EXCEPT ![f].clients = @ - 1], class |-> v.class]
  BY DEF detach_conf, Left
<1> HIDE DEF v
<1>6. /\ IsFiniteSet(HeldBy(h, f)) /\ Cardinality(HeldBy(h, f)) \in Nat
      /\ w.item[f].clients = Cardinality(HeldBy(h, f))
      /\ Cardinality(HeldBy(h, f) \ {c}) = w.item[f].clients - 1
  BY <1>1, <1>2, Finite, FS_CardinalityType, FS_RemoveElement DEF Sound, Exact
<1>7. w.item[f].clients = 1 <=> HeldBy(h, f) = {c}
  <2>1. IsFiniteSet(HeldBy(h, f) \ {c}) /\ (HeldBy(h, f) \ {c} = {} <=> HeldBy(h, f) = {c})
    BY <1>2, <1>6, FS_Subset
  <2> QED BY <1>6, <2>1, FS_EmptySet
<1>8. /\ v.item \in [Confs -> Items] /\ v.class \in [Classes -> States]
      /\ v.item[f] \in Items /\ FreeItem \in Items
      /\ w.item[f] \in Items
  BY <1>1, <1>3 DEF Worlds, Items, FreeItem
<1>9. /\ r \in Worlds /\ r.class = v.class
      /\ \A g \in Confs \ {f} : r.item[g] = w.item[g]
      /\ r.item[f].clients = w.item[f].clients - 1
      /\ \/ /\ r.item[f].status = w.item[f].status
            /\ w.item[f].status = "illegal" => w.item[f].clients # 1
            /\ r.item[f].class = v.item[f].class
         \/ r.item[f].status = "free" /\ w.item[f].status = "illegal" /\ w.item[f].clients = 1
  <2>1. CASE v.item[f].clients = 1 /\ v.item[f].status = "illegal"
    <3>1. r = [item |-> [v.item EXCEPT ![f] = FreeItem], class |-> v.class]
      BY <1>5, <2>1
    <3>2. r.item[f] = FreeItem /\ \A g \in Confs \ {f} : r.item[g] = v.item[g]
      BY <1>1, <1>8, <3>1
    <3>3. r \in Worlds /\ r.class = v.class
      <4>1. [v.item EXCEPT ![f] = FreeItem] \in [Confs -> Items]
        BY <1>8
      <4> QED BY <1>8, <3>1, <4>1 DEF Worlds
    <3> QED BY <1>3, <2>1, <3>2, <3>3 DEF FreeItem
  <2>2. CASE ~ (v.item[f].clients = 1 /\ v.item[f].status = "illegal")
    <3> DEFINE e == [v.item[f] EXCEPT !.clients = @ - 1]
    <3>1. r = [item |-> [v.item EXCEPT ![f] = e], class |-> v.class]
      BY <1>5, <2>2
    <3>2. /\ e \in Items /\ e.clients = v.item[f].clients - 1
          /\ e.status = v.item[f].status /\ e.class = v.item[f].class
      BY <1>8 DEF Items
    <3> HIDE DEF e
    <3>3. r.item[f] = e /\ \A g \in Confs \ {f} : r.item[g] = v.item[g]
      BY <1>1, <1>8, <3>1
    <3>4. r \in Worlds /\ r.class = v.class
      <4>1. [v.item EXCEPT ![f] = e] \in [Confs -> Items]
        BY <1>8, <3>2
      <4> QED BY <1>8, <3>1, <4>1 DEF Worlds
    <3> QED BY <1>3, <2>2, <3>2, <3>3, <3>4
  <2> QED BY <2>1, <2>2
<1>10. r.item[f].class = w.item[f].class \/ HeldBy(h, f) = {c}
  BY <1>3, <1>7, <1>9
<1>11. \A j : Charged(r.item, Dropped(h, c, f), j) = Charged(w.item, h, j) \ {<<c, f>>}
  BY <1>1, <1>9, <1>10, ChargedLess
<1>12. Exact(r, Dropped(h, c, f))
  <2>1. Exact(w, h)
    BY DEF Sound
  <2>2. ASSUME NEW g \in Confs
        PROVE  r.item[g].clients = Cardinality(HeldBy(Dropped(h, c, f), g))
    <3>1. CASE g = f
      <4>1. HeldBy(Dropped(h, c, f), g) = HeldBy(h, f) \ {c}
        BY <1>2, <3>1
      <4>2. r.item[g].clients = w.item[f].clients - 1
        BY <1>9, <3>1
      <4> QED BY <1>6, <4>1, <4>2
    <3>2. CASE g # f
      <4>1. HeldBy(Dropped(h, c, f), g) = HeldBy(h, g)
        BY <1>2, <3>2
      <4>2. r.item[g] = w.item[g]
        BY <1>9, <3>2
      <4> QED BY <2>1, <4>1, <4>2 DEF Exact
    <3> QED BY <3>1, <3>2
  <2>3. \A k2 \in Classes : r.class[k2].links = Cardinality(Charged(r.item, Dropped(h, c, f), k2))
    BY <1>4, <1>9, <1>11
  <2> QED BY <2>2, <2>3 DEF Exact
<1>13. \A g \in Confs : HeldBy(Dropped(h, c, f), g) # {} =>
         /\ r.item[g].status = w.item[g].status /\ r.item[g].class = w.item[g].class
         /\ HeldBy(h, g) # {}
         /\ \E d \in Clients : g \in h[d] /\ <<d, g>> # <<c, f>>
  <2> SUFFICES ASSUME NEW g \in Confs, HeldBy(Dropped(h, c, f), g) # {}
               PROVE  /\ r.item[g].status = w.item[g].status /\ r.item[g].class = w.item[g].class
                      /\ HeldBy(h, g) # {}
                      /\ \E d \in Clients : g \in h[d] /\ <<d, g>> # <<c, f>>
    OBVIOUS
  <2>1. PICK d : d \in HeldBy(Dropped(h, c, f), g)
    OBVIOUS
  <2>2. d \in HeldBy(h, g) /\ (g = f => d # c)
    BY <1>2, <2>1
  <2>3. g = f => HeldBy(h, f) # {c}
    BY <2>2
  <2> QED BY <1>3, <1>7, <1>9, <2>2, <2>3 DEF HeldBy
<1>14. Alive(r, Dropped(h, c, f))
  <2>1. ASSUME NEW g \in Confs, HeldBy(Dropped(h, c, f), g) # {} PROVE r.item[g].status # "free"
    BY <1>13, <2>1 DEF Sound, Alive
  <2>2. ASSUME NEW g \in Confs, HeldBy(Dropped(h, c, f), g) # {}, Counted(g)
        PROVE  r.item[g].class \in Classes /\ r.class[r.item[g].class].state # "free"
    <3>1. /\ r.item[g].class = w.item[g].class /\ w.item[g].class \in Classes
          /\ w.class[w.item[g].class].state # "free"
      BY <1>13, <2>2 DEF Sound, Alive
    <3>2. PICK d \in Clients : g \in h[d] /\ <<d, g>> # <<c, f>>
      BY <1>13, <2>2
    <3>3. <<d, g>> \in Charged(w.item, h, w.item[g].class) \ {<<c, f>>}
      BY <2>2, <3>2 DEF Charged
    <3>4. Charged(w.item, h, w.item[g].class) \ {<<c, f>>} # {}
      BY <3>3
    <3> QED BY <1>4, <1>9, <3>1, <3>4
  <2>3. ASSUME NEW g \in Confs, r.item[g].status = "listed"
        PROVE  r.item[g].class \in Classes /\ r.class[r.item[g].class].state = "listed"
    <3>1. w.item[g].status = "listed" /\ r.item[g].class = w.item[g].class
      BY <1>3, <1>9, <2>3
    <3>2. w.item[g].class \in Classes /\ w.class[w.item[g].class].state = "listed"
      BY <3>1 DEF Sound, Alive
    <3> QED BY <1>4, <1>9, <3>1, <3>2
  <2>4. r.class[Zero].state = "listed"
    BY <1>4, <1>9 DEF Sound, Alive, Classes
  <2> QED BY <2>1, <2>2, <2>3, <2>4 DEF Alive
<1>15. Needed(r, Dropped(h, c, f))
  <2>1. ASSUME NEW g \in Confs, r.item[g].status = "illegal" PROVE HeldBy(Dropped(h, c, f), g) # {}
    <3>1. CASE g = f
      <4>1. w.item[f].status = "illegal" /\ w.item[f].clients # 1
        BY <1>9, <2>1, <3>1
      <4>2. HeldBy(h, f) \ {c} # {}
        BY <1>2, <1>7, <4>1
      <4> QED BY <1>2, <3>1, <4>2
    <3>2. CASE g # f
      BY <1>2, <1>9, <2>1, <3>2 DEF Sound, Needed
    <3> QED BY <3>1, <3>2
  <2>2. \A j \in Classes : r.class[j].state = "marked" => Charged(r.item, Dropped(h, c, f), j) # {}
    BY <1>4, <1>9, <1>11
  <2> QED BY <2>1, <2>2 DEF Needed
<1> QED BY <1>2, <1>9, <1>12, <1>14, <1>15 DEF Sound
(* What a client that takes a listed item changes.                         *)
Added(h, c, f) == [h EXCEPT ![c] = h[c] \cup {f}]

LEMMA HeldMore ==
  ASSUME NEW h \in Holdings, NEW c \in Clients, NEW f \in Confs \ h[c]
  PROVE  /\ Added(h, c, f) \in Holdings /\ c \notin HeldBy(h, f)
         /\ \A g \in Confs : HeldBy(Added(h, c, f), g) =
                               IF g = f THEN HeldBy(h, f) \cup {c} ELSE HeldBy(h, g)
<1>1. /\ Added(h, c, f) \in Holdings
      /\ \A d \in Clients : Added(h, c, f)[d] = IF d = c THEN h[d] \cup {f} ELSE h[d]
  BY DEF Holdings, Added
<1> QED BY <1>1 DEF HeldBy

LEMMA SamePairs ==
  ASSUME NEW A, NEW B, NEW S \in SUBSET (A \X B), NEW T \in SUBSET (A \X B),
         \A a \in A, b \in B : <<a, b>> \in S <=> <<a, b>> \in T
  PROVE  S = T
<1>1. \A x \in A \X B : \E a \in A, b \in B : x = <<a, b>>
  OBVIOUS
<1>2. \A x \in A \X B : x \in S <=> x \in T
  BY <1>1
<1> QED BY <1>2

More(C, g, c, f) == IF g THEN C \cup {<<c, f>>} ELSE C

LEMMA ChargedMore ==
  ASSUME NEW h \in Holdings, NEW c \in Clients, NEW f \in Confs \ h[c],
         NEW it, NEW jt, \A g \in Confs : jt[g].class = it[g].class, NEW k
  PROVE  Charged(jt, Added(h, c, f), k) =
           More(Charged(it, h, k), Counted(f) /\ it[f].class = k, c, f)
<1>1. \A d \in Clients : Added(h, c, f)[d] = IF d = c THEN h[d] \cup {f} ELSE h[d]
  BY DEF Holdings, Added
<1>2. ASSUME NEW d \in Clients, NEW g \in Confs
      PROVE  <<d, g>> \in Charged(jt, Added(h, c, f), k) <=>
               <<d, g>> \in More(Charged(it, h, k), Counted(f) /\ it[f].class = k, c, f)
  <2>1. g \in Added(h, c, f)[d] <=> g \in h[d] \/ (d = c /\ g = f)
    BY <1>1
  <2>2. jt[g].class = it[g].class
    OBVIOUS
  <2>3. <<d, g>> \in Charged(jt, Added(h, c, f), k) <=>
          g \in Added(h, c, f)[d] /\ Counted(g) /\ jt[g].class = k
    BY DEF Charged
  <2>4. <<d, g>> \in Charged(it, h, k) <=> g \in h[d] /\ Counted(g) /\ it[g].class = k
    BY DEF Charged
  <2>5. <<d, g>> = <<c, f>> <=> d = c /\ g = f
    OBVIOUS
  <2> QED BY <2>1, <2>2, <2>3, <2>4, <2>5 DEF More
<1>3. Charged(jt, Added(h, c, f), k) \subseteq Clients \X Confs
      /\ More(Charged(it, h, k), Counted(f) /\ it[f].class = k, c, f) \subseteq Clients \X Confs
  BY DEF Charged, More
<1> DEFINE S == Charged(jt, Added(h, c, f), k)
           T == More(Charged(it, h, k), Counted(f) /\ it[f].class = k, c, f)
<1>4. \A d \in Clients, g \in Confs : <<d, g>> \in S <=> <<d, g>> \in T
  BY <1>2
<1>5. S \in SUBSET (Clients \X Confs) /\ T \in SUBSET (Clients \X Confs)
  BY <1>3
<1> HIDE DEF S, T
<1>6. S = T
  BY <1>4, <1>5, SamePairs
<1> QED BY <1>6 DEF S, T

LEMMA Attach ==
  ASSUME NEW w, NEW h, Sound(w, h), NEW c \in Clients, NEW f \in Confs \ h[c],
         w.item[f].status = "listed", NEW r, r = attach_conf(w, f)
  PROVE  /\ Sound(r, Added(h, c, f))
         /\ \A g \in Confs : r.item[g].status = w.item[g].status
<1> DEFINE k == w.item[f].class
           cf == <<c, f>>
<1>1. h \in Holdings /\ w.item \in [Confs -> Items] /\ w.class \in [Classes -> States]
      /\ w = [item |-> w.item, class |-> w.class] /\ w.item[f] \in Items
  BY DEF Sound, Worlds
<1>2. k \in Classes /\ w.class[k].state = "listed" /\ w.class[k] \in States
  BY <1>1 DEF Sound, Alive
<1>3. /\ Added(h, c, f) \in Holdings /\ c \notin HeldBy(h, f)
      /\ \A g \in Confs : HeldBy(Added(h, c, f), g) =
                            IF g = f THEN HeldBy(h, f) \cup {c} ELSE HeldBy(h, g)
  BY <1>1, HeldMore
<1> DEFINE e == [w.item[f] EXCEPT !.clients = @ + 1]
           l == [w.class[k] EXCEPT !.links = @ + 1]
<1>4. /\ e \in Items /\ e.status = "listed" /\ e.class = k
      /\ e.clients = w.item[f].clients + 1
  BY <1>1 DEF Items
<1>5. l \in States /\ l.state = "listed" /\ l.links = w.class[k].links + 1
  BY <1>2 DEF States
<1>6. r = [item |-> [w.item EXCEPT ![f] = e],
           class |-> IF Counted(f) THEN [w.class EXCEPT ![k] = l] ELSE w.class]
  BY DEF attach_conf
<1> HIDE DEF e, l
<1>7. /\ [w.item EXCEPT ![f] = e] \in [Confs -> Items]
      /\ [w.class EXCEPT ![k] = l] \in [Classes -> States]
  BY <1>1, <1>2, <1>4, <1>5
<1>8. r \in Worlds
  BY <1>1, <1>6, <1>7 DEF Worlds
<1>9. r.item[f] = e /\ \A g \in Confs \ {f} : r.item[g] = w.item[g]
  BY <1>1, <1>6
<1>10. /\ Counted(f) => r.class[k] = l
       /\ \A j \in Classes : ~ (Counted(f) /\ k = j) => r.class[j] = w.class[j]
  BY <1>1, <1>2, <1>6
<1>11. \A g \in Confs : /\ r.item[g].class = w.item[g].class
                        /\ r.item[g].status = w.item[g].status
  BY <1>4, <1>9
<1>12. ASSUME NEW j
       PROVE  Charged(r.item, Added(h, c, f), j) =
                IF Counted(f) /\ k = j THEN Charged(w.item, h, j) \cup {cf}
                                       ELSE Charged(w.item, h, j)
  <2>1. Charged(r.item, Added(h, c, f), j) =
          More(Charged(w.item, h, j), Counted(f) /\ w.item[f].class = j, c, f)
    BY <1>1, <1>11, ChargedMore
  <2> QED BY <2>1 DEF More
<1>13. ASSUME NEW j PROVE cf \notin Charged(w.item, h, j) /\ IsFiniteSet(Charged(w.item, h, j))
  <2>1. f \notin h[c]
    OBVIOUS
  <2>2. cf \notin Charged(w.item, h, j)
    BY <2>1 DEF Charged
  <2> QED BY <2>2, Finite
<1>14. Exact(r, Added(h, c, f))
  <2>1. ASSUME NEW g \in Confs
        PROVE  r.item[g].clients = Cardinality(HeldBy(Added(h, c, f), g))
    <3>0. w.item[g].clients = Cardinality(HeldBy(h, g)) /\ IsFiniteSet(HeldBy(h, g))
      BY Finite DEF Sound, Exact
    <3>1. CASE g = f
      <4>1. Cardinality(HeldBy(h, f) \cup {c}) = Cardinality(HeldBy(h, f)) + 1
        BY <1>3, <3>0, <3>1, FS_AddElement
      <4> QED BY <1>3, <1>4, <1>9, <3>0, <3>1, <4>1
    <3>2. CASE g # f
      BY <1>3, <1>9, <3>0, <3>2
    <3> QED BY <3>1, <3>2
  <2>2. ASSUME NEW j \in Classes
        PROVE  r.class[j].links = Cardinality(Charged(r.item, Added(h, c, f), j))
    <3>0. w.class[j].links = Cardinality(Charged(w.item, h, j))
      BY DEF Sound, Exact
    <3>1. Cardinality(Charged(w.item, h, j) \cup {cf}) = Cardinality(Charged(w.item, h, j)) + 1
      BY <1>13, FS_AddElement
    <3>2. CASE Counted(f) /\ k = j
      BY <1>5, <1>10, <1>12, <3>0, <3>1, <3>2
    <3>3. CASE ~ (Counted(f) /\ k = j)
      BY <1>10, <1>12, <3>0, <3>3
    <3> QED BY <3>2, <3>3
  <2> QED BY <2>1, <2>2 DEF Exact
<1>15. \A j \in Classes : r.class[j].state = w.class[j].state
  BY <1>2, <1>5, <1>10
<1>16. \A g \in Confs : HeldBy(Added(h, c, f), g) # {} => g = f \/ HeldBy(h, g) # {}
  BY <1>3
<1>17. Alive(r, Added(h, c, f))
  <2>0. Alive(w, h)
    BY DEF Sound
  <2>1. ASSUME NEW g \in Confs, HeldBy(Added(h, c, f), g) # {} PROVE r.item[g].status # "free"
    BY <1>11, <1>16, <2>0, <2>1 DEF Alive
  <2>2. ASSUME NEW g \in Confs, HeldBy(Added(h, c, f), g) # {}, Counted(g)
        PROVE  r.item[g].class \in Classes /\ r.class[r.item[g].class].state # "free"
    <3>1. w.item[g].class \in Classes /\ w.class[w.item[g].class].state # "free"
      BY <1>2, <1>16, <2>0, <2>2 DEF Alive
    <3> QED BY <1>11, <1>15, <3>1
  <2>3. ASSUME NEW g \in Confs, r.item[g].status = "listed"
        PROVE  r.item[g].class \in Classes /\ r.class[r.item[g].class].state = "listed"
    <3>1. w.item[g].class \in Classes /\ w.class[w.item[g].class].state = "listed"
      BY <1>11, <2>0, <2>3 DEF Alive
    <3> QED BY <1>11, <1>15, <3>1
  <2>4. r.class[Zero].state = "listed"
    BY <1>15, <2>0 DEF Alive, Classes
  <2> QED BY <2>1, <2>2, <2>3, <2>4 DEF Alive
<1>18. Needed(r, Added(h, c, f))
  <2>0. Needed(w, h)
    BY DEF Sound
  <2>1. ASSUME NEW g \in Confs, r.item[g].status = "illegal"
        PROVE  HeldBy(Added(h, c, f), g) # {}
    BY <1>3, <1>11, <2>0, <2>1 DEF Needed
  <2>2. ASSUME NEW j \in Classes, r.class[j].state = "marked"
        PROVE  Charged(r.item, Added(h, c, f), j) # {}
    <3>1. Charged(w.item, h, j) # {}
      BY <1>15, <2>0, <2>2 DEF Needed
    <3> QED BY <1>12, <3>1
  <2> QED BY <2>1, <2>2 DEF Needed
<1> QED BY <1>3, <1>8, <1>11, <1>14, <1>17, <1>18 DEF Sound
-----------------------------------------------------------------------------
(* Recursions over 1 .. n, and least elements.                              *)

(* The order of the naturals, as a relation the library's WFMin applies to. *)
LEMMA NatWellFounded ==
  \E R : IsWellFoundedOn(R, Nat) /\ \A x, y \in Nat : x < y => <<x, y>> \in R
<1>1. IsWellFoundedOn(OpToRel(<, Nat), Nat)
  BY NatLessThanWellFounded
<1>2. \A x, y \in Nat : x < y => <<x, y>> \in OpToRel(<, Nat)
  BY DEF OpToRel
<1> QED BY <1>1, <1>2, Zenon

LEMMA LeastNat ==
  ASSUME NEW T \in SUBSET Nat, T # {}
  PROVE  \E x \in T : \A y \in T : x <= y
<1>1. PICK R : IsWellFoundedOn(R, Nat) /\ \A x, y \in Nat : x < y => <<x, y>> \in R
  BY NatWellFounded
<1>2. IsWellFoundedOn(R, Nat)
  BY <1>1
<1>3. \E x \in T : \A y \in T : ~ (<<y, x>> \in R)
  BY <1>2, WFMin
<1>4. PICK x \in T : \A y \in T : ~ (<<y, x>> \in R)
  BY <1>3
<1>5. T \subseteq Nat
  OBVIOUS
<1>6. \A y \in T : ~(y < x)
  BY <1>1, <1>4, <1>5, Zenon
<1> QED BY <1>5, <1>6

(* Induction up to a bound, for a property given as a set.                 *)
LEMMA Induction ==
  ASSUME NEW n \in Nat, NEW S, 0 \in S, \A i \in 1 .. n : i - 1 \in S => i \in S
  PROVE  \A i \in 0 .. n : i \in S
<1> DEFINE T == {i \in 0 .. n : i \notin S}
<1>1. SUFFICES ASSUME T # {} PROVE FALSE
  OBVIOUS
<1>2. T \in SUBSET Nat
  OBVIOUS
<1>3. PICK x \in T : \A y \in T : x <= y
  BY <1>1, <1>2, LeastNat
<1>4. x \in 1 .. n /\ x - 1 \in 0 .. n
  BY <1>3
<1>5. x - 1 \in S
  BY <1>3, <1>4
<1> QED BY <1>3, <1>4, <1>5

(* A recursion over 1 .. n has a solution, for a step given as a function. *)
Solution(f, n, V, v, G) ==
  f \in [0 .. n -> V] /\ f[0] = v /\ \A i \in 1 .. n : f[i] = G[i][f[i - 1]]

LEMMA Recursion ==
  ASSUME NEW n \in Nat, NEW V, NEW v \in V, NEW G \in [1 .. n -> [V -> V]]
  PROVE  \E f : Solution(f, n, V, v, G)
<1> DEFINE P(m) == \E f \in [0 .. m -> V] :
                     f[0] = v /\ \A i \in 1 .. m : f[i] = G[i][f[i - 1]]
           S == {m \in 0 .. n : P(m)}
<1>1. 0 \in S
  <2> DEFINE f == [i \in 0 .. 0 |-> v]
  <2>1. f \in [0 .. 0 -> V] /\ f[0] = v /\ \A i \in 1 .. 0 : f[i] = G[i][f[i - 1]]
    OBVIOUS
  <2>2. P(0)
    BY <2>1
  <2> HIDE DEF P
  <2> QED BY <2>2
<1>2. ASSUME NEW m \in 1 .. n, m - 1 \in S PROVE m \in S
  <2>1. PICK f \in [0 .. (m - 1) -> V] :
          f[0] = v /\ \A i \in 1 .. (m - 1) : f[i] = G[i][f[i - 1]]
    BY <1>2
  <2> DEFINE u == G[m][f[m - 1]]
             g == [i \in 0 .. m |-> IF i = m THEN u ELSE f[i]]
  <2>2. u \in V
    BY <1>2, <2>1
  <2> HIDE DEF u
  <2>3. g \in [0 .. m -> V] /\ g[0] = v
    BY <1>2, <2>1, <2>2
  <2>4. ASSUME NEW i \in 1 .. m PROVE g[i] = G[i][g[i - 1]]
    <3>1. i - 1 \in 0 .. m /\ i - 1 # m /\ i \in 0 .. m /\ m \in 1 .. n
      BY <1>2
    <3>2. g[i - 1] = f[i - 1]
      BY <3>1
    <3>3. CASE i = m
      BY <3>1, <3>2, <3>3 DEF u
    <3>4. CASE i # m
      <4>1. i \in 1 .. (m - 1)
        BY <3>1, <3>4
      <4> QED BY <2>1, <3>1, <3>2, <3>4, <4>1
    <3> QED BY <3>3, <3>4
  <2>5. P(m)
    BY <2>3, <2>4
  <2>6. m \in 0 .. n
    BY <1>2
  <2> HIDE DEF P
  <2> QED BY <2>5, <2>6
<1>3. n \in S
  <2> HIDE DEF S
  <2>1. \A i \in 0 .. n : i \in S
    BY <1>1, <1>2, Induction
  <2> QED BY <2>1
<1> QED BY <1>3 DEF Solution

(* What is kept of a list.                                                 *)
LEMMA KeptMembers ==
  ASSUME NEW C, NEW list \in Seq(C), NEW gone
  PROVE  Kept(list, gone) \in Seq(C) /\ Members(Kept(list, gone)) = Members(list) \ gone
<1> DEFINE n == Len(list)
           G == [i \in 1 .. n |-> [t \in Seq(C) |-> IF list[i] \in gone THEN t
                                                    ELSE Append(t, list[i])]]
           R(g) == [i \in 0 .. n |->
                      IF i = 0 THEN << >>
                      ELSE IF list[i] \in gone THEN g[i - 1] ELSE Append(g[i - 1], list[i])]
           F == CHOOSE g : g = R(g)
<1>0. n \in Nat /\ << >> \in Seq(C) /\ \A i \in 1 .. n : list[i] \in C
  OBVIOUS
<1>1. G \in [1 .. n -> [Seq(C) -> Seq(C)]]
  BY <1>0
<1>2. PICK f : Solution(f, n, Seq(C), << >>, G)
  <2> HIDE DEF G
  <2> QED BY <1>0, <1>1, Recursion
<1>3. f \in [0 .. n -> Seq(C)] /\ f[0] = << >> /\ \A i \in 1 .. n : f[i] = G[i][f[i - 1]]
  BY <1>2 DEF Solution
<1>4. f = R(f)
  <2>1. ASSUME NEW i \in 1 .. n
        PROVE  f[i] = IF list[i] \in gone THEN f[i - 1] ELSE Append(f[i - 1], list[i])
    <3>0. i - 1 \in 0 .. n
      BY <1>0
    <3>1. f[i - 1] \in Seq(C)
      BY <1>3, <3>0, Zenon
    <3> QED BY <1>3, <3>1
  <2>2. \A i \in 0 .. n : i = 0 \/ i \in 1 .. n
    BY <1>0
  <2> HIDE DEF n, G
  <2> QED BY <1>3, <2>1, <2>2
<1>5. F = R(F)
  BY <1>4
<1>6. Kept(list, gone) = F[n]
  BY DEF Kept
<1> HIDE DEF F, G
<1> DEFINE S == {i \in 0 .. n : /\ F[i] \in Seq(C)
                                /\ Members(F[i]) = {list[a] : a \in 1 .. i} \ gone}
<1>7. 0 \in S
  <2>1. F[0] = << >>
    BY <1>0, <1>5
  <2>2. Members(<< >>) = {} /\ {list[a] : a \in 1 .. 0} = {} /\ 0 \in 0 .. n
    BY <1>0 DEF Members
  <2> QED BY <1>0, <2>1, <2>2
<1>8. ASSUME NEW i \in 1 .. n, i - 1 \in S PROVE i \in S
  <2>1. /\ F[i - 1] \in Seq(C) /\ i \in 0 .. n /\ i # 0 /\ list[i] \in C
        /\ Members(F[i - 1]) = {list[a] : a \in 1 .. (i - 1)} \ gone
    BY <1>0, <1>8
  <2>2. F[i] = IF list[i] \in gone THEN F[i - 1] ELSE Append(F[i - 1], list[i])
    BY <1>5, <2>1
  <2>3. {list[a] : a \in 1 .. i} = {list[a] : a \in 1 .. (i - 1)} \cup {list[i]}
    BY <1>0
  <2>4. CASE list[i] \in gone
    BY <2>1, <2>2, <2>3, <2>4
  <2>5. CASE list[i] \notin gone
    <3>1. /\ F[i] = Append(F[i - 1], list[i]) /\ F[i] \in Seq(C)
          /\ Len(F[i]) = Len(F[i - 1]) + 1 /\ F[i][Len(F[i])] = list[i]
          /\ \A a \in 1 .. Len(F[i - 1]) : F[i][a] = F[i - 1][a]
          /\ Len(F[i - 1]) \in Nat
      BY <2>1, <2>2, <2>5
    <3>2. \A a : a \in 1 .. Len(F[i]) <=> a \in 1 .. Len(F[i - 1]) \/ a = Len(F[i])
      BY <3>1
    <3>3. Members(F[i]) = Members(F[i - 1]) \cup {list[i]}
      BY <3>1, <3>2 DEF Members
    <3> QED BY <2>1, <2>3, <2>5, <3>1, <3>3
  <2> QED BY <2>4, <2>5
<1>9. n \in S
  <2> HIDE DEF S
  <2>1. \A i \in 0 .. n : i \in S
    BY <1>0, <1>7, <1>8, Induction
  <2> QED BY <1>0, <2>1
<1> QED BY <1>6, <1>9 DEF Members

LEMMA FirstIn ==
  ASSUME GlobalConfItemList \in Seq(Confs), NEW fs, First(fs) # Nil
  PROVE  First(fs) \in fs
<1> DEFINE at == {i \in DOMAIN GlobalConfItemList : GlobalConfItemList[i] \in fs}
<1>1. at # {} /\ First(fs) = GlobalConfItemList[CHOOSE i \in at : \A j \in at : i <= j]
  BY DEF First
<1>2. at \in SUBSET Nat
  OBVIOUS
<1>3. \E i \in at : \A j \in at : i <= j
  <2> HIDE DEF at
  <2> QED BY <1>1, <1>2, LeastNat
<1>4. (CHOOSE i \in at : \A j \in at : i <= j) \in at
  BY <1>3
<1> QED BY <1>1, <1>4
LEMMA DetachType ==
  ASSUME NEW w \in Worlds, NEW f \in Confs
  PROVE  detach_conf(w, f) \in Worlds
<1> DEFINE k == w.item[f].class
           v == Left(w, f)
<1>1. /\ w.item \in [Confs -> Items] /\ w.class \in [Classes -> States] /\ w.item[f] \in Items
      /\ k \in Classes \cup {Nil} /\ FreeItem \in Items /\ FreeClass \in States
  BY DEF Worlds, Items, States, FreeItem, FreeClass
<1>2. v \in Worlds
  <2>1. CASE k = Nil \/ w.class[k].state = "free"
    BY <2>1 DEF Left
  <2>2. CASE k # Nil /\ w.class[k].state # "free"
    <3> DEFINE n == IF Counted(f) /\ w.class[k].links > 0 THEN w.class[k].links - 1
                                                          ELSE w.class[k].links
               e == [w.item[f] EXCEPT !.class = Nil]
               l == [w.class[k] EXCEPT !.links = n]
    <3>1. v = LeaveClass(w, f) /\ k \in Classes /\ w.class[k] \in States
      BY <1>1, <2>2 DEF Left
    <3>2. n \in Int
      BY <3>1 DEF States
    <3>3. \/ v = [item |-> [w.item EXCEPT ![f] = e], class |-> [w.class EXCEPT ![k] = FreeClass]]
          \/ v = [item |-> w.item, class |-> [w.class EXCEPT ![k] = l]]
      BY <3>1 DEF LeaveClass
    <3> HIDE DEF n
    <3>4. e \in Items /\ l \in States
      BY <1>1, <3>1, <3>2 DEF Items, States
    <3> HIDE DEF e, l, k, v
    <3>5. /\ [w.item EXCEPT ![f] = e] \in [Confs -> Items]
          /\ [w.class EXCEPT ![k] = FreeClass] \in [Classes -> States]
          /\ [w.class EXCEPT ![k] = l] \in [Classes -> States]
      BY <1>1, <3>1, <3>4
    <3> QED BY <1>1, <3>3, <3>5 DEF Worlds
  <2> QED BY <2>1, <2>2
<1> DEFINE e == [v.item[f] EXCEPT !.clients = @ - 1]
<1>3. \/ detach_conf(w, f) = [item |-> [v.item EXCEPT ![f] = FreeItem], class |-> v.class]
      \/ detach_conf(w, f) = [item |-> [v.item EXCEPT ![f] = e], class |-> v.class]
  BY DEF detach_conf, Left
<1> HIDE DEF v
<1>4. v.item \in [Confs -> Items] /\ v.class \in [Classes -> States] /\ e \in Items
  BY <1>2 DEF Worlds, Items
<1> HIDE DEF e
<1>5. /\ [v.item EXCEPT ![f] = FreeItem] \in [Confs -> Items]
      /\ [v.item EXCEPT ![f] = e] \in [Confs -> Items]
  BY <1>1, <1>4
<1> QED BY <1>3, <1>4, <1>5 DEF Worlds

(* A client that exits detaches what it holds, one item after another.     *)
LEMMA DetachAll ==
  ASSUME NEW w, NEW h, Sound(w, h), NEW c \in Clients, NEW fs \in Seq(Confs),
         Once(fs), Members(fs) = h[c]
  PROVE  /\ Sound(det_confs(w, fs), [h EXCEPT ![c] = {}])
         /\ \A g \in Confs : det_confs(w, fs).item[g].status = "listed"
                               <=> w.item[g].status = "listed"
<1> DEFINE n == Len(fs)
           G == [i \in 1 .. n |-> [v \in Worlds |-> detach_conf(v, fs[i])]]
           R(g) == [i \in 0 .. n |-> IF i = 0 THEN w ELSE detach_conf(g[i - 1], fs[i])]
           F == CHOOSE g : g = R(g)
<1>0. n \in Nat /\ w \in Worlds /\ h \in Holdings /\ \A i \in 1 .. n : fs[i] \in Confs
  BY DEF Sound
<1>1. G \in [1 .. n -> [Worlds -> Worlds]]
  BY <1>0, DetachType
<1>2. PICK f : Solution(f, n, Worlds, w, G)
  <2> HIDE DEF G
  <2> QED BY <1>0, <1>1, Recursion
<1>3. f \in [0 .. n -> Worlds] /\ f[0] = w /\ \A i \in 1 .. n : f[i] = G[i][f[i - 1]]
  BY <1>2 DEF Solution
<1>4. f = R(f)
  <2>1. ASSUME NEW i \in 1 .. n PROVE f[i] = detach_conf(f[i - 1], fs[i])
    <3>1. f[i - 1] \in Worlds
      BY <1>0, <1>3
    <3> QED BY <1>3, <3>1
  <2>2. \A i \in 0 .. n : i = 0 \/ i \in 1 .. n
    BY <1>0
  <2> HIDE DEF n, G
  <2> QED BY <1>3, <2>1, <2>2
<1>5. F = R(F)
  BY <1>4
<1>6. det_confs(w, fs) = F[n]
  BY DEF det_confs
<1> HIDE DEF F, G
<1> DEFINE Rest(i) == [h EXCEPT ![c] = {fs[a] : a \in (i + 1) .. n}]
           Good(i) == /\ Sound(F[i], Rest(i))
                      /\ \A g \in Confs : F[i].item[g].status = "listed"
                                            <=> w.item[g].status = "listed"
           S == {i \in 0 .. n : Good(i)}
<1>7. 0 \in S
  <2>1. F[0] = w /\ 0 \in 0 .. n
    BY <1>0, <1>5
  <2>2. {fs[a] : a \in (0 + 1) .. n} = h[c]
    BY <1>0 DEF Members
  <2>3. Rest(0) = h
    BY <1>0, <2>2 DEF Holdings
  <2> QED BY <2>1, <2>3
<1>8. ASSUME NEW i \in 1 .. n, i - 1 \in S PROVE i \in S
  <2>1. i \in 0 .. n /\ i # 0 /\ i - 1 \in Nat
    BY <1>0
  <2>2. F[i] = detach_conf(F[i - 1], fs[i])
    BY <1>5, <2>1
  <2> DEFINE g == Rest(i - 1)
  <2>3. g[c] = {fs[a] : a \in i .. n} /\ fs[i] \in g[c]
    BY <1>0, <2>1 DEF Holdings
  <2>4. g[c] \ {fs[i]} = {fs[a] : a \in (i + 1) .. n}
    <3>1. \A a \in i .. n : a = i \/ a \in (i + 1) .. n
      BY <1>0, <2>1
    <3>2. \A a \in (i + 1) .. n : a \in i .. n /\ fs[a] # fs[i]
      BY <1>0, <2>1 DEF Once
    <3> QED BY <2>3, <3>1, <3>2
  <2>5. Dropped(g, c, fs[i]) = Rest(i)
    <3>1. [g EXCEPT ![c] = {fs[a] : a \in (i + 1) .. n}] = Rest(i)
      BY <1>0 DEF Holdings
    <3> QED BY <2>4, <3>1 DEF Dropped
  <2>6. Sound(F[i - 1], g) /\ \A x \in Confs : F[i - 1].item[x].status = "listed"
                                                 <=> w.item[x].status = "listed"
    BY <1>8
  <2> DEFINE s == F[i - 1]
             y == fs[i]
  <2>7. Sound(s, g) /\ y \in g[c] /\ F[i] = detach_conf(s, y)
    BY <2>2, <2>3, <2>6
  <2> HIDE DEF g, s, y
  <2>8. /\ Sound(detach_conf(s, y), Dropped(g, c, y))
        /\ \A x \in Confs : detach_conf(s, y).item[x].status = "listed"
                              <=> s.item[x].status = "listed"
    BY <2>7, Detach
  <2>9. Good(i)
    BY <2>5, <2>6, <2>7, <2>8 DEF s, y
  <2> HIDE DEF Good
  <2> QED BY <2>1, <2>9
<1>9. n \in S
  <2> HIDE DEF S
  <2>1. \A i \in 0 .. n : i \in S
    BY <1>0, <1>7, <1>8, Induction
  <2> QED BY <1>0, <2>1
<1>10. Rest(n) = [h EXCEPT ![c] = {}]
  <2>1. {fs[a] : a \in (n + 1) .. n} = {}
    BY <1>0
  <2> QED BY <2>1
<1> HIDE DEF Rest
<1> QED BY <1>6, <1>9, <1>10
-----------------------------------------------------------------------------
(* Reading the file again.                                                 *)

FreeGen(b) == CHOOSE g \in Gens : /\ Retired[<<b, g>>].status = "free"
                                  /\ \A i \in Gens : Retired[<<b, i>>].status = "free" => g <= i
FreeNumber(n) == CHOOSE g \in Gens : /\ class[<<n, g>>].state = "free"
                                     /\ \A i \in Gens : class[<<n, i>>].state = "free" => g <= i

Made(bs) == [b \in bs |-> <<b, FreeGen(b)>>]

Relisted(bs, cs) ==
  [f \in Confs |-> IF f[1] \in bs /\ f = Made(bs)[f[1]]
                   THEN [status |-> "listed", class |-> find_class(Number[f[1]], cs),
                         clients |-> 0]
                   ELSE Retired[f]]

(* The steps of rehash, with these names.                                  *)
LEMMA RehashSteps ==
  ASSUME NEW nums, NEW bs, rehash(nums, bs)
  PROVE  /\ HasRoom(bs, nums)
         /\ class' = check_class(nums, add_class(nums))
         /\ item' = Relisted(bs, check_class(nums, add_class(nums)))
         /\ \E file : /\ file = Kept(FileOrder, Blocks \ bs)
                      /\ GlobalConfItemList' =
                           [i \in 1 .. Len(file) |-> Made(bs)[file[Len(file) + 1 - i]]]
         /\ UNCHANGED <<confs, name, stage>>
<1> DEFINE made == [b \in bs |-> <<b, NewGen(LAMBDA g : Retired[<<b, g>>].status = "free")>>]
           file == Kept(FileOrder, Blocks \ bs)
           cs == check_class(nums, add_class(nums))
<1>1. made = Made(bs)
  BY DEF Made, FreeGen, NewGen
<1>2. /\ HasRoom(bs, nums) /\ class' = cs /\ UNCHANGED <<confs, name, stage>>
      /\ item' = [f \in Confs |->
                    IF f[1] \in bs /\ f = made[f[1]]
                    THEN [status |-> "listed", class |-> find_class(Number[f[1]], cs),
                          clients |-> 0]
                    ELSE Retired[f]]
      /\ GlobalConfItemList' = [i \in 1 .. Len(file) |-> made[file[Len(file) + 1 - i]]]
  BY DEF rehash
<1> HIDE DEF made, cs
<1>3. item' = Relisted(bs, cs)
  BY <1>1, <1>2 DEF Relisted
<1>4. GlobalConfItemList' = [i \in 1 .. Len(file) |-> Made(bs)[file[Len(file) + 1 - i]]]
  BY <1>1, <1>2
<1> QED BY <1>2, <1>3, <1>4 DEF cs

LEMMA FreeGenIs ==
  ASSUME NEW bs, NEW nums, HasRoom(bs, nums), NEW b \in bs
  PROVE  FreeGen(b) \in Gens /\ Retired[<<b, FreeGen(b)>>].status = "free"
<1> DEFINE T == {g \in Gens : Retired[<<b, g>>].status = "free"}
<1>1. T # {} /\ T \in SUBSET Nat
  BY ConfAssumption DEF HasRoom
<1>2. \E g \in T : \A i \in T : g <= i
  <2> HIDE DEF T
  <2> QED BY <1>1, LeastNat
<1>3. \E g \in Gens : /\ Retired[<<b, g>>].status = "free"
                      /\ \A i \in Gens : Retired[<<b, i>>].status = "free" => g <= i
  BY <1>2
<1> QED BY <1>3 DEF FreeGen

LEMMA MadeClassIs ==
  ASSUME NEW bs, NEW nums \in SUBSET Numbers, HasRoom(bs, nums),
         NEW n \in nums, ClassOf(n, class) = {}
  PROVE  MadeClass(n) \in Classes /\ class[MadeClass(n)].state = "free"
<1> DEFINE T == {g \in Gens : class[<<n, g>>].state = "free"}
<1>1. T # {} /\ T \in SUBSET Nat
  BY ConfAssumption DEF HasRoom
<1>2. \E g \in T : \A i \in T : g <= i
  <2> HIDE DEF T
  <2> QED BY <1>1, LeastNat
<1>3. \E g \in Gens : /\ class[<<n, g>>].state = "free"
                      /\ \A i \in Gens : class[<<n, i>>].state = "free" => g <= i
  BY <1>2
<1>4. FreeNumber(n) \in Gens /\ class[<<n, FreeNumber(n)>>].state = "free"
  BY <1>3 DEF FreeNumber
<1>5. MadeClass(n) = <<n, FreeNumber(n)>>
  BY DEF MadeClass, NewGen, FreeNumber
<1> QED BY <1>4, <1>5 DEF Classes
(* What a rehash leaves of the items that were there.                      *)
LEMMA RetiredIs ==
  ASSUME Sound(World, Held), NEW f \in Confs
  PROVE  /\ Retired[f] \in Items /\ Retired[f].clients = item[f].clients
         /\ Retired[f].class = item[f].class \/ HeldBy(Held, f) = {}
         /\ Retired[f].status # "listed"
         /\ Retired[f].status = "free" <=> HeldBy(Held, f) = {}
<1> DEFINE H == HeldBy(Held, f)
<1>1. item[f] \in Items /\ item[f].clients = Cardinality(H) /\ IsFiniteSet(H)
      /\ Cardinality(H) \in Nat /\ (Cardinality(H) = 0 <=> H = {})
  BY Finite, FS_CardinalityType, FS_EmptySet DEF Sound, Worlds, World, Exact
<1>2. /\ H # {} => item[f].status # "free"
      /\ item[f].status = "illegal" => H # {}
  BY DEF Sound, Alive, Needed, World
<1> HIDE DEF H
<1>3. CASE item[f].status # "listed"
  <2>1. Retired[f] = item[f]
    BY <1>3 DEF Retired
  <2> QED BY <1>1, <1>2, <1>3, <2>1 DEF H, Items
<1>4. CASE item[f].status = "listed" /\ item[f].clients > 0
  <2>1. Retired[f] = [item[f] EXCEPT !.status = "illegal"]
    BY <1>4 DEF Retired
  <2>2. /\ Retired[f] \in Items /\ Retired[f].status = "illegal"
        /\ Retired[f].class = item[f].class /\ Retired[f].clients = item[f].clients
    BY <1>1, <2>1 DEF Items
  <2> QED BY <1>1, <1>4, <2>2 DEF H
<1>5. CASE item[f].status = "listed" /\ ~ (item[f].clients > 0)
  <2>1. Retired[f] = FreeItem
    BY <1>5 DEF Retired
  <2>2. H = {} /\ item[f].clients = 0
    BY <1>1, <1>5
  <2> QED BY <2>1, <2>2 DEF H, Items, FreeItem
<1> QED BY <1>3, <1>4, <1>5

(* The classes of the file are there, the others are freed or marked.      *)
LEMMA ClassesChecked ==
  ASSUME Sound(World, Held), NEW bs, NEW nums \in SUBSET Numbers, HasRoom(bs, nums),
         NEW cs, cs = check_class(nums, add_class(nums))
  PROVE  /\ cs \in [Classes -> States] /\ cs[Zero].state = "listed"
         /\ \A k \in Classes :
              /\ cs[k].links = Cardinality(Charged(item, Held, k))
              /\ cs[k].state = "free" => Charged(item, Held, k) = {}
              /\ cs[k].state = "marked" => Charged(item, Held, k) # {}
<1> DEFINE as == add_class(nums)
           C(k) == Charged(item, Held, k)
<1>1. class \in [Classes -> States] /\ Zero \in Classes /\ class[Zero].state = "listed"
  BY DEF Sound, Worlds, World, Alive, Classes
<1>2. ASSUME NEW k \in Classes
      PROVE  /\ class[k].links = Cardinality(C(k)) /\ Cardinality(C(k)) \in Nat
             /\ (Cardinality(C(k)) = 0 <=> C(k) = {})
             /\ class[k].state = "free" => C(k) = {}
             /\ class[k].state = "marked" => C(k) # {}
  <2>1. IsFiniteSet(C(k)) /\ class[k].links = Cardinality(C(k))
        /\ (class[k].state = "marked" => C(k) # {})
    BY Finite DEF Sound, Exact, Needed, World
  <2>2. ASSUME class[k].state = "free", NEW cf \in C(k) PROVE FALSE
    <3>1. cf \in Clients \X Confs /\ cf[2] \in Confs /\ cf[1] \in HeldBy(Held, cf[2])
          /\ Counted(cf[2]) /\ item[cf[2]].class = k
      BY <2>2 DEF Charged, HeldBy
    <3> QED BY <2>2, <3>1 DEF Sound, Alive, World
  <2> QED BY <2>1, <2>2, FS_CardinalityType, FS_EmptySet
<1> HIDE DEF C
<1>3. ASSUME NEW k \in Classes
      PROVE  /\ as[k] \in States /\ as[k].links = Cardinality(C(k))
             /\ as[k].state = "free" => C(k) = {}
             /\ as[k].state = "marked" => C(k) # {}
             /\ k = Zero => as[k] = class[k]
  <2>1. CASE k[1] \in nums /\ ClassOf(k[1], class) = {} /\ k = MadeClass(k[1])
    <3>1. as[k] = [state |-> "listed", links |-> 0]
      BY <2>1 DEF add_class
    <3>2. class[k].state = "free"
      BY <2>1, MadeClassIs
    <3>3. k # Zero
      BY <2>1, ConfAssumption DEF Zero
    <3> QED BY <1>2, <3>1, <3>2, <3>3 DEF States
  <2>2. CASE ~ (k[1] \in nums /\ ClassOf(k[1], class) = {} /\ k = MadeClass(k[1]))
    <3>1. as[k] = class[k]
      BY <2>2 DEF add_class
    <3> QED BY <1>1, <1>2, <3>1
  <2> QED BY <2>1, <2>2
<1> HIDE DEF as
<1>4. ASSUME NEW k \in Classes
      PROVE  /\ cs[k] \in States /\ cs[k].links = Cardinality(C(k))
             /\ cs[k].state = "free" => C(k) = {}
             /\ cs[k].state = "marked" => C(k) # {}
             /\ k = Zero => cs[k] = as[k]
  <2>0. /\ as[k].links = Cardinality(C(k)) /\ Cardinality(C(k)) \in Nat
        /\ Cardinality(C(k)) = 0 <=> C(k) = {}
    BY <1>2, <1>3
  <2>1. CASE k = Zero \/ as[k].state # "listed" \/ k[1] \in nums
    <3>1. cs[k] = as[k]
      BY <2>1 DEF check_class, as
    <3> QED BY <1>3, <3>1
  <2>2. CASE ~ (k = Zero \/ as[k].state # "listed" \/ k[1] \in nums)
    <3>1. CASE as[k].links <= 0
      <4>1. cs[k] = FreeClass
        BY <2>2, <3>1 DEF check_class, as
      <4>2. C(k) = {} /\ Cardinality(C(k)) = 0
        BY <2>0, <3>1
      <4>3. FreeClass \in States /\ FreeClass.state = "free" /\ FreeClass.links = 0
        BY DEF FreeClass, States
      <4>4. k # Zero
        BY <2>2
      <4> HIDE DEF as, FreeClass
      <4> QED BY <4>1, <4>2, <4>3, <4>4
    <3>2. CASE ~ (as[k].links <= 0)
      <4>1. cs[k] = [as[k] EXCEPT !.state = "marked"]
        BY <2>2, <3>2 DEF check_class, as
      <4>2. cs[k] \in States /\ cs[k].state = "marked" /\ cs[k].links = as[k].links
        BY <1>3, <4>1 DEF States
      <4>3. C(k) # {}
        BY <2>0, <3>2
      <4> QED BY <2>0, <2>2, <4>2, <4>3
    <3> QED BY <3>1, <3>2
  <2> QED BY <2>1, <2>2
<1>5. cs = [k \in Classes |-> cs[k]]
  BY DEF check_class
<1>6. cs[Zero].state = "listed"
  BY <1>1, <1>3, <1>4
<1> QED BY <1>4, <1>5, <1>6 DEF C

LEMMA FindClass ==
  ASSUME NEW cs, cs[Zero].state = "listed", NEW n
  PROVE  find_class(n, cs) \in Classes /\ cs[find_class(n, cs)].state = "listed"
<1>1. CASE ClassOf(n, cs) = {}
  BY <1>1 DEF find_class, Classes
<1>2. CASE ClassOf(n, cs) # {}
  <2>1. find_class(n, cs) \in ClassOf(n, cs)
    BY <1>2 DEF find_class
  <2> QED BY <2>1 DEF ClassOf
<1> QED BY <1>1, <1>2

LEMMA RehashSound ==
  ASSUME Sound(World, Held), NEW bs \in SUBSET Blocks, NEW nums \in SUBSET Numbers,
         HasRoom(bs, nums),
         NEW cs, cs = check_class(nums, add_class(nums)), NEW it, it = Relisted(bs, cs)
  PROVE  /\ Sound([item |-> it, class |-> cs], Held)
         /\ Made(bs) \in [bs -> Confs]
         /\ \A f \in Confs : it[f].status = "listed" <=> \E b \in bs : f = Made(bs)[b]
<1> DEFINE made == Made(bs)
<1>1. \A b \in bs : made[b] \in Confs /\ made[b][1] = b /\ Retired[made[b]].status = "free"
  BY FreeGenIs DEF Made, Confs
<1>2. Made(bs) \in [bs -> Confs]
  BY <1>1 DEF Made
<1>3. /\ cs \in [Classes -> States] /\ cs[Zero].state = "listed"
      /\ \A k \in Classes :
              /\ cs[k].links = Cardinality(Charged(item, Held, k))
              /\ cs[k].state = "free" => Charged(item, Held, k) = {}
              /\ cs[k].state = "marked" => Charged(item, Held, k) # {}
  BY ClassesChecked
<1> HIDE DEF made
<1> DEFINE New(f) == f[1] \in bs /\ f = made[f[1]]
<1>4. ASSUME NEW f \in Confs
      PROVE  /\ it[f] \in Items /\ it[f].clients = item[f].clients
             /\ HeldBy(Held, f) # {} => it[f].class = item[f].class
             /\ it[f].status = "free" => HeldBy(Held, f) = {}
             /\ it[f].status = "illegal" => HeldBy(Held, f) # {}
             /\ it[f].status = "listed" <=> New(f)
             /\ it[f].status = "listed" =>
                  it[f].class \in Classes /\ cs[it[f].class].state = "listed"
  <2>1. CASE New(f)
    <3>1. it[f] = [status |-> "listed", class |-> find_class(Number[f[1]], cs), clients |-> 0]
      BY <2>1 DEF Relisted, made
    <3>2. HeldBy(Held, f) = {}
      BY <1>1, <2>1, RetiredIs
    <3>3. item[f].clients = 0
      BY <3>2, FS_EmptySet DEF Sound, Exact, World
    <3>4. find_class(Number[f[1]], cs) \in Classes /\ cs[find_class(Number[f[1]], cs)].state = "listed"
      BY <1>3, FindClass
    <3> QED BY <2>1, <3>1, <3>2, <3>3, <3>4 DEF Items
  <2>2. CASE ~ New(f)
    <3>1. it[f] = Retired[f]
      BY <2>2 DEF Relisted, made
    <3>2. /\ Retired[f] \in Items /\ Retired[f].clients = item[f].clients
          /\ Retired[f].class = item[f].class \/ HeldBy(Held, f) = {}
          /\ Retired[f].status # "listed"
          /\ Retired[f].status = "free" <=> HeldBy(Held, f) = {}
      BY RetiredIs
    <3> HIDE DEF New
    <3> QED BY <2>2, <3>1, <3>2
  <2> QED BY <2>1, <2>2
<1>5. \A f \in Confs : it[f].status = "listed" <=> \E b \in bs : f = Made(bs)[b]
  BY <1>1, <1>4 DEF made
<1> HIDE DEF New
<1>6. it \in [Confs -> Items]
  <2>1. it = [f \in Confs |-> it[f]]
    BY DEF Relisted
  <2> QED BY <1>4, <2>1
<1>7. ASSUME NEW k PROVE Charged(it, Held, k) = Charged(item, Held, k)
  <2>1. \A c \in Clients, f \in Confs : f \in Held[c] => it[f].class = item[f].class
    BY <1>4 DEF HeldBy
  <2> QED BY <2>1 DEF Charged
<1> DEFINE w == [item |-> it, class |-> cs]
<1>8. w.item = it /\ w.class = cs /\ w \in Worlds
  BY <1>3, <1>6 DEF Worlds
<1>9. Exact(w, Held)
  BY <1>3, <1>4, <1>7, <1>8 DEF Sound, Exact, World
<1>10. Needed(w, Held)
  BY <1>3, <1>4, <1>7, <1>8 DEF Needed
<1>11. Alive(w, Held)
  <2>1. ASSUME NEW f \in Confs, HeldBy(Held, f) # {}, Counted(f)
        PROVE  it[f].class \in Classes /\ cs[it[f].class].state # "free"
    <3>1. it[f].class = item[f].class /\ item[f].class \in Classes
      BY <1>4, <2>1 DEF Sound, Alive, World
    <3>2. PICK c \in Clients : f \in Held[c]
      BY <2>1 DEF HeldBy
    <3>3. <<c, f>> \in Charged(item, Held, item[f].class)
      BY <2>1, <3>2 DEF Charged
    <3> QED BY <1>3, <3>1, <3>3
  <2> QED BY <1>3, <1>4, <1>8, <2>1 DEF Alive
<1> HIDE DEF w
<1>12. Sound(w, Held)
  BY <1>8, <1>9, <1>10, <1>11 DEF Sound
<1> QED BY <1>2, <1>5, <1>12 DEF w
-----------------------------------------------------------------------------
(* The steps.                                                              *)

LEMMA Cons ==
  ASSUME NEW s \in Seq(Confs), Once(s), NEW f \in Confs \ Members(s)
  PROVE  /\ <<f>> \o s \in Seq(Confs) /\ Once(<<f>> \o s)
         /\ Members(<<f>> \o s) = Members(s) \cup {f} /\ Len(<<f>> \o s) = Len(s) + 1
<1> DEFINE t == <<f>> \o s
<1>1. /\ t \in Seq(Confs) /\ Len(s) \in Nat /\ Len(t) = Len(s) + 1
      /\ t[1] = f /\ \A i \in 2 .. Len(t) : t[i] = s[i - 1]
  OBVIOUS
<1> HIDE DEF t
<1>2. /\ \A i \in 1 .. Len(t) : i = 1 \/ (i \in 2 .. Len(t) /\ i - 1 \in 1 .. Len(s))
      /\ \A i \in 1 .. Len(s) : i + 1 \in 2 .. Len(t) /\ i + 1 - 1 = i /\ i + 1 \in 1 .. Len(t)
      /\ 1 \in 1 .. Len(t)
  BY <1>1
<1>3. \A i \in 1 .. Len(s) : t[i + 1] = s[i] /\ s[i] # f
  BY <1>1, <1>2 DEF Members
<1>4. Members(t) = Members(s) \cup {f}
  <2>1. \A x \in Members(t) : x \in Members(s) \cup {f}
    BY <1>1, <1>2 DEF Members
  <2>2. \A x \in Members(s) : x \in Members(t)
    BY <1>2, <1>3 DEF Members
  <2>3. f \in Members(t)
    BY <1>1, <1>2 DEF Members
  <2> QED BY <2>1, <2>2, <2>3
<1>5. Once(t)
  <2> SUFFICES ASSUME NEW i \in 1 .. Len(t), NEW j \in 1 .. Len(t), t[i] = t[j] PROVE i = j
    BY DEF Once
  <2>1. CASE i # 1 /\ j # 1
    BY <1>1, <1>2, <2>1 DEF Once
  <2>2. CASE i = 1 \/ j = 1
    <3>1. \A a \in 1 .. Len(t) : a # 1 => t[a] # f
      BY <1>1, <1>2, <1>3
    <3> QED BY <1>1, <2>2, <3>1
  <2> QED BY <2>1, <2>2
<1> QED BY <1>1, <1>4, <1>5 DEF t

LEMMA Basics ==
  ASSUME ConfInv
  PROVE  /\ Sound(World, Held) /\ World \in Worlds /\ Held \in Holdings
         /\ World.item = item /\ World.class = class
         /\ \A c \in Clients : /\ confs[c] \in Seq(Confs) /\ Once(confs[c])
                               /\ Members(confs[c]) = Held[c]
         /\ Listed \subseteq Confs /\ Listed = Members(GlobalConfItemList)
         /\ \A f \in Listed : item[f].status = "listed"
BY DEF ConfInv, Sound, World, Held, Listed, Members

(* What every step must establish of the world and the holdings.           *)
HeldInv ==
  /\ Sound(World, Held)
  /\ confs \in [Clients -> Seq(Confs)] /\ \A c \in Clients : Once(confs[c])

LEMMA SetWorldIs ==
  ASSUME NEW w \in Worlds, SetWorld(w)
  PROVE  World' = w /\ item' = w.item
BY DEF SetWorld, World, Worlds

LEMMA AttachStep ==
  ASSUME ConfInv, NEW c \in Clients, NEW f \in Listed \ Held[c],
         SetWorld(attach_conf(World, f)), confs' = [confs EXCEPT ![c] = <<f>> \o @]
  PROVE  HeldInv' /\ \A g \in Confs : item'[g].status = item[g].status
<1>1. /\ Sound(World, Held) /\ Held \in Holdings /\ World.item = item
      /\ confs[c] \in Seq(Confs) /\ Once(confs[c]) /\ Members(confs[c]) = Held[c]
      /\ f \in Confs \ Held[c] /\ item[f].status = "listed"
      /\ confs \in [Clients -> Seq(Confs)] /\ \A d \in Clients : Once(confs[d])
  BY Basics DEF ConfInv
<1> DEFINE r == attach_conf(World, f)
<1>2. /\ Sound(r, Added(Held, c, f))
      /\ \A g \in Confs : r.item[g].status = item[g].status
  BY <1>1, Attach
<1>3. r \in Worlds /\ SetWorld(r)
  BY <1>2 DEF Sound
<1> HIDE DEF r
<1>4. World' = r /\ item' = r.item
  BY <1>3, SetWorldIs
<1> DEFINE t == <<f>> \o confs[c]
<1>5. t \in Seq(Confs) /\ Once(t) /\ Members(t) = Held[c] \cup {f}
  BY <1>1, Cons
<1>6. confs' = [confs EXCEPT ![c] = t]
  OBVIOUS
<1> HIDE DEF t
<1>7. /\ confs' \in [Clients -> Seq(Confs)] /\ confs'[c] = t
      /\ \A d \in Clients : d # c => confs'[d] = confs[d]
  BY <1>1, <1>5, <1>6
<1>8. Held' = Added(Held, c, f)
  <2>1. Held' = [d \in Clients |-> Members(confs'[d])]
    BY DEF Held, Members
  <2>2. \A d \in Clients : Members(confs'[d]) = IF d = c THEN Held[c] \cup {f} ELSE Held[d]
    BY <1>5, <1>7 DEF Held
  <2>3. Held = [d \in Clients |-> Held[d]]
    BY DEF Held
  <2> HIDE DEF Held
  <2> QED BY <2>1, <2>2, <2>3 DEF Added
<1>9. Sound(World', Held')
  BY <1>2, <1>4, <1>8
<1>10. \A d \in Clients : Once(confs'[d])
  BY <1>1, <1>5, <1>7
<1>11. HeldInv'
  BY <1>7, <1>9, <1>10 DEF HeldInv, Sound, Exact, Alive, Needed, HeldBy, Charged, Worlds, Holdings, Once
<1> QED BY <1>2, <1>4, <1>11
LEMMA DetachStep ==
  ASSUME ConfInv, NEW c \in Clients,
         SetWorld(det_confs(World, confs[c])), confs' = [confs EXCEPT ![c] = << >>]
  PROVE  /\ HeldInv'
         /\ \A g \in Confs : item'[g].status = "listed" <=> item[g].status = "listed"
<1>1. /\ Sound(World, Held) /\ World.item = item
      /\ confs[c] \in Seq(Confs) /\ Once(confs[c]) /\ Members(confs[c]) = Held[c]
      /\ confs \in [Clients -> Seq(Confs)] /\ \A d \in Clients : Once(confs[d])
  BY Basics DEF ConfInv
<1> DEFINE r == det_confs(World, confs[c])
<1>2. /\ Sound(r, [Held EXCEPT ![c] = {}])
      /\ \A g \in Confs : r.item[g].status = "listed" <=> item[g].status = "listed"
  BY <1>1, DetachAll
<1>3. r \in Worlds /\ SetWorld(r)
  BY <1>2 DEF Sound
<1> HIDE DEF r
<1>4. World' = r /\ item' = r.item
  BY <1>3, SetWorldIs
<1>5. << >> \in Seq(Confs) /\ Once(<< >>) /\ Members(<< >>) = {}
  BY DEF Once, Members
<1>6. /\ confs' \in [Clients -> Seq(Confs)] /\ confs'[c] = << >>
      /\ \A d \in Clients : d # c => confs'[d] = confs[d]
  BY <1>1, <1>5
<1>7. Held' = [Held EXCEPT ![c] = {}]
  <2>1. Held' = [d \in Clients |-> Members(confs'[d])]
    BY DEF Held, Members
  <2>2. \A d \in Clients : Members(confs'[d]) = IF d = c THEN {} ELSE Held[d]
    BY <1>5, <1>6 DEF Held
  <2>3. Held = [d \in Clients |-> Held[d]]
    BY DEF Held
  <2> HIDE DEF Held
  <2> QED BY <2>1, <2>2, <2>3
<1>8. Sound(World', Held')
  BY <1>2, <1>4, <1>7
<1>9. \A d \in Clients : Once(confs'[d])
  BY <1>1, <1>5, <1>6
<1>10. HeldInv'
  BY <1>6, <1>8, <1>9 DEF HeldInv, Sound, Exact, Alive, Needed, HeldBy, Charged, Worlds, Holdings, Once
<1> QED BY <1>2, <1>4, <1>10

LEMMA StillHeld ==
  ASSUME ConfInv, UNCHANGED <<item, class, confs>>
  PROVE  HeldInv'
<1>1. World' = World /\ Held' = Held
  BY DEF World, Held, Members
<1>2. /\ Sound(World, Held)
      /\ confs' \in [Clients -> Seq(Confs)] /\ \A d \in Clients : Once(confs'[d])
  BY DEF ConfInv
<1>3. Sound(World', Held')
  BY <1>1, <1>2
<1> QED BY <1>2, <1>3 DEF HeldInv, Sound, Exact, Alive, Needed, HeldBy, Charged, Worlds,
                          Holdings, Once

LEMMA PersonsHold ==
  ASSUME ConfInv
  PROVE  \A q \in Persons : /\ Len(confs[q]) = 1 => Kind[confs[q][1][1]] = "client"
                            /\ q \in Clients /\ q \notin Conns
BY ConfAssumption DEF ConfInv, Clients

(* The rest of the invariant, when no item is listed or leaves the list.   *)
LEMMA ListKept ==
  ASSUME ConfInv, \A g \in Confs : item'[g].status = "listed" <=> item[g].status = "listed",
         \/ UNCHANGED GlobalConfItemList
         \/ \E f \in Listed : GlobalConfItemList' = Rotated(GlobalConfItemList, f)
  PROVE  /\ GlobalConfItemList' \in Seq(Confs)
         /\ \A f \in Confs : item'[f].status = "listed" <=> f \in Listed'
<1> DEFINE list == GlobalConfItemList
<1>1. list \in Seq(Confs) /\ Listed = Members(list) /\ Listed \subseteq Confs
      /\ \A f \in Confs : item[f].status = "listed" <=> f \in Listed
  BY Basics DEF ConfInv
<1>2. list' \in Seq(Confs) => Listed' = Members(list')
  BY DEF Listed, Members
<1>3. CASE UNCHANGED list
  BY <1>1, <1>2, <1>3
<1>4. CASE \E f \in Listed : list' = Rotated(list, f)
  <2>1. PICK f \in Listed : list' = Rotated(list, f)
    BY <1>4
  <2> DEFINE k == Kept(list, {f})
  <2>2. k \in Seq(Confs) /\ Members(k) = Members(list) \ {f}
    BY <1>1, KeptMembers
  <2>3. list' = Append(k, f) /\ f \in Confs
    BY <1>1, <2>1 DEF Rotated
  <2> HIDE DEF k
  <2> DEFINE t == Append(k, f)
  <2>4. /\ t \in Seq(Confs) /\ Len(t) = Len(k) + 1 /\ t[Len(t)] = f /\ Len(k) \in Nat
        /\ \A i \in 1 .. Len(k) : t[i] = k[i]
    BY <2>2, <2>3
  <2> HIDE DEF t
  <2>5. \A i : i \in 1 .. Len(t) <=> i \in 1 .. Len(k) \/ i = Len(t)
    BY <2>4
  <2>6. Members(t) = Members(k) \cup {f}
    BY <2>4, <2>5 DEF Members
  <2>7. Members(t) = Listed
    BY <1>1, <2>1, <2>2, <2>6
  <2>8. Listed' = Listed /\ list' \in Seq(Confs)
    BY <1>2, <2>3, <2>4, <2>7 DEF t
  <2> QED BY <1>1, <2>8
<1> QED BY <1>3, <1>4

LEMMA ConfInvParts ==
  ASSUME HeldInv', GlobalConfItemList' \in Seq(Confs),
         \A f \in Confs : item'[f].status = "listed" <=> f \in Listed',
         \A p \in Persons : Len(confs'[p]) = 1 => Kind[confs'[p][1][1]] = "client",
         stage' \in [Conns -> {"none", "connecting", "up"}],
         \A c \in Conns : stage'[c] = "none" => confs'[c] = << >>
  PROVE  ConfInv'
<1> HIDE DEF Sound, World, Held, Once
<1> QED BY DEF ConfInv, HeldInv

LEMMA AttachPerson ==
  ASSUME ConfInv, NEW p \in Persons, attach_Iline(p)
  PROVE  ConfInv'
<1> DEFINE fs == {g \in Listed : Kind[g[1]] = "client"}
           f == First(fs)
<1>1. /\ confs[p] = << >> /\ f # Nil /\ SetWorld(attach_conf(World, f))
      /\ confs' = [confs EXCEPT ![p] = <<f>>] /\ UNCHANGED <<GlobalConfItemList, stage>>
  BY DEF attach_Iline
<1>2. f \in fs
  <2> HIDE DEF fs
  <2> QED BY <1>1, FirstIn DEF ConfInv
<1> HIDE DEF f
<1>3. /\ f \in Listed /\ Kind[f[1]] = "client" /\ f \notin Held[p] /\ p \in Clients /\ p \notin Conns
      /\ confs' = [confs EXCEPT ![p] = <<f>> \o @] /\ f \in Confs
      /\ confs \in [Clients -> Seq(Confs)]
  <2>1. f \in Listed /\ f \in Confs /\ Kind[f[1]] = "client" /\ confs \in [Clients -> Seq(Confs)]
    BY <1>2, Basics DEF ConfInv
  <2>2. p \in Clients /\ p \notin Conns
    BY ConfAssumption DEF Clients
  <2>3. Held[p] = {}
    BY <1>1, <2>2 DEF Held, Members
  <2>4. <<f>> \o confs[p] = <<f>>
    BY <1>1
  <2> QED BY <1>1, <2>1, <2>2, <2>3, <2>4
<1>4. HeldInv' /\ \A g \in Confs : item'[g].status = item[g].status
  BY <1>1, <1>3, AttachStep
<1>5. /\ GlobalConfItemList' \in Seq(Confs)
      /\ \A g \in Confs : item'[g].status = "listed" <=> g \in Listed'
  BY <1>1, <1>4, ListKept
<1>6. \A q \in Persons : Len(confs'[q]) = 1 => Kind[confs'[q][1][1]] = "client"
  BY <1>1, <1>3 DEF ConfInv, Clients
<1>7. /\ stage' \in [Conns -> {"none", "connecting", "up"}]
      /\ \A c \in Conns : stage'[c] = "none" => confs'[c] = << >>
  BY <1>1, <1>3 DEF ConfInv, Clients
<1> QED BY <1>4, <1>5, <1>6, <1>7, ConfInvParts

LEMMA AttachOper ==
  ASSUME ConfInv, NEW p \in Persons, m_oper(p)
  PROVE  ConfInv'
<1> DEFINE fs == {g \in Listed : Kind[g[1]] = "oper" /\ item[g].clients < Limit(item[g].class)}
           f == First(fs)
<1>1. /\ Len(confs[p]) = 1 /\ f # Nil /\ SetWorld(attach_conf(World, f))
      /\ confs' = [confs EXCEPT ![p] = <<f>> \o @] /\ UNCHANGED <<GlobalConfItemList, stage>>
  BY DEF m_oper
<1>2. f \in fs
  <2> HIDE DEF fs
  <2> QED BY <1>1, FirstIn DEF ConfInv
<1> HIDE DEF f
<1>3. /\ f \in Listed /\ Kind[f[1]] = "oper" /\ f \in Confs /\ p \in Clients /\ p \notin Conns
      /\ confs \in [Clients -> Seq(Confs)]
      /\ confs[p] \in Seq(Confs)
  BY <1>2, Basics, ConfAssumption DEF ConfInv, Clients
<1>4. f \notin Held[p]
  <2>1. Kind[confs[p][1][1]] = "client"
    BY <1>1, PersonsHold
  <2>2. \A x \in Members(confs[p]) : x = confs[p][1]
    BY <1>1 DEF Members
  <2>3. Held[p] = Members(confs[p])
    BY <1>3 DEF Held
  <2> QED BY <1>3, <2>1, <2>2, <2>3
<1>5. HeldInv' /\ \A g \in Confs : item'[g].status = item[g].status
  BY <1>1, <1>3, <1>4, AttachStep
<1>6. /\ GlobalConfItemList' \in Seq(Confs)
      /\ \A g \in Confs : item'[g].status = "listed" <=> g \in Listed'
  BY <1>1, <1>5, ListKept
<1>7. Len(confs'[p]) = 2 /\ \A d \in Clients : d # p => confs'[d] = confs[d]
  <2>1. confs'[p] = <<f>> \o confs[p] /\ \A d \in Clients : d # p => confs'[d] = confs[d]
    BY <1>1, <1>3
  <2>2. Len(<<f>> \o confs[p]) = 2
    <3>1. <<f>> \in Seq(Confs) /\ Len(<<f>>) = 1 /\ confs[p] \in Seq(Confs)
      BY <1>3
    <3>2. Len(<<f>> \o confs[p]) = Len(<<f>>) + Len(confs[p])
      BY <3>1, ConcatProperties
    <3> QED BY <1>1, <3>1, <3>2
  <2> QED BY <2>1, <2>2
<1>8. \A q \in Persons : Len(confs'[q]) = 1 => Kind[confs'[q][1][1]] = "client"
  BY <1>7, PersonsHold
<1>9. /\ stage' \in [Conns -> {"none", "connecting", "up"}]
      /\ \A c \in Conns : stage'[c] = "none" => confs'[c] = << >>
  BY <1>1, <1>3, <1>7 DEF ConfInv, Clients
<1> QED BY <1>5, <1>6, <1>8, <1>9, ConfInvParts

LEMMA PersonExits ==
  ASSUME ConfInv, NEW p \in Persons, exit_person(p)
  PROVE  ConfInv'
<1>1. /\ SetWorld(det_confs(World, confs[p])) /\ confs' = [confs EXCEPT ![p] = << >>]
      /\ UNCHANGED <<GlobalConfItemList, stage>>
  BY DEF exit_person
<1>2. p \in Clients /\ p \notin Conns /\ confs \in [Clients -> Seq(Confs)]
  BY ConfAssumption DEF Clients, ConfInv
<1>3. /\ HeldInv'
      /\ \A g \in Confs : item'[g].status = "listed" <=> item[g].status = "listed"
  BY <1>1, <1>2, DetachStep
<1>4. /\ GlobalConfItemList' \in Seq(Confs)
      /\ \A g \in Confs : item'[g].status = "listed" <=> g \in Listed'
  BY <1>1, <1>3, ListKept
<1>5. confs'[p] = << >> /\ \A d \in Clients : d # p => confs'[d] = confs[d]
  BY <1>1, <1>2
<1>6. \A q \in Persons : Len(confs'[q]) = 1 => Kind[confs'[q][1][1]] = "client"
  <2>1. Len(confs'[p]) = 0
    BY <1>5
  <2> QED BY <1>5, <2>1, PersonsHold
<1>7. /\ stage' \in [Conns -> {"none", "connecting", "up"}]
      /\ \A c \in Conns : stage'[c] = "none" => confs'[c] = << >>
  BY <1>1, <1>2, <1>5 DEF ConfInv, Clients
<1> QED BY <1>3, <1>4, <1>6, <1>7, ConfInvParts
(* The connection that gets the next connection block.                     *)
LEMMA NewConnIs ==
  ASSUME NewConn # Nil
  PROVE  NewConn \in Conns /\ stage[NewConn] = "none"
BY DEF NewConn

LEMMA ConnsHold ==
  ASSUME ConfInv
  PROVE  /\ \A c \in Conns : stage[c] = "none" => confs[c] = << >>
         /\ stage \in [Conns -> {"none", "connecting", "up"}]
         /\ confs \in [Clients -> Seq(Confs)]
         /\ \A c \in Conns : c \in Clients /\ c \notin Persons
BY ConfAssumption DEF ConfInv, Clients

LEMMA ServerChecked ==
  ASSUME ConfInv, NEW c \in Conns, NEW b \in Blocks, check_server(c, b)
  PROVE  ConfInv'
<1>1. PICK f \in ListedOf(b) :
        /\ stage' = [stage EXCEPT ![c] = "up"] /\ UNCHANGED GlobalConfItemList
        /\ IF \E i \in DOMAIN confs[c] : confs[c][i] = f
             THEN UNCHANGED <<item, class, confs>>
             ELSE /\ SetWorld(attach_conf(World, f))
                  /\ confs' = [confs EXCEPT ![c] = <<f>> \o @]
  BY DEF check_server
<1>2. f \in Listed /\ c \in Clients /\ c \notin Persons /\ confs[c] \in Seq(Confs)
      /\ confs \in [Clients -> Seq(Confs)] /\ stage \in [Conns -> {"none", "connecting", "up"}]
  BY ConnsHold DEF ConfInv, ListedOf
<1>3. /\ HeldInv' /\ \A g \in Confs : item'[g].status = item[g].status
      /\ \A d \in Clients : d # c => confs'[d] = confs[d]
  <2>1. CASE \E i \in DOMAIN confs[c] : confs[c][i] = f
    BY <1>1, <2>1, StillHeld
  <2>2. CASE ~ \E i \in DOMAIN confs[c] : confs[c][i] = f
    <3>1. f \notin Held[c]
      BY <1>2, <2>2 DEF Held, Members
    <3>2. SetWorld(attach_conf(World, f)) /\ confs' = [confs EXCEPT ![c] = <<f>> \o @]
      BY <1>1, <2>2
    <3>3. HeldInv' /\ \A g \in Confs : item'[g].status = item[g].status
      BY <1>2, <3>1, <3>2, AttachStep
    <3> QED BY <1>2, <3>2, <3>3
  <2> QED BY <2>1, <2>2
<1>4. /\ GlobalConfItemList' \in Seq(Confs)
      /\ \A g \in Confs : item'[g].status = "listed" <=> g \in Listed'
  BY <1>1, <1>3, ListKept
<1>5. \A q \in Persons : Len(confs'[q]) = 1 => Kind[confs'[q][1][1]] = "client"
  BY <1>2, <1>3, PersonsHold
<1>6. /\ stage' \in [Conns -> {"none", "connecting", "up"}]
      /\ \A d \in Conns : stage'[d] = "none" => confs'[d] = << >>
  BY <1>1, <1>2, <1>3, ConnsHold
<1> QED BY <1>3, <1>4, <1>5, <1>6, ConfInvParts

LEMMA ServerExits ==
  ASSUME ConfInv, NEW c \in Conns, exit_server(c)
  PROVE  ConfInv'
<1>1. /\ SetWorld(det_confs(World, confs[c])) /\ confs' = [confs EXCEPT ![c] = << >>]
      /\ stage' = [stage EXCEPT ![c] = "none"] /\ UNCHANGED GlobalConfItemList
  BY DEF exit_server
<1>2. c \in Clients /\ c \notin Persons /\ confs \in [Clients -> Seq(Confs)]
      /\ stage \in [Conns -> {"none", "connecting", "up"}]
  BY ConnsHold
<1>3. /\ HeldInv'
      /\ \A g \in Confs : item'[g].status = "listed" <=> item[g].status = "listed"
  BY <1>1, <1>2, DetachStep
<1>4. /\ GlobalConfItemList' \in Seq(Confs)
      /\ \A g \in Confs : item'[g].status = "listed" <=> g \in Listed'
  BY <1>1, <1>3, ListKept
<1>5. confs'[c] = << >> /\ \A d \in Clients : d # c => confs'[d] = confs[d]
  BY <1>1, <1>2
<1>6. \A q \in Persons : Len(confs'[q]) = 1 => Kind[confs'[q][1][1]] = "client"
  BY <1>2, <1>5, PersonsHold
<1>7. /\ stage' \in [Conns -> {"none", "connecting", "up"}]
      /\ \A d \in Conns : stage'[d] = "none" => confs'[d] = << >>
  BY <1>1, <1>2, <1>5, ConnsHold
<1> QED BY <1>3, <1>4, <1>6, <1>7, ConfInvParts

LEMMA ConnectionsTried ==
  ASSUME ConfInv, try_connections
  PROVE  ConfInv'
<1> DEFINE fs == {g \in Listed : Due(g) /\ ~ Present(g[1]) /\ Room(g)}
           f == First(fs)
<1>1. /\ GlobalConfItemList' = IF f = Nil THEN GlobalConfItemList
                               ELSE Rotated(GlobalConfItemList, f)
      /\ IF f # Nil /\ f[1] \in AutoConn
           THEN serv_connect(f)
           ELSE UNCHANGED <<item, class, confs, name, stage>>
  BY DEF try_connections, con_conf
<1>2. f # Nil => f \in Listed
  <2>1. f # Nil => f \in fs
    <3> HIDE DEF fs
    <3> QED BY FirstIn DEF ConfInv
  <2> QED BY <2>1
<1> HIDE DEF f
<1>3. \/ UNCHANGED GlobalConfItemList
      \/ \E g \in Listed : GlobalConfItemList' = Rotated(GlobalConfItemList, g)
  BY <1>1, <1>2
<1>4. /\ confs \in [Clients -> Seq(Confs)]
      /\ stage \in [Conns -> {"none", "connecting", "up"}]
  BY ConnsHold
<1>5. CASE UNCHANGED <<item, class, confs, stage>>
  <2>1. HeldInv'
    BY <1>5, StillHeld
  <2>2. /\ GlobalConfItemList' \in Seq(Confs)
        /\ \A g \in Confs : item'[g].status = "listed" <=> g \in Listed'
    BY <1>3, <1>5, ListKept
  <2>3. /\ \A q \in Persons : Len(confs'[q]) = 1 => Kind[confs'[q][1][1]] = "client"
        /\ stage' \in [Conns -> {"none", "connecting", "up"}]
        /\ \A d \in Conns : stage'[d] = "none" => confs'[d] = << >>
    BY <1>4, <1>5, PersonsHold, ConnsHold
  <2> QED BY <2>1, <2>2, <2>3, ConfInvParts
<1>6. CASE f # Nil /\ serv_connect(f) /\ NewConn # Nil
  <2>1. PICK c \in Conns : c = NewConn /\ stage[c] = "none"
    BY <1>6, NewConnIs
  <2>2. /\ SetWorld(attach_conf(World, f)) /\ confs' = [confs EXCEPT ![c] = <<f>>]
        /\ stage' = [stage EXCEPT ![c] = "connecting"]
    BY <1>6, <2>1 DEF serv_connect
  <2>3. confs[c] = << >> /\ c \in Clients /\ c \notin Persons /\ f \in Listed
    BY <1>2, <1>6, <2>1, ConnsHold
  <2>4. f \notin Held[c] /\ confs' = [confs EXCEPT ![c] = <<f>> \o @]
    <3>1. Held[c] = {} /\ <<f>> \o confs[c] = <<f>>
      BY <2>3 DEF Held, Members
    <3> QED BY <2>2, <3>1
  <2>5. HeldInv' /\ \A g \in Confs : item'[g].status = item[g].status
    BY <2>2, <2>3, <2>4, AttachStep
  <2>6. /\ GlobalConfItemList' \in Seq(Confs)
        /\ \A g \in Confs : item'[g].status = "listed" <=> g \in Listed'
    BY <1>3, <2>5, ListKept
  <2>7. \A d \in Clients : d # c => confs'[d] = confs[d]
    BY <1>4, <2>2
  <2>8. \A q \in Persons : Len(confs'[q]) = 1 => Kind[confs'[q][1][1]] = "client"
    BY <2>3, <2>7, PersonsHold
  <2>9. /\ stage' \in [Conns -> {"none", "connecting", "up"}]
        /\ \A d \in Conns : stage'[d] = "none" => confs'[d] = << >>
    BY <1>4, <2>2, <2>7, ConnsHold
  <2> QED BY <2>5, <2>6, <2>8, <2>9, ConfInvParts
<1> QED BY <1>1, <1>5, <1>6 DEF serv_connect

LEMMA Rehashed ==
  ASSUME ConfInv, NEW file \in Files, rehash(file.classes, file.blocks)
  PROVE  ConfInv'
<1> DEFINE bs == file.blocks
           nums == file.classes
           cs == check_class(nums, add_class(nums))
           it == Relisted(bs, cs)
           w == [item |-> it, class |-> cs]
<1>1. bs \in SUBSET Blocks /\ nums \in SUBSET Numbers
  BY ConfAssumption
<1>2. /\ HasRoom(bs, nums) /\ class' = cs /\ item' = it
      /\ \E list : /\ list = Kept(FileOrder, Blocks \ bs)
                   /\ GlobalConfItemList' =
                        [i \in 1 .. Len(list) |-> Made(bs)[list[Len(list) + 1 - i]]]
      /\ UNCHANGED <<confs, name, stage>>
  BY RehashSteps
<1>3. Sound(World, Held)
  BY DEF ConfInv
<1>4. /\ Sound(w, Held) /\ Made(bs) \in [bs -> Confs]
      /\ \A f \in Confs : it[f].status = "listed" <=> \E b \in bs : f = Made(bs)[b]
  <2>1. cs = check_class(nums, add_class(nums)) /\ it = Relisted(bs, cs)
    OBVIOUS
  <2> HIDE DEF bs, nums, cs, it
  <2>2. HasRoom(bs, nums)
    BY <1>2
  <2> QED BY <1>1, <1>3, <2>1, <2>2, RehashSound
<1> HIDE DEF it, cs, bs, nums
<1>5. HeldInv'
  <2>1. World' = w /\ Held' = Held
    BY <1>2 DEF World, Held, Members
  <2> HIDE DEF w
  <2>2. Sound(World', Held')
    BY <1>4, <2>1
  <2>3. confs' \in [Clients -> Seq(Confs)] /\ \A d \in Clients : Once(confs'[d])
    BY <1>2 DEF ConfInv
  <2> QED BY <2>2, <2>3 DEF HeldInv, Sound, Exact, Alive, Needed, HeldBy, Charged, Worlds,
                            Holdings, Once
<1>6. PICK list : /\ list = Kept(FileOrder, Blocks \ bs)
                  /\ GlobalConfItemList' =
                       [i \in 1 .. Len(list) |-> Made(bs)[list[Len(list) + 1 - i]]]
  BY <1>2
<1>7. list \in Seq(Blocks) /\ Members(list) = bs
  <2>1. FileOrder \in Seq(Blocks) /\ Members(FileOrder) = Blocks
    BY ConfAssumption DEF Blocks, Members
  <2>2. list \in Seq(Blocks) /\ Members(list) = Members(FileOrder) \ (Blocks \ bs)
    BY <1>6, <2>1, KeptMembers
  <2> QED BY <1>1, <2>1, <2>2
<1> DEFINE n == Len(list)
           G == GlobalConfItemList'
<1>8. n \in Nat /\ \A i \in 1 .. n : n + 1 - i \in 1 .. n /\ n + 1 - (n + 1 - i) = i
  BY <1>7
<1>9. \A i \in 1 .. n : list[i] \in bs /\ Made(bs)[list[i]] \in Confs
  BY <1>4, <1>7 DEF Members
<1>10. G \in Seq(Confs) /\ Len(G) = n /\ \A i \in 1 .. n : G[i] = Made(bs)[list[n + 1 - i]]
  <2>1. G = [i \in 1 .. n |-> Made(bs)[list[n + 1 - i]]]
    BY <1>6
  <2>2. \A i \in 1 .. n : Made(bs)[list[n + 1 - i]] \in Confs
    BY <1>8, <1>9
  <2> DEFINE M(i) == Made(bs)[list[n + 1 - i]]
  <2> HIDE DEF G, M
  <2>4. G = [i \in 1 .. n |-> M(i)] /\ \A i \in 1 .. n : M(i) \in Confs
    BY <2>1, <2>2 DEF M
  <2>5. G \in Seq(Confs) /\ Len(G) = n /\ \A i \in 1 .. n : G[i] = M(i)
    BY <1>8, <2>4
  <2> QED BY <2>5 DEF M
<1> HIDE DEF n
<1>11. \A f : f \in Listed' <=> \E b \in bs : f = Made(bs)[b]
  <2>1. Listed' = {G[i] : i \in 1 .. n}
    BY <1>10 DEF Listed
  <2>2. ASSUME NEW b \in bs PROVE \E i \in 1 .. n : G[i] = Made(bs)[b]
    <3>1. PICK j \in 1 .. n : list[j] = b
      BY <1>7, <2>2 DEF Members, n
    <3> QED BY <1>8, <1>10, <3>1
  <2>3. ASSUME NEW i \in 1 .. n PROVE \E b \in bs : G[i] = Made(bs)[b]
    BY <1>8, <1>9, <1>10
  <2> HIDE DEF G
  <2> QED BY <2>1, <2>2, <2>3
<1>12. \A f \in Confs : item'[f].status = "listed" <=> f \in Listed'
  BY <1>2, <1>4, <1>11
<1>13. /\ \A q \in Persons : Len(confs'[q]) = 1 => Kind[confs'[q][1][1]] = "client"
       /\ stage' \in [Conns -> {"none", "connecting", "up"}]
       /\ \A d \in Conns : stage'[d] = "none" => confs'[d] = << >>
  BY <1>2, PersonsHold, ConnsHold
<1> QED BY <1>5, <1>10, <1>12, <1>13, ConfInvParts
LEMMA ConfInvInit == Init => ConfInv
<1> SUFFICES ASSUME Init PROVE ConfInv
  OBVIOUS
<1> DEFINE n == Len(FileOrder)
<1>1. /\ n \in Nat /\ \A i \in 1 .. n : FileOrder[i] \in Blocks
      /\ 1 \in Gens /\ Number \in [Blocks -> Numbers] /\ Blocks = Members(FileOrder)
  BY ConfAssumption DEF Blocks, Members
<1>2. /\ class = [k \in Classes |-> IF k = Zero \/ k[2] = 1
                                    THEN [state |-> "listed", links |-> 0] ELSE FreeClass]
      /\ item = [f \in Confs |-> IF f[2] = 1
                                 THEN [status |-> "listed", class |-> <<Number[f[1]], 1>>,
                                       clients |-> 0]
                                 ELSE FreeItem]
      /\ GlobalConfItemList = [i \in 1 .. n |-> <<FileOrder[n + 1 - i], 1>>]
      /\ confs = [c \in Clients |-> << >>]
      /\ stage = [c \in Conns |-> "none"]
  BY DEF Init
<1>3. \A k \in Classes : /\ class[k] \in States /\ class[k].links = 0
                         /\ class[k].state # "marked"
                         /\ (k = Zero \/ k[2] = 1) => class[k].state = "listed"
  BY <1>2 DEF FreeClass, States
<1>4. \A b \in Blocks : <<Number[b], 1>> \in Classes
  BY <1>1 DEF Classes
<1>5. \A f \in Confs : /\ item[f] \in Items /\ item[f].clients = 0
                       /\ item[f].status # "illegal"
                       /\ item[f].status = "listed" <=> f[2] = 1
                       /\ f[2] = 1 => item[f].class = <<Number[f[1]], 1>>
  BY <1>2, <1>4 DEF FreeItem, Items, Confs
<1>6. \A c \in Clients : confs[c] = << >> /\ Held[c] = {} /\ Once(confs[c])
  BY <1>2 DEF Held, Members, Once
<1>7. \A f : HeldBy(Held, f) = {}
  BY <1>6 DEF HeldBy
<1>8. \A k : Charged(item, Held, k) = {}
  BY <1>6 DEF Charged
<1>9. World.item = item /\ World.class = class /\ World \in Worlds
  BY <1>2, <1>3, <1>5 DEF World, Worlds
<1>10. Held \in Holdings
  BY <1>6 DEF Held, Holdings
<1>11. Exact(World, Held) /\ Needed(World, Held)
  BY <1>3, <1>5, <1>7, <1>8, <1>9, FS_EmptySet DEF Exact, Needed
<1>12. Alive(World, Held)
  <2>1. \A f \in Confs : item[f].status = "listed" =>
          item[f].class \in Classes /\ class[item[f].class].state = "listed"
    BY <1>3, <1>4, <1>5 DEF Confs
  <2>2. class[Zero].state = "listed"
    BY <1>3 DEF Classes
  <2> QED BY <1>7, <1>9, <2>1, <2>2 DEF Alive
<1>13. Sound(World, Held)
  BY <1>9, <1>10, <1>11, <1>12 DEF Sound
<1> DEFINE G == GlobalConfItemList
<1>14. G \in Seq(Confs) /\ Len(G) = n /\ \A i \in 1 .. n : G[i] = <<FileOrder[n + 1 - i], 1>>
  <2>1. \A i \in 1 .. n : n + 1 - i \in 1 .. n
    BY <1>1
  <2>2. \A i \in 1 .. n : <<FileOrder[n + 1 - i], 1>> \in Confs
    BY <1>1, <2>1 DEF Confs
  <2> DEFINE M(i) == <<FileOrder[n + 1 - i], 1>>
  <2>3. G = [i \in 1 .. n |-> M(i)] /\ \A i \in 1 .. n : M(i) \in Confs
    BY <1>2, <2>2
  <2> HIDE DEF G, n, M
  <2>4. G \in Seq(Confs) /\ Len(G) = n /\ \A i \in 1 .. n : G[i] = M(i)
    BY <1>1, <2>3
  <2> QED BY <2>4 DEF M
<1>15. \A f \in Confs : item[f].status = "listed" <=> f \in Listed
  <2>0. DOMAIN GlobalConfItemList = 1 .. n
    BY <1>2
  <2>1. Listed = {G[i] : i \in 1 .. n}
    <3> HIDE DEF n
    <3> QED BY <2>0 DEF Listed
  <2>2. ASSUME NEW f \in Confs, f[2] = 1 PROVE f \in Listed
    <3>1. f = <<f[1], 1>> /\ f[1] \in Blocks
      BY <2>2 DEF Confs
    <3>2. PICK j \in 1 .. n : FileOrder[j] = f[1]
      BY <1>1, <3>1 DEF Members
    <3>3. n + 1 - j \in 1 .. n /\ n + 1 - (n + 1 - j) = j
      BY <1>1
    <3>4. G[n + 1 - j] = f
      BY <1>14, <3>1, <3>2, <3>3
    <3> QED BY <2>1, <3>3, <3>4
  <2>3. ASSUME NEW f \in Listed PROVE f[2] = 1
    BY <1>14, <2>1
  <2> QED BY <1>5, <2>2, <2>3
<1>16. /\ confs \in [Clients -> Seq(Confs)] /\ \A p \in Persons : Len(confs[p]) # 1
       /\ stage \in [Conns -> {"none", "connecting", "up"}]
       /\ \A c \in Conns : confs[c] = << >>
  BY <1>2, <1>6 DEF Clients
<1> HIDE DEF G, n
<1> QED BY <1>6, <1>13, <1>14, <1>15, <1>16 DEF ConfInv, G

LEMMA ConfInvNext == ConfInv /\ [Next]_vars => ConfInv'
<1> SUFFICES ASSUME ConfInv, [Next]_vars PROVE ConfInv'
  OBVIOUS
<1>1. ASSUME NEW p \in Persons, attach_Iline(p) \/ m_oper(p) \/ exit_person(p) PROVE ConfInv'
  BY <1>1, AttachPerson, AttachOper, PersonExits
<1>2. ASSUME NEW c \in Conns, exit_server(c) PROVE ConfInv'
  BY <1>2, ServerExits
<1>3. ASSUME NEW c \in Conns, NEW b \in Blocks, check_server(c, b) PROVE ConfInv'
  BY <1>3, ServerChecked
<1>4. ASSUME NEW file \in Files, rehash(file.classes, file.blocks) PROVE ConfInv'
  BY <1>4, Rehashed
<1>5. CASE try_connections
  BY <1>5, ConnectionsTried
<1>6. CASE UNCHANGED vars
  <2>1. UNCHANGED <<item, class, confs, stage, GlobalConfItemList>>
    BY <1>6 DEF vars
  <2>2. HeldInv'
    BY <2>1, StillHeld
  <2>3. /\ GlobalConfItemList' \in Seq(Confs)
        /\ \A g \in Confs : item'[g].status = "listed" <=> g \in Listed'
    BY <2>1, ListKept
  <2>4. /\ \A q \in Persons : Len(confs'[q]) = 1 => Kind[confs'[q][1][1]] = "client"
        /\ stage' \in [Conns -> {"none", "connecting", "up"}]
        /\ \A d \in Conns : stage'[d] = "none" => confs'[d] = << >>
    BY <2>1, PersonsHold, ConnsHold
  <2> QED BY <2>2, <2>3, <2>4, ConfInvParts
<1> QED BY <1>1, <1>2, <1>3, <1>4, <1>5, <1>6 DEF Next

-----------------------------------------------------------------------------
LEMMA CountsAre ==
  ASSUME ConfInv
  PROVE  /\ \A f \in Confs : Holders(f) = HeldBy(Held, f)
         /\ \A k : OnClass(k) = Charged(item, Held, k)
<1>1. \A f : \A c \in Clients : f \in Held[c] <=> \E i \in DOMAIN confs[c] : confs[c][i] = f
  BY DEF ConfInv, Held, Members
<1>2. \A f \in Confs : Holders(f) = HeldBy(Held, f)
  BY <1>1 DEF Holders, HeldBy
<1>3. \A f : Holders(f) = {c \in Clients : f \in Held[c]}
  BY <1>1 DEF Holders
<1>4. ASSUME NEW k PROVE OnClass(k) = Charged(item, Held, k)
  <2>1. \A cf \in Clients \X Confs : cf[1] \in Holders(cf[2]) <=> cf[2] \in Held[cf[1]]
    BY <1>3
  <2> QED BY <2>1 DEF OnClass, Charged
<1> QED BY <1>2, <1>4

LEMMA ConfInvExact == ConfInv => LinksExact
BY CountsAre DEF ConfInv, Sound, Exact, World, LinksExact

LEMMA ConfInvLive == ConfInv => PointersLive
<1> SUFFICES ASSUME ConfInv PROVE PointersLive
  OBVIOUS
<1>1. Alive(World, Held) /\ Needed(World, Held) /\ World.item = item /\ World.class = class
      /\ \A f \in Confs : item[f].status = "listed" <=> f \in Listed
  BY DEF ConfInv, Sound, World
<1>2. \A f \in Confs : item[f].status = "listed" \/ (HeldBy(Held, f) # {} /\ Counted(f)) =>
        item[f].class # Nil /\ class[item[f].class].state # "free"
  BY <1>1, ConfAssumption DEF Alive
<1> QED BY <1>1, <1>2, CountsAre DEF Alive, Needed, PointersLive

(* An item counts exactly its holders and a class exactly the holders of   *)
(* its auth and connect blocks, whatever is attached, detached and reread  *)
(* and in whatever order (attach_conf, detach_conf, check_class).          *)
THEOREM LinksAlwaysExact == Spec => []LinksExact
BY ConfInvInit, ConfInvNext, ConfInvExact, PTL DEF Spec

(* No item or class that somebody points to is freed, and none that nobody *)
(* points to is kept, across any number of rehashes (detach_conf,          *)
(* read_conf_files, check_class).                                          *)
THEOREM PointersAlwaysLive == Spec => []PointersLive
BY ConfInvInit, ConfInvNext, ConfInvLive, PTL DEF Spec
=============================================================================
