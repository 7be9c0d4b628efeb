--------------------------- MODULE ConnectionSound ----------------------------
(***************************************************************************)
(* The inductive invariant of Connection, and that the handlers other      *)
(* handlers call keep it.                                                  *)
(*                                                                         *)
(* The handlers are operators from a world to the worlds they may leave,   *)
(* and they call each other, so the inductive invariant is a predicate on  *)
(* worlds, Sound(w, X), where X holds the objects that the running handler *)
(* has in hand and has yet to rearm, connect or release.  A handler        *)
(* changes little of a world: the lemma Local says that what it leaves     *)
(* alone stays sound, and is how most handlers are proved.                 *)
(***************************************************************************)
EXTENDS Connection, FiniteSetTheorems, SequenceTheorems, WellFoundedInduction, TLAPS

(* The order of the naturals, as a relation the library's WFMin applies to. *)
LEMMA NatWellFounded ==
  \E R : IsWellFoundedOn(R, Nat) /\ \A x, y \in Nat : x < y => <<x, y>> \in R
<1>1. IsWellFoundedOn(OpToRel(<, Nat), Nat)
  BY NatLessThanWellFounded
<1>2. \A x, y \in Nat : x < y => <<x, y>> \in OpToRel(<, Nat)
  BY DEF OpToRel
<1> QED BY <1>1, <1>2, Zenon

(* A set of naturals that is not empty has a least element.                *)
LEMMA LeastNat ==
  ASSUME NEW T \in SUBSET Nat, T # {}
  PROVE  \E x \in T : \A y \in T : x <= y
<1>1. PICK R : IsWellFoundedOn(R, Nat) /\ \A x, y \in Nat : x < y => <<x, y>> \in R
  BY NatWellFounded
<1>2. IsWellFoundedOn(R, Nat)
  BY <1>1
<1>3. \E x \in T : \A y \in T : ~ (<<y, x>> \in R)
  BY <1>2, WFMin
<1>4. PICK x \in T : \A y \in T : ~ (<<y, x>> \in R)
  BY <1>3
<1>5. T \subseteq Nat
  OBVIOUS
<1>6. \A y \in T : ~(y < x)
  BY <1>1, <1>4, <1>5, Zenon
<1> QED BY <1>5, <1>6

(* Induction up to a bound, for a property given as a set.                 *)
LEMMA Induction ==
  ASSUME NEW n \in Nat, NEW S, 0 \in S, \A i \in 1 .. n : i - 1 \in S => i \in S
  PROVE  \A i \in 0 .. n : i \in S
<1> DEFINE T == {i \in 0 .. n : i \notin S}
<1>1. SUFFICES ASSUME T # {} PROVE FALSE
  OBVIOUS
<1>2. T \in SUBSET Nat
  OBVIOUS
<1>3. PICK x \in T : \A y \in T : x <= y
  BY <1>1, <1>2, LeastNat
<1>4. x \in 1 .. n /\ x - 1 \in 0 .. n
  BY <1>3
<1>5. x - 1 \in S
  BY <1>3, <1>4
<1> QED BY <1>3, <1>4, <1>5

-----------------------------------------------------------------------------
(* The inductive invariant. *)
Statuses == {"free", "unknown", "connecting", "handshake", "client", "server", "exited"}
(* A client that has a descriptor.                                         *)
Live == {"unknown", "connecting", "handshake", "client", "server"}

(* What may be registered.                                                 *)
Handles == {NULL} \cup (Callbacks \X (Objects \cup {NULL}))

(* Types of the table and of the blocks.                                   *)
Entries == [open : BOOLEAN, read : Handles, write : Handles, connect : Handles,
            timer : BOOLEAN, flush : Handles]

Tables == [tab : [Fds -> Entries], number : Int, highest : Int]

ClientBlocks == [status : Statuses, fd : Fds \cup {-1}, listener : Listeners \cup {NULL},
                 dns : {"null", "pending", "idle"}, dead : BOOLEAN]

RequestBlocks == [client : Clients \cup {NULL}, fd : Fds \cup {-1}, dns : BOOLEAN,
                  ident : {"no", "connecting", "pending"}]

QueryBlocks == [callback : {"auth_dns_callback", "lookup_dns_callback",
                            "comm_connect_dns_callback"},
                ptr : Clients \cup Requests \cup Fds, owner : Clients \cup {NULL}]

ListenerBlocks == [kind : Kinds \cup {NULL}, fd : Fds \cup {-1}, active : BOOLEAN, refs : Nat]

(* A record with the fields of a world.                                    *)
IsWorld(w) ==
  w \in [fds : {w.fds}, client : {w.client}, unknown : {w.unknown}, count : {w.count},
         clients : {w.clients}, exited : {w.exited}, request : {w.request},
         polled : {w.polled}, queries : {w.queries}, listener : {w.listener}]

(* A world of the right types.                                             *)
Typed(w) ==
  /\ IsWorld(w)
  /\ w.fds \in Tables /\ w.client \in [Clients -> ClientBlocks]
  /\ w.unknown \in SUBSET Clients /\ w.count \in Int
  /\ w.clients \in Seq(Clients) /\ w.exited \in SUBSET Clients
  /\ w.request \in [Requests -> RequestBlocks] /\ w.polled \in SUBSET Requests
  /\ w.queries \in SUBSET QueryBlocks /\ w.listener \in [Listeners -> ListenerBlocks]

(* The descriptor of an object. *)
FdOf(w) ==
  [x \in Objects |-> IF x \in Clients THEN w.client[x].fd
                     ELSE IF x \in Requests THEN w.request[x].fd ELSE w.listener[x].fd]

(* highest_fd, of a set of open descriptors.                               *)
Top(S) == IF S = {} THEN -1 ELSE Max(S)

(* Objects and open descriptors correspond, one to one.                    *)
FdSound(F, h) ==
  /\ \A x \in Objects : h[x] # -1 => h[x] \in Fds /\ F.tab[h[x]].open
  /\ \A x, y \in Objects : h[x] = h[y] /\ h[x] # -1 => x = y
  /\ \A f \in Fds : F.tab[f].open => \E x \in Objects : h[x] = f
  /\ F.number = Cardinality(OpenFds(F))
  /\ F.highest = Top(OpenFds(F))

(* c is on GlobalClientList; its first read is still to be set; it has an  *)
(* auth request; it has a query.                                           *)
Released(w, c) == c \in ToSet(w.clients)
TryAllSet(w, c) == w.fds.tab[w.client[c].fd].write = <<"comm_tryall_callback", c>>
TryConnect == <<"comm_connect_tryconnect", NULL>>
Asked(w, c) == \E a \in Requests : w.request[a].client = c
Queried(w, c) == \E q \in w.queries : q.owner = c

(* Which registrations for reading, for writing, of a connect and of the   *)
(* flood timer may be on the descriptor f.                                 *)
ReadSound(w, f, h) ==
  \/ /\ h[1] = "accept_connection" /\ h[2] \in Listeners
     /\ w.listener[h[2]].fd = f
  \/ /\ h[1] = "read_auth_reply" /\ h[2] \in Requests
     /\ w.request[h[2]].fd = f /\ w.request[h[2]].ident = "pending"
  \/ /\ h[1] \in {"read_client_packet", "read_server_packet"} /\ h[2] \in Clients
     /\ w.client[h[2]].fd = f /\ Released(w, h[2]) /\ w.client[h[2]].status # "connecting"

WriteSound(w, f, h) ==
  \/ h = TryConnect
  \/ /\ h[1] = "comm_tryall_callback" /\ h[2] \in Clients
     /\ w.client[h[2]].fd = f /\ w.client[h[2]].status = "unknown" /\ ~Released(w, h[2])
     /\ w.fds.tab[f].connect = NULL

ConnectSound(w, f, h) ==
  \/ /\ h[1] = "auth_connect_callback" /\ h[2] \in Requests
     /\ w.request[h[2]].fd = f /\ w.request[h[2]].ident = "connecting"
  \/ /\ h[1] = "serv_connect_callback" /\ h[2] \in Clients
     /\ w.client[h[2]].fd = f /\ w.client[h[2]].status = "connecting"

FlushSound(w, f, h) ==
  h[1] = "flood_recalc" /\ h[2] \in Clients /\ w.client[h[2]].fd = f /\ Released(w, h[2])

(* An entry: what is registered on it is sound, nothing on a closed one.   *)
EntrySound(w, f, e) ==
  /\ ~e.open => e = ClosedEntry
  /\ e.read # NULL => ReadSound(w, f, e.read)
  /\ e.write # NULL => WriteSound(w, f, e.write)
  /\ e.connect # NULL => ConnectSound(w, f, e.connect)
  /\ e.flush # NULL => FlushSound(w, f, e.flush)
  /\ e.timer => e.connect # NULL

(* Only with connect{} blocks that name hosts, or in the middle of a       *)
(* handler, does a descriptor wait to connect() without its callback.      *)
Excused(w, X, f) ==
  ByName \/ \E x \in X : FdOf(w)[x] = f /\ (x \in Clients => w.client[x].status = "connecting")

EntriesSound(w, X) ==
  \A f \in Fds : /\ EntrySound(w, f, w.fds.tab[f])
                 /\ w.fds.tab[f].write = TryConnect /\ w.fds.tab[f].connect = NULL => Excused(w, X, f)

(* A request: linked while it exists, with a descriptor while its ident    *)
(* lookup runs, waiting for something, the only one of its client.         *)
RequestSound(w, X, a) ==
  LET r == w.request[a]
      c == r.client
  IN /\ a \in w.polled <=> c # NULL
     /\ c = NULL => r = FreeRequest
     /\ r.ident = "no" <=> r.fd = -1
     /\ c # NULL => /\ w.client[c].status = "unknown" /\ ~Released(w, c) /\ ~TryAllSet(w, c)
                    /\ a \in X \/ r.dns \/ r.ident # "no"
                    /\ \A b \in Requests : w.request[b].client = c => b = a

RequestsSound(w, X) == \A a \in Requests : RequestSound(w, X, a)

(* A query of the resolver: its argument is live and its owner waits.      *)
QuerySound(w, q) ==
  \/ /\ q.callback = "auth_dns_callback" /\ q.ptr \in Requests /\ q.owner \in Clients
     /\ w.request[q.ptr].client = q.owner /\ w.request[q.ptr].dns
  \/ /\ q.callback = "lookup_dns_callback" /\ q.ptr = q.owner /\ q.owner \in Clients
     /\ w.client[q.owner].status = "unknown" /\ ~Released(w, q.owner)
     /\ ~Asked(w, q.owner) /\ ~TryAllSet(w, q.owner)
  \/ q.callback = "comm_connect_dns_callback" /\ q.ptr \in Fds /\ q.owner = NULL /\ ByName

QueriesSound(w) ==
  /\ \A q \in w.queries : QuerySound(w, q)
  /\ \A q, r \in w.queries : q.owner = r.owner /\ q.owner # NULL => q = r
  /\ \A c \in Clients : Queried(w, c) <=> w.client[c].dns = "pending" /\ c \notin w.exited

(* A client block: its status says which lists it is on and whether it has *)
(* a descriptor.                                                           *)
ClientSound(w, X, c) ==
  LET d == w.client[c]
  IN /\ d.status = "exited" <=> c \in w.exited
     /\ d.status \in Live <=> d.fd # -1
     /\ d.status = "free" => d = FreeClient /\ ~Released(w, c)
     /\ d.status \in {"client", "server", "connecting", "handshake"} => Released(w, c)
     /\ c \in w.unknown <=> d.status \in {"unknown", "connecting", "handshake"}
     /\ d.status = "exited" => d.listener = NULL
     /\ d.dead => d.status = "exited" \/ (Released(w, c) /\ d.status # "connecting")
     /\ d.status = "connecting" /\ c \notin X =>
          w.fds.tab[d.fd].connect = <<"serv_connect_callback", c>>

ClientsSound(w, X) ==
  /\ IsInjective(w.clients)
  /\ \A c \in Clients : ClientSound(w, X, c)

(* The query of an outgoing connection by host name.                       *)
DnsQuery(f) == [callback |-> "comm_connect_dns_callback", ptr |-> f, owner |-> NULL]

(* What will look at a client again.                                       *)
Armed(w, c) ==
  LET d == w.client[c]
      e == w.fds.tab[d.fd]
  IN /\ d.status = "connecting" => e.write # NULL \/ DnsQuery(d.fd) \in w.queries
     /\ d.status = "unknown" /\ ~Released(w, c) => TryAllSet(w, c) \/ Asked(w, c) \/ Queried(w, c)
     /\ d.status \in Live \ {"connecting"} /\ Released(w, c) /\ ~d.dead => e.read # NULL

AllArmed(w, X) == \A c \in Clients \ X : Armed(w, c)

ReferencesOf(w, l) == {c \in Clients : w.client[c].listener = l}

(* A listener: its references are counted, and it has a descriptor while   *)
(* it is active.                                                           *)
ListenerSound(w, l) ==
  LET m == w.listener[l]
  IN /\ m.refs >= Cardinality(ReferencesOf(w, l))
     /\ ReferencesOf(w, l) # {} => m.kind # NULL
     /\ m.active <=> m.fd # -1
     /\ m.fd # -1 => m.kind # NULL

ListenersSound(w) == \A l \in Listeners : ListenerSound(w, l)

(* A sound world.  The objects of X are those the running handler has      *)
(* taken in hand: they need not be armed, nor wait for anything, until it  *)
(* returns.                                                                *)
Sound(w, X) ==
  /\ Typed(w)
  /\ FdSound(w.fds, FdOf(w))
  /\ EntriesSound(w, X)
  /\ RequestsSound(w, X)
  /\ QueriesSound(w)
  /\ ClientsSound(w, X)
  /\ AllArmed(w, X)
  /\ ListenersSound(w)

-----------------------------------------------------------------------------
(* The descriptor table.                                                   *)

(* The descriptors are finitely many naturals above 2.                     *)
LEMMA FdsFinite == IsFiniteSet(Fds) /\ Fds \subseteq Nat /\ \A f \in Fds : f > 2
BY FdAssumption, FS_Interval DEF Fds

(* What arithmetic needs to know of a descriptor.                          *)
LEMMA FdFacts == \A f \in Fds : f \in Nat /\ f >= 0 /\ f > 2 /\ f # -1
BY FdAssumption DEF Fds

(* The greatest of a set of descriptors.                                   *)
LEMMA GreatestFd ==
  ASSUME NEW S \in SUBSET Fds, S # {}
  PROVE  Max(S) \in S /\ \A y \in S : y <= Max(S)
<1> DEFINE T == {n \in Nat : MaxConnections - n \in S}
<1>1. PICK s \in S : TRUE
  OBVIOUS
<1>2. MaxConnections - s \in T /\ s \in Nat /\ MaxConnections \in Nat
  BY FdAssumption DEF Fds
<1>3. T \in SUBSET Nat /\ T # {}
  BY <1>2
<1>4. PICK t \in T : \A u \in T : t <= u
  BY <1>3, LeastNat
<1>5. MaxConnections - t \in S /\ t \in Nat
  BY <1>4
<1>6. ASSUME NEW y \in S PROVE y <= MaxConnections - t
  <2>1. y \in Nat /\ MaxConnections - y \in T
    BY FdAssumption DEF Fds
  <2>2. t <= MaxConnections - y
    BY <1>4, <2>1
  <2> QED BY <1>2, <1>5, <2>1, <2>2
<1>7. S \subseteq Int
  BY FdsFinite
<1>8. \E x \in S : \A y \in S : x >= y
  BY <1>2, <1>5, <1>6, <1>7
<1>9. Max(S) \in S /\ \A y \in S : Max(S) >= y
  BY <1>8 DEF Max
<1> QED BY <1>7, <1>9

(* Top is the greatest element, or -1: a number that is that is Top.       *)
LEMMA TopIs ==
  ASSUME NEW S \in SUBSET Fds, NEW n \in Int,
         IF S = {} THEN n = -1 ELSE n \in S /\ \A y \in S : y <= n
  PROVE  n = Top(S)
<1>1. CASE S = {}
  BY <1>1 DEF Top
<1>2. CASE S # {}
  <2>1. Max(S) \in S /\ \A y \in S : y <= Max(S)
    BY <1>2, GreatestFd
  <2>2. Max(S) \in Int
    <3>1. S \subseteq Int
      BY FdsFinite
    <3> QED BY <2>1, <3>1
  <2> QED BY <1>2, <2>1, <2>2 DEF Top
<1> QED BY <1>1, <1>2

(* Top of a set of descriptors is in it and above all of it.               *)
LEMMA TopHas ==
  ASSUME NEW S \in SUBSET Fds
  PROVE  IF S = {} THEN Top(S) = -1 ELSE Top(S) \in S /\ \A y \in S : y <= Top(S)
BY GreatestFd DEF Top

(* What FdSound says is about the open flags, number_fd and highest_fd.    *)
LEMMA FdSame ==
  ASSUME NEW F \in Tables, NEW G \in Tables, NEW h, FdSound(F, h),
         \A f \in Fds : G.tab[f].open = F.tab[f].open,
         G.number = F.number, G.highest = F.highest
  PROVE  FdSound(G, h)
<1>1. OpenFds(G) = OpenFds(F)
  BY DEF OpenFds
<1> QED BY <1>1 DEF FdSound

(* What fd_open writes.                                                    *)
OpenEntry == [ClosedEntry EXCEPT !.open = TRUE]

(* The entries that fd_close and fd_open write are entries.                *)
LEMMA EntryTypes == ClosedEntry \in Entries /\ OpenEntry \in Entries
BY DEF ClosedEntry, OpenEntry, Entries, Handles

(* fd_open of a closed descriptor, for an object that has none, keeps the  *)
(* table sound: number_fd and highest_fd included.                         *)
LEMMA FdOpen ==
  ASSUME NEW F \in Tables, NEW h \in [Objects -> Fds \cup {-1}], FdSound(F, h),
         NEW f \in Fds, ~F.tab[f].open, NEW x \in Objects, h[x] = -1
  PROVE  /\ fd_open(F, f) \in Tables
         /\ fd_open(F, f).tab = [F.tab EXCEPT ![f] = OpenEntry]
         /\ FdSound(fd_open(F, f), [h EXCEPT ![x] = f])
<1> DEFINE O == [F EXCEPT !.tab[f] = OpenEntry]
           G == fd_open(F, f)
<1>1. O \in Tables /\ O.tab = [F.tab EXCEPT ![f] = OpenEntry] /\ O.highest = F.highest
      /\ O.number = F.number
  BY EntryTypes DEF Tables
<1>2. G = [O EXCEPT !.highest = UpdateBiggest(O, f), !.number = @ + 1]
  BY DEF fd_open, OpenEntry
<1>3. OpenFds(O) = OpenFds(F) \cup {f} /\ f \notin OpenFds(F)
  <2>1. \A g \in Fds : O.tab[g] = IF g = f THEN OpenEntry ELSE F.tab[g]
    BY <1>1 DEF Tables
  <2>2. OpenEntry.open
    BY DEF OpenEntry, ClosedEntry
  <2> HIDE DEF O
  <2> QED BY <2>1, <2>2 DEF OpenFds
<1>4. F.highest = Top(OpenFds(F)) /\ F.number = Cardinality(OpenFds(F))
  BY DEF FdSound
<1>5. IF OpenFds(F) = {} THEN F.highest = -1
      ELSE F.highest \in OpenFds(F) /\ \A y \in OpenFds(F) : y <= F.highest
  BY <1>4, TopHas DEF OpenFds
<1>6. f \in Int /\ f > -1 /\ F.highest \in Int /\ f # F.highest
  BY <1>3, <1>5, FdsFinite DEF Tables
<1>7. UpdateBiggest(O, f) = IF f < F.highest THEN F.highest ELSE f
  <2>1. CASE f < F.highest
    BY <1>1, <1>6, <2>1 DEF UpdateBiggest
  <2>2. CASE f > F.highest
    BY <1>1, <1>6, <2>2 DEF UpdateBiggest
  <2> QED BY <1>6, <2>1, <2>2
<1> HIDE DEF O
<1>8. UpdateBiggest(O, f) = Top(OpenFds(O))
  <2>1. OpenFds(O) \in SUBSET Fds /\ OpenFds(O) # {} /\ OpenFds(F) \in SUBSET Int
    BY <1>3, FdsFinite DEF OpenFds
  <2>2. UpdateBiggest(O, f) \in OpenFds(O) /\ UpdateBiggest(O, f) \in Int
    BY <1>3, <1>5, <1>6, <1>7
  <2>3. \A y \in OpenFds(O) : y <= UpdateBiggest(O, f)
    BY <1>3, <1>5, <1>6, <1>7, <2>1
  <2> QED BY <2>1, <2>2, <2>3, TopIs
<1>9. /\ G \in Tables /\ G.tab = O.tab /\ G.number = F.number + 1 /\ G.highest = Top(OpenFds(O))
  <2>1. UpdateBiggest(O, f) \in Int /\ O.number \in Int
    BY <1>1, <1>6, <1>7 DEF Tables
  <2>2. G = [tab |-> O.tab, number |-> O.number + 1, highest |-> UpdateBiggest(O, f)]
    BY <1>1, <1>2 DEF Tables
  <2> HIDE DEF G
  <2>3. O.tab \in [Fds -> Entries]
    BY <1>1 DEF Tables
  <2>4. G.tab = O.tab /\ G.number = F.number + 1 /\ G.highest = Top(OpenFds(O))
    BY <1>1, <1>8, <2>2
  <2>5. G \in Tables
    BY <2>1, <2>2, <2>3, <1>8 DEF Tables
  <2> QED BY <2>4, <2>5
<1>10. OpenFds(G) = OpenFds(O)
  BY <1>9 DEF OpenFds
<1>11. G.number = Cardinality(OpenFds(G))
  <2>1. IsFiniteSet(OpenFds(F))
    BY FdsFinite, FS_Subset DEF OpenFds
  <2>2. Cardinality(OpenFds(F) \cup {f}) = Cardinality(OpenFds(F)) + 1
    BY <1>3, <2>1, FS_AddElement
  <2> QED BY <1>3, <1>4, <1>9, <1>10, <2>2
<1> HIDE DEF G
<1>12. FdSound(G, [h EXCEPT ![x] = f])
  <2> DEFINE k == [h EXCEPT ![x] = f]
  <2>0. k[x] = f /\ (\A y \in Objects : y # x => k[y] = h[y]) /\ f # -1
    BY <1>6
  <2>1. \A y \in Objects : h[y] # f
    BY <1>6 DEF FdSound
  <2>a. \A g \in Fds : G.tab[g].open <=> g \in OpenFds(O)
    BY <1>9, <1>10 DEF OpenFds
  <2> HIDE DEF k
  <2>2. \A y \in Objects : k[y] # -1 => k[y] \in Fds /\ G.tab[k[y]].open
    BY <1>3, <2>0, <2>a DEF FdSound, OpenFds
  <2>3. \A y, z \in Objects : k[y] = k[z] /\ k[y] # -1 => y = z
    BY <2>0, <2>1 DEF FdSound
  <2>4. \A g \in Fds : G.tab[g].open => \E y \in Objects : k[y] = g
    <3> SUFFICES ASSUME NEW g \in Fds, G.tab[g].open PROVE \E y \in Objects : k[y] = g
      OBVIOUS
    <3>1. CASE g = f
      BY <2>0, <3>1
    <3>2. CASE g # f
      <4>1. F.tab[g].open
        BY <1>3, <2>a, <3>2 DEF OpenFds
      <4>2. PICK y \in Objects : h[y] = g
        BY <4>1 DEF FdSound
      <4>3. y # x
        BY <4>2, FdsFinite
      <4> QED BY <2>0, <4>2, <4>3
    <3> QED BY <3>1, <3>2
  <2>5. FdSound(G, k)
    BY <1>9, <1>10, <1>11, <2>2, <2>3, <2>4 DEF FdSound
  <2> QED BY <2>5 DEF k
<1> QED BY <1>1, <1>9, <1>12 DEF G

(* The owners after some descriptors were closed.                          *)
Without(h, S) == [x \in Objects |-> IF h[x] \in S THEN -1 ELSE h[x]]

(* A table that lost the descriptors of S is sound for the objects without *)
(* them, whatever closed them.                                             *)
LEMMA FdGone ==
  ASSUME NEW F \in Tables, NEW h \in [Objects -> Fds \cup {-1}], FdSound(F, h),
         NEW S \in SUBSET Fds, NEW G \in Tables,
         \A f \in Fds : G.tab[f].open <=> F.tab[f].open /\ f \notin S,
         G.number = Cardinality(OpenFds(G)), G.highest = Top(OpenFds(G))
  PROVE  FdSound(G, Without(h, S))
<1> DEFINE k == Without(h, S)
<1>0. \A x \in Objects : k[x] = IF h[x] \in S THEN -1 ELSE h[x]
  BY DEF Without
<1> HIDE DEF k
<1>1. \A y \in Objects : k[y] # -1 => k[y] \in Fds /\ G.tab[k[y]].open
  BY <1>0 DEF FdSound
<1>2. \A y, z \in Objects : k[y] = k[z] /\ k[y] # -1 => y = z
  BY <1>0 DEF FdSound
<1>3. \A g \in Fds : G.tab[g].open => \E y \in Objects : k[y] = g
  BY <1>0 DEF FdSound
<1>4. FdSound(G, k)
  BY <1>1, <1>2, <1>3 DEF FdSound
<1> QED BY <1>4 DEF k

(* fd_close of an open descriptor keeps the table sound for its owner      *)
(* without it.                                                             *)
LEMMA FdClose ==
  ASSUME NEW F \in Tables, NEW h \in [Objects -> Fds \cup {-1}], FdSound(F, h),
         NEW f \in Fds, F.tab[f].open
  PROVE  /\ fd_close(F, f) \in Tables
         /\ fd_close(F, f).tab = [F.tab EXCEPT ![f] = ClosedEntry]
         /\ FdSound(fd_close(F, f), Without(h, {f}))
<1> DEFINE C == [F EXCEPT !.tab[f] = ClosedEntry]
           G == fd_close(F, f)
<1>1. C \in Tables /\ C.tab = [F.tab EXCEPT ![f] = ClosedEntry] /\ C.highest = F.highest
      /\ C.number = F.number
  BY EntryTypes DEF Tables
<1>2. G = [C EXCEPT !.highest = UpdateBiggest(C, f), !.number = @ - 1]
  BY DEF fd_close
<1>3. OpenFds(C) = OpenFds(F) \ {f} /\ f \in OpenFds(F)
  <2>1. \A g \in Fds : C.tab[g] = IF g = f THEN ClosedEntry ELSE F.tab[g]
    BY <1>1 DEF Tables
  <2>2. ~ClosedEntry.open
    BY DEF ClosedEntry
  <2> HIDE DEF C
  <2> QED BY <2>1, <2>2 DEF OpenFds
<1>4. F.highest = Top(OpenFds(F)) /\ F.number = Cardinality(OpenFds(F))
  BY DEF FdSound
<1>5. F.highest \in OpenFds(F) /\ \A y \in OpenFds(F) : y <= F.highest
  BY <1>3, <1>4, TopHas DEF OpenFds
<1>6. f \in Int /\ F.highest \in Int /\ OpenFds(F) \in SUBSET Int /\ f <= F.highest
  BY <1>3, <1>5, FdsFinite DEF Tables, OpenFds
<1>7. UpdateBiggest(C, f) \in Int /\ UpdateBiggest(C, f) = Top(OpenFds(C))
  <2>0. OpenFds(C) \in SUBSET Fds
    BY DEF OpenFds
  <2>1. CASE f < F.highest
    <3>1. UpdateBiggest(C, f) = F.highest
      BY <1>1, <1>6, <2>1 DEF UpdateBiggest
    <3>2. F.highest \in OpenFds(C) /\ \A y \in OpenFds(C) : y <= F.highest
      BY <1>3, <1>5, <1>6, <2>1
    <3> QED BY <1>6, <2>0, <3>1, <3>2, TopIs
  <2>2. CASE f = F.highest
    <3>1. {g \in OpenFds(C) : g <= f} = OpenFds(C)
      BY <1>3, <1>5, <2>2
    <3>2. UpdateBiggest(C, f) = Top(OpenFds(C))
      BY <1>1, <1>6, <2>2, <3>1 DEF UpdateBiggest, Top
    <3>3. Top(OpenFds(C)) \in Int
      BY <2>0, TopHas, FdsFinite
    <3> QED BY <3>2, <3>3
  <2> QED BY <1>6, <2>1, <2>2
<1> HIDE DEF C
<1>9. /\ G \in Tables /\ G.tab = C.tab /\ G.number = F.number - 1 /\ G.highest = Top(OpenFds(C))
  <2>1. C.number \in Int
    BY <1>1 DEF Tables
  <2>2. G = [tab |-> C.tab, number |-> C.number - 1, highest |-> UpdateBiggest(C, f)]
    BY <1>1, <1>2 DEF Tables
  <2> HIDE DEF G
  <2>3. C.tab \in [Fds -> Entries]
    BY <1>1 DEF Tables
  <2>4. G.tab = C.tab /\ G.number = F.number - 1 /\ G.highest = Top(OpenFds(C))
    BY <1>1, <1>7, <2>2
  <2>5. G \in Tables
    BY <2>1, <2>2, <2>3, <1>7 DEF Tables
  <2> QED BY <2>4, <2>5
<1>10. OpenFds(G) = OpenFds(C)
  BY <1>9 DEF OpenFds
<1>11. G.number = Cardinality(OpenFds(G))
  <2>1. IsFiniteSet(OpenFds(F))
    BY FdsFinite, FS_Subset DEF OpenFds
  <2>2. Cardinality(OpenFds(F) \ {f}) = Cardinality(OpenFds(F)) - 1
    BY <1>3, <2>1, FS_RemoveElement
  <2> QED BY <1>3, <1>4, <1>9, <1>10, <2>2
<1>12. \A g \in Fds : G.tab[g].open <=> F.tab[g].open /\ g \notin {f}
  BY <1>3, <1>9, <1>10 DEF OpenFds
<1> HIDE DEF G
<1>13. FdSound(G, Without(h, {f}))
  BY <1>9, <1>10, <1>11, <1>12, FdGone
<1> QED BY <1>1, <1>9, <1>13 DEF G

(* So does closing the open descriptors of a set.                          *)
LEMMA FdCloseAll ==
  ASSUME NEW F \in Tables, NEW h \in [Objects -> Fds \cup {-1}], FdSound(F, h),
         NEW S, S \subseteq OpenFds(F)
  PROVE  /\ CloseAll(F, S) \in Tables
         /\ CloseAll(F, S).tab = [f \in Fds |-> IF f \in S THEN ClosedEntry ELSE F.tab[f]]
         /\ FdSound(CloseAll(F, S), Without(h, S))
<1> DEFINE tab == [f \in Fds |-> IF f \in S THEN ClosedEntry ELSE F.tab[f]]
           left == {f \in Fds : tab[f].open}
           G == CloseAll(F, S)
<1>1. left = OpenFds(F) \ S
  BY DEF OpenFds, ClosedEntry
<1>2. tab \in [Fds -> Entries]
  BY EntryTypes DEF Tables
<1>3. F.highest = Top(OpenFds(F)) /\ F.number = Cardinality(OpenFds(F))
  BY DEF FdSound
<1>4. IF OpenFds(F) = {} THEN F.highest = -1
      ELSE F.highest \in OpenFds(F) /\ \A y \in OpenFds(F) : y <= F.highest
  BY <1>3, TopHas DEF OpenFds
<1>5. OpenFds(F) \in SUBSET Fds /\ left \in SUBSET Fds /\ F.highest \in Int /\ F.number \in Int
  BY DEF OpenFds, Tables
<1>6. /\ G.tab = tab /\ G.number = F.number - Cardinality(S)
      /\ G.highest = IF F.highest \notin S THEN F.highest ELSE Top(left)
      /\ G = [tab |-> G.tab, number |-> G.number, highest |-> G.highest]
  BY DEF CloseAll, Top
<1>7. OpenFds(G) = left
  BY <1>6 DEF OpenFds
<1> HIDE DEF tab
<1>8. G.highest = Top(left) /\ G.highest \in Int
  <2> HIDE DEF left
  <2>1. Top(left) \in Int
    <3>1. left \subseteq Int
      BY <1>5, FdsFinite
    <3>2. IF left = {} THEN Top(left) = -1 ELSE Top(left) \in left /\ \A y \in left : y <= Top(left)
      BY <1>5, TopHas
    <3>3. left = {} => Top(left) = -1
      BY <3>2
    <3>4. left # {} => Top(left) \in left
      BY <3>2
    <3>5. -1 \in Int
      OBVIOUS
    <3> QED BY <3>1, <3>3, <3>4, <3>5, Zenon
  <2>2. CASE F.highest \in S
    BY <1>6, <2>1, <2>2
  <2>3. CASE F.highest \notin S
    <3>1. IF left = {} THEN F.highest = -1 ELSE F.highest \in left /\ \A y \in left : y <= F.highest
      BY <1>1, <1>4, <2>3
    <3> QED BY <1>5, <1>6, <2>3, <3>1, TopIs
  <2> QED BY <2>2, <2>3
<1>9. IsFiniteSet(OpenFds(F)) /\ IsFiniteSet(S) /\ Cardinality(S) \in Nat
  BY <1>5, FdsFinite, FS_Subset, FS_CardinalityType
<1>10. Cardinality(left) = Cardinality(OpenFds(F)) - Cardinality(S)
  <2>1. OpenFds(F) \cap S = S
    OBVIOUS
  <2> QED BY <1>1, <1>9, <2>1, FS_Difference
<1>11. G \in Tables /\ G.number = Cardinality(OpenFds(G)) /\ G.highest = Top(OpenFds(G))
  <2>1. G.number \in Int
    BY <1>5, <1>6, <1>9
  <2> HIDE DEF G, left
  <2>2. [tab |-> G.tab, number |-> G.number, highest |-> G.highest] \in Tables
    BY <1>2, <1>6, <1>8, <2>1 DEF Tables
  <2> QED BY <1>3, <1>6, <1>7, <1>8, <1>10, <2>2
<1>12. \A f \in Fds : G.tab[f].open <=> F.tab[f].open /\ f \notin S
  BY <1>1, <1>6, <1>7 DEF OpenFds
<1>13. S \in SUBSET Fds
  BY <1>5
<1> HIDE DEF G
<1>14. FdSound(G, Without(h, S))
  BY <1>11, <1>12, <1>13, FdGone
<1> QED BY <1>6, <1>11, <1>14 DEF G, tab

-----------------------------------------------------------------------------
(* The list of clients, and what removing blocks keeps of it.              *)

(* Lists, in first-order terms.                                            *)
Injective(s) == \A i, j \in 1 .. Len(s) : s[i] = s[j] => i = j
Items(s) == {s[i] : i \in 1 .. Len(s)}

(* One step of the recursion of Kept, and a function that solves it.       *)
KeptStep(list, gone, i, t) ==
  IF i = 0 THEN << >> ELSE IF list[i] \in gone THEN t ELSE Append(t, list[i])

Solves(f, C, list, gone) ==
  /\ f \in [0 .. Len(list) -> Seq(C)]
  /\ \A i \in 0 .. Len(list) : f[i] = KeptStep(list, gone, i, f[i - 1])

(* The recursion of Kept has a solution, so that Kept is what it says.     *)
LEMMA KeptDefined ==
  ASSUME NEW C, NEW list \in Seq(C), NEW gone
  PROVE  \E f : Solves(f, C, list, gone)
<1> DEFINE n == Len(list)
           P(m) == \E f \in [0 .. m -> Seq(C)] :
                     \A i \in 0 .. m : f[i] = KeptStep(list, gone, i, f[i - 1])
           S == {m \in 0 .. n : P(m)}
<1>0. n \in Nat
  OBVIOUS
<1>1. 0 \in S
  <2> DEFINE f == [i \in 0 .. 0 |-> << >>]
  <2>1. f \in [0 .. 0 -> Seq(C)] /\ \A i \in 0 .. 0 : f[i] = KeptStep(list, gone, i, f[i - 1])
    BY DEF KeptStep
  <2>2. P(0)
    BY <2>1
  <2> QED BY <1>0, <2>2
<1>2. ASSUME NEW m \in 1 .. n, m - 1 \in S PROVE m \in S
  <2>1. PICK f \in [0 .. (m - 1) -> Seq(C)] :
          \A i \in 0 .. (m - 1) : f[i] = KeptStep(list, gone, i, f[i - 1])
    BY <1>2
  <2>2. f[m - 1] \in Seq(C) /\ list[m] \in C
    BY <1>2, <2>1
  <2> DEFINE v == KeptStep(list, gone, m, f[m - 1])
             g == [i \in 0 .. m |-> IF i = m THEN v ELSE f[i]]
  <2>3. v \in Seq(C)
    BY <2>2 DEF KeptStep
  <2>4. g \in [0 .. m -> Seq(C)]
    BY <2>3
  <2>5. ASSUME NEW i \in 0 .. m PROVE g[i] = KeptStep(list, gone, i, g[i - 1])
    <3>1. CASE i = m
      BY <1>2, <3>1
    <3>2. CASE i # m /\ i # 0
      BY <1>2, <2>1, <3>2
    <3>3. CASE i = 0
      <4>1. g[0] = f[0] /\ f[0] = KeptStep(list, gone, 0, f[0 - 1])
        BY <1>2, <2>1
      <4> QED BY <3>3, <4>1 DEF KeptStep
    <3> QED BY <3>1, <3>2, <3>3
  <2>6. P(m)
    BY <2>4, <2>5
  <2>7. m \in 0 .. n
    BY <1>0, <1>2
  <2> HIDE DEF P
  <2> QED BY <2>6, <2>7
<1>3. n \in S
  <2> HIDE DEF S
  <2>1. \A i \in 0 .. n : i \in S
    BY <1>0, <1>1, <1>2, Induction
  <2> QED BY <1>0, <2>1
<1> QED BY <1>3 DEF Solves

(* Kept is the last element of that solution.                              *)
LEMMA KeptIs ==
  ASSUME NEW C, NEW list \in Seq(C), NEW gone
  PROVE  \E f : Solves(f, C, list, gone) /\ Kept(list, gone) = f[Len(list)]
<1>0. Len(list) \in Nat
  OBVIOUS
<1>a. PICK f : Solves(f, C, list, gone)
  BY KeptDefined
<1>1. /\ f \in [0 .. Len(list) -> Seq(C)]
      /\ \A i \in 0 .. Len(list) : f[i] = KeptStep(list, gone, i, f[i - 1])
  BY <1>a DEF Solves
<1> DEFINE R(g) == [i \in 0 .. Len(list) |->
                      IF i = 0 THEN << >>
                      ELSE IF list[i] \in gone THEN g[i - 1] ELSE Append(g[i - 1], list[i])]
           F == CHOOSE g : g = R(g)
<1>2. Kept(list, gone) = F[Len(list)]
  BY DEF Kept
<1>3. f = R(f)
  BY <1>1 DEF KeptStep
<1>4. F = R(F)
  BY <1>3
<1> HIDE DEF F
<1> DEFINE S == {i \in 0 .. Len(list) : F[i] = f[i]}
<1>5. 0 \in S
  BY <1>0, <1>3, <1>4
<1>6. ASSUME NEW i \in 1 .. Len(list), i - 1 \in S PROVE i \in S
  <2>1. F[i - 1] = f[i - 1] /\ i \in 0 .. Len(list) /\ i # 0
    BY <1>0, <1>6
  <2>2. F[i] = (IF list[i] \in gone THEN F[i - 1] ELSE Append(F[i - 1], list[i]))
    BY <1>4, <2>1
  <2>3. f[i] = (IF list[i] \in gone THEN f[i - 1] ELSE Append(f[i - 1], list[i]))
    BY <1>1, <2>1 DEF KeptStep
  <2> QED BY <2>1, <2>2, <2>3
<1>7. Len(list) \in S
  <2> HIDE DEF S
  <2>1. \A i \in 0 .. Len(list) : i \in S
    BY <1>0, <1>5, <1>6, Induction
  <2> QED BY <1>0, <2>1
<1> QED BY <1>a, <1>2, <1>7

(* t is what is kept of the first i entries of the list.                   *)
KeptOf(t, list, gone, i) ==
  /\ \A a \in 1 .. i : list[a] \notin gone => \E p \in 1 .. Len(t) : t[p] = list[a]
  /\ \A p \in 1 .. Len(t) : \E a \in 1 .. i : t[p] = list[a] /\ list[a] \notin gone
  /\ \A p, q \in 1 .. Len(t) : t[p] = t[q] => p = q

(* One more entry of the list keeps KeptOf.                                *)
LEMMA KeptOfStep ==
  ASSUME NEW C, NEW list \in Seq(C), NEW gone, Injective(list),
         NEW i \in 1 .. Len(list), NEW t \in Seq(C), KeptOf(t, list, gone, i - 1)
  PROVE  KeptOf(KeptStep(list, gone, i, t), list, gone, i)
<1> DEFINE u == KeptStep(list, gone, i, t)
<1>1. i \in Nat /\ i # 0 /\ list[i] \in C /\ \A a \in 1 .. i : a = i \/ a \in 1 .. (i - 1)
  OBVIOUS
<1>2. CASE list[i] \in gone
  <2>1. u = t
    BY <1>1, <1>2 DEF KeptStep
  <2>2. \A a \in 1 .. i : list[a] \notin gone => a \in 1 .. (i - 1)
    BY <1>1, <1>2
  <2>3. 1 .. (i - 1) \subseteq 1 .. i
    BY <1>1
  <2> QED BY <2>1, <2>2, <2>3 DEF KeptOf
<1>3. CASE list[i] \notin gone
  <2>1. u = Append(t, list[i])
    BY <1>1, <1>3 DEF KeptStep
  <2>2. /\ Len(t) \in Nat /\ Len(u) = Len(t) + 1 /\ u[Len(u)] = list[i]
        /\ \A p \in 1 .. Len(t) : u[p] = t[p]
    BY <1>1, <2>1
  <2> HIDE DEF u
  <2>3. /\ \A p \in 1 .. Len(u) : p = Len(u) \/ p \in 1 .. Len(t)
        /\ Len(u) \in 1 .. Len(u)
        /\ \A p \in 1 .. Len(t) : p \in 1 .. Len(u) /\ p < Len(u)
    BY <2>2
  <2>4. ASSUME NEW a \in 1 .. i, list[a] \notin gone
        PROVE  \E p \in 1 .. Len(u) : u[p] = list[a]
    <3>1. CASE a = i
      BY <2>2, <2>3, <3>1
    <3>2. CASE a # i
      <4>1. PICK p \in 1 .. Len(t) : t[p] = list[a]
        BY <1>1, <2>4, <3>2 DEF KeptOf
      <4> QED BY <2>2, <2>3, <4>1
    <3> QED BY <3>1, <3>2
  <2>6. ASSUME NEW p \in 1 .. Len(u)
        PROVE  \E a \in 1 .. i : u[p] = list[a] /\ list[a] \notin gone
    <3>1. CASE p = Len(u)
      BY <1>1, <1>3, <2>2, <3>1
    <3>2. CASE p # Len(u)
      <4>1. p \in 1 .. Len(t)
        BY <2>3, <3>2
      <4>2. PICK a \in 1 .. (i - 1) : t[p] = list[a] /\ list[a] \notin gone
        BY <4>1 DEF KeptOf
      <4>3. a \in 1 .. i
        BY <1>1
      <4> QED BY <2>2, <4>1, <4>2, <4>3
    <3> QED BY <3>1, <3>2
  <2>7. \A p \in 1 .. Len(t) : t[p] # list[i]
    <3> SUFFICES ASSUME NEW p \in 1 .. Len(t), t[p] = list[i] PROVE FALSE
      OBVIOUS
    <3>1. PICK a \in 1 .. (i - 1) : t[p] = list[a]
      BY DEF KeptOf
    <3>2. a \in 1 .. Len(list) /\ a # i /\ list[a] = list[i]
      BY <3>1
    <3> QED BY <3>2 DEF Injective
  <2>8. ASSUME NEW p \in 1 .. Len(u), NEW q \in 1 .. Len(u), u[p] = u[q] PROVE p = q
    <3>1. CASE p \in 1 .. Len(t) /\ q \in 1 .. Len(t)
      BY <2>2, <2>8, <3>1 DEF KeptOf
    <3>2. CASE p = Len(u) \/ q = Len(u)
      BY <2>2, <2>3, <2>7, <2>8, <3>2
    <3> QED BY <2>3, <3>1, <3>2
  <2> QED BY <2>4, <2>6, <2>8 DEF KeptOf, u
<1> QED BY <1>2, <1>3

(* The list without some blocks: the others stay, each once, in order.     *)
LEMMA KeptProperties ==
  ASSUME NEW C, NEW list \in Seq(C), NEW gone, Injective(list)
  PROVE  /\ Kept(list, gone) \in Seq(C)
         /\ Injective(Kept(list, gone))
         /\ Items(Kept(list, gone)) = Items(list) \ gone
<1>0. Len(list) \in Nat
  OBVIOUS
<1>a. PICK f : Solves(f, C, list, gone) /\ Kept(list, gone) = f[Len(list)]
  BY KeptIs
<1>1. /\ f \in [0 .. Len(list) -> Seq(C)]
      /\ \A i \in 0 .. Len(list) : f[i] = KeptStep(list, gone, i, f[i - 1])
  BY <1>a DEF Solves
<1> DEFINE S == {i \in 0 .. Len(list) : KeptOf(f[i], list, gone, i)}
<1>2. 0 \in S
  <2>1. f[0] = << >>
    BY <1>0, <1>1 DEF KeptStep
  <2>2. KeptOf(<< >>, list, gone, 0)
    BY DEF KeptOf
  <2> QED BY <1>0, <2>1, <2>2
<1>3. ASSUME NEW i \in 1 .. Len(list), i - 1 \in S PROVE i \in S
  <2>1. i \in 0 .. Len(list) /\ i - 1 \in 0 .. Len(list)
    BY <1>0, <1>3
  <2>2. f[i] = KeptStep(list, gone, i, f[i - 1]) /\ f[i - 1] \in Seq(C)
        /\ KeptOf(f[i - 1], list, gone, i - 1)
    BY <1>1, <1>3, <2>1
  <2>3. KeptOf(f[i], list, gone, i)
    BY <2>2, KeptOfStep
  <2> QED BY <2>1, <2>3
<1>4. Len(list) \in S
  <2> HIDE DEF S
  <2>1. \A i \in 0 .. Len(list) : i \in S
    BY <1>0, <1>2, <1>3, Induction
  <2> QED BY <1>0, <2>1
<1> DEFINE k == Kept(list, gone)
<1>5. k \in Seq(C) /\ KeptOf(k, list, gone, Len(list))
  BY <1>0, <1>a, <1>1, <1>4
<1> HIDE DEF k
<1>6. Injective(k)
  BY <1>5 DEF Injective, KeptOf
<1>7. Items(k) = Items(list) \ gone
  <2>1. ASSUME NEW x \in Items(k) PROVE x \in Items(list) \ gone
    <3>1. PICK p \in 1 .. Len(k) : x = k[p]
      BY DEF Items
    <3>2. PICK a \in 1 .. Len(list) : k[p] = list[a] /\ list[a] \notin gone
      BY <1>5 DEF KeptOf
    <3> QED BY <3>1, <3>2 DEF Items
  <2>2. ASSUME NEW x \in Items(list) \ gone PROVE x \in Items(k)
    <3>1. PICK a \in 1 .. Len(list) : x = list[a]
      BY DEF Items
    <3>2. PICK p \in 1 .. Len(k) : k[p] = list[a]
      BY <1>5, <3>1 DEF KeptOf
    <3> QED BY <3>1, <3>2 DEF Items
  <2> QED BY <2>1, <2>2
<1> QED BY <1>5, <1>6, <1>7 DEF k

(* The library's notions for lists are the ones used here.                 *)
LEMMA ListOf ==
  ASSUME NEW C, NEW s \in Seq(C)
  PROVE  (IsInjective(s) <=> Injective(s)) /\ ToSet(s) = Items(s) /\ ToSet(s) \subseteq C
<1>1. DOMAIN s = 1 .. Len(s) /\ \A i \in 1 .. Len(s) : s[i] \in C
  OBVIOUS
<1> QED BY <1>1 DEF IsInjective, Injective, ToSet, Items

(* KeptProperties, in the library's notions.                               *)
LEMMA KeptList ==
  ASSUME NEW C, NEW list \in Seq(C), NEW gone, IsInjective(list)
  PROVE  /\ Kept(list, gone) \in Seq(C) /\ IsInjective(Kept(list, gone))
         /\ ToSet(Kept(list, gone)) = ToSet(list) \ gone
<1>1. Injective(list) /\ ToSet(list) = Items(list)
  BY ListOf
<1>2. /\ Kept(list, gone) \in Seq(C) /\ Injective(Kept(list, gone))
      /\ Items(Kept(list, gone)) = Items(list) \ gone
  BY <1>1, KeptProperties
<1> QED BY <1>1, <1>2, ListOf

(* A block that is not on the list may be put in front of it.              *)
LEMMA LongerList ==
  ASSUME NEW C, NEW list \in Seq(C), NEW c \in C, IsInjective(list), c \notin ToSet(list)
  PROVE  /\ <<c>> \o list \in Seq(C) /\ IsInjective(<<c>> \o list)
         /\ ToSet(<<c>> \o list) = ToSet(list) \cup {c}
<1> DEFINE t == <<c>> \o list
<1>1. Injective(list) /\ ToSet(list) = Items(list)
  BY ListOf
<1>2. <<c>> \in Seq(C) /\ Len(<<c>>) = 1 /\ <<c>>[1] = c /\ Len(list) \in Nat
  OBVIOUS
<1>3. t \in Seq(C) /\ Len(t) = 1 + Len(list)
      /\ \A i \in 1 .. (1 + Len(list)) : t[i] = IF i <= 1 THEN <<c>>[i] ELSE list[i - 1]
  BY <1>2, ConcatProperties
<1> HIDE DEF t
<1>4. t[1] = c /\ \A i \in 2 .. Len(t) : t[i] = list[i - 1] /\ i - 1 \in 1 .. Len(list)
  BY <1>2, <1>3
<1>5. \A j \in 1 .. Len(list) : j + 1 \in 2 .. Len(t) /\ t[j + 1] = list[j]
  BY <1>2, <1>3
<1>6. \A i \in 1 .. Len(t) : i = 1 \/ i \in 2 .. Len(t)
  BY <1>2, <1>3
<1>7. Items(t) = Items(list) \cup {c}
  <2>1. Items(t) \subseteq Items(list) \cup {c}
    BY <1>4, <1>6 DEF Items
  <2>2. 1 \in 1 .. Len(t) /\ \A j \in 2 .. Len(t) : j \in 1 .. Len(t)
    BY <1>2, <1>3
  <2>3. Items(list) \cup {c} \subseteq Items(t)
    BY <1>4, <1>5, <2>2 DEF Items
  <2> QED BY <2>1, <2>3
<1>8. Injective(t)
  <2> SUFFICES ASSUME NEW i \in 1 .. Len(t), NEW j \in 1 .. Len(t), t[i] = t[j] PROVE i = j
    BY DEF Injective
  <2>1. \A p \in 1 .. Len(list) : list[p] # c
    BY <1>1 DEF Items
  <2>2. CASE i = 1 \/ j = 1
    BY <1>4, <1>6, <2>1, <2>2
  <2>3. CASE i \in 2 .. Len(t) /\ j \in 2 .. Len(t)
    <3>1. i - 1 = j - 1
      BY <1>1, <1>4, <2>3 DEF Injective
    <3> QED BY <3>1
  <2> QED BY <1>6, <2>2, <2>3
<1>9. IsInjective(t) /\ ToSet(t) = Items(t)
  BY <1>3, <1>8, ListOf
<1> QED BY <1>1, <1>3, <1>7, <1>9 DEF t

-----------------------------------------------------------------------------
(* Worlds.                                                                 *)

(* The objects, the null pointer and the registrations are told apart.     *)
LEMMA Distinct ==
  /\ NULL \notin Clients /\ NULL \notin Requests /\ NULL \notin Listeners /\ NULL \notin Kinds
  /\ \A x : ~(x \in Clients /\ x \in Requests) /\ ~(x \in Clients /\ x \in Listeners)
            /\ ~(x \in Requests /\ x \in Listeners)
  /\ -1 \notin Fds
  /\ \A n \in Callbacks, x \in Objects \cup {NULL} : <<n, x>> # NULL
BY ConnectionAssumption, FdsFinite DEF Objects

(* FdOf reads the descriptor of each kind of object.                       *)
LEMMA FdOfObjects ==
  ASSUME NEW w, Typed(w)
  PROVE  /\ FdOf(w) \in [Objects -> Fds \cup {-1}]
         /\ \A c \in Clients : FdOf(w)[c] = w.client[c].fd
         /\ \A a \in Requests : FdOf(w)[a] = w.request[a].fd
         /\ \A l \in Listeners : FdOf(w)[l] = w.listener[l].fd
<1>1. /\ \A c \in Clients : w.client[c].fd \in Fds \cup {-1}
      /\ \A a \in Requests : w.request[a].fd \in Fds \cup {-1}
      /\ \A l \in Listeners : w.listener[l].fd \in Fds \cup {-1}
  BY DEF Typed, ClientBlocks, RequestBlocks, ListenerBlocks
<1> QED BY <1>1, Distinct DEF FdOf, Objects

(* Two worlds agree on the descriptors of the objects.                     *)
LEMMA FdOfIs ==
  ASSUME NEW w, NEW h,
         h \in [Objects -> Fds \cup {-1}],
         \A c \in Clients : w.client[c].fd = h[c],
         \A a \in Requests : w.request[a].fd = h[a],
         \A l \in Listeners : w.listener[l].fd = h[l]
  PROVE  FdOf(w) = h
<1>1. \A x \in Objects : FdOf(w)[x] = h[x]
  BY DEF FdOf, Objects
<1> QED BY <1>1 DEF FdOf

(* What FdSound says of the blocks.                                        *)
OwnFds(w) ==
  /\ \A c \in Clients : w.client[c].fd # -1 =>
       w.client[c].fd \in Fds /\ w.fds.tab[w.client[c].fd].open
  /\ \A a \in Requests : w.request[a].fd # -1 =>
       w.request[a].fd \in Fds /\ w.fds.tab[w.request[a].fd].open
  /\ \A l \in Listeners : w.listener[l].fd # -1 =>
       w.listener[l].fd \in Fds /\ w.fds.tab[w.listener[l].fd].open
  /\ \A c, d \in Clients : w.client[c].fd = w.client[d].fd /\ w.client[c].fd # -1 => c = d
  /\ \A a, b \in Requests : w.request[a].fd = w.request[b].fd /\ w.request[a].fd # -1 => a = b
  /\ \A l, m \in Listeners : w.listener[l].fd = w.listener[m].fd /\ w.listener[l].fd # -1 => l = m
  /\ \A c \in Clients, a \in Requests : w.client[c].fd = w.request[a].fd => w.client[c].fd = -1
  /\ \A c \in Clients, l \in Listeners : w.client[c].fd = w.listener[l].fd => w.client[c].fd = -1
  /\ \A a \in Requests, l \in Listeners : w.request[a].fd = w.listener[l].fd => w.request[a].fd = -1

(* A sound table gives each descriptor one owner.                          *)
LEMMA FdsOwned ==
  ASSUME NEW w, Typed(w), FdSound(w.fds, FdOf(w))
  PROVE  OwnFds(w)
<1> DEFINE h == FdOf(w)
<1>1. /\ \A x \in Objects : h[x] # -1 => h[x] \in Fds /\ w.fds.tab[h[x]].open
      /\ \A x, y \in Objects : h[x] = h[y] /\ h[x] # -1 => x = y
  BY DEF FdSound
<1>2. /\ \A c \in Clients : h[c] = w.client[c].fd /\ c \in Objects
      /\ \A a \in Requests : h[a] = w.request[a].fd /\ a \in Objects
      /\ \A l \in Listeners : h[l] = w.listener[l].fd /\ l \in Objects
  BY FdOfObjects DEF Objects
<1> HIDE DEF h
<1>3. \A x : ~(x \in Clients /\ x \in Requests) /\ ~(x \in Clients /\ x \in Listeners)
            /\ ~(x \in Requests /\ x \in Listeners)
  BY Distinct
<1> QED BY <1>1, <1>2, <1>3 DEF OwnFds

(* An entry stays sound while the objects that own the descriptor stay.    *)
LEMMA EntryKept ==
  ASSUME NEW w, NEW v, NEW f, EntrySound(w, f, w.fds.tab[f]), v.fds.tab[f] = w.fds.tab[f],
         \A l \in Listeners : w.listener[l].fd = f => v.listener[l].fd = f,
         \A a \in Requests : w.request[a].fd = f =>
            v.request[a].fd = f /\ v.request[a].ident = w.request[a].ident,
         \A d \in Clients : w.client[d].fd = f =>
            /\ v.client[d].fd = f /\ (Released(v, d) <=> Released(w, d))
            /\ \/ v.client[d].status = w.client[d].status
               \/ /\ Released(w, d)
                  /\ w.client[d].status # "connecting" /\ v.client[d].status # "connecting"
  PROVE  EntrySound(v, f, v.fds.tab[f])
<1> DEFINE e == w.fds.tab[f]
<1>1. e.read # NULL => ReadSound(v, f, e.read)
  BY DEF EntrySound, ReadSound
<1>2. e.write # NULL => WriteSound(v, f, e.write)
  BY DEF EntrySound, WriteSound
<1>3. e.connect # NULL => ConnectSound(v, f, e.connect)
  BY DEF EntrySound, ConnectSound
<1>4. e.flush # NULL => FlushSound(v, f, e.flush)
  BY DEF EntrySound, FlushSound
<1> QED BY <1>1, <1>2, <1>3, <1>4 DEF EntrySound

(* Nothing is registered on a closed entry, which is sound.                *)
LEMMA ClosedSound == \A w, f : EntrySound(w, f, ClosedEntry)
BY DEF EntrySound, ClosedEntry

(* The parts of an invariant world.                                        *)
LEMMA SoundParts ==
  ASSUME NEW w, NEW X, Sound(w, X)
  PROVE  /\ Typed(w) /\ FdSound(w.fds, FdOf(w)) /\ OwnFds(w)
         /\ w.fds \in Tables /\ w.client \in [Clients -> ClientBlocks]
         /\ w.request \in [Requests -> RequestBlocks] /\ w.polled \in SUBSET Requests
         /\ w.listener \in [Listeners -> ListenerBlocks] /\ w.queries \in SUBSET QueryBlocks
         /\ \A f \in Fds : EntrySound(w, f, w.fds.tab[f])
         /\ \A f \in Fds : w.fds.tab[f].write = TryConnect /\ w.fds.tab[f].connect = NULL =>
              Excused(w, X, f)
         /\ \A a \in Requests : RequestSound(w, X, a)
         /\ QueriesSound(w)
         /\ IsInjective(w.clients)
         /\ \A c \in Clients : ClientSound(w, X, c)
         /\ \A c \in Clients \ X : Armed(w, c)
         /\ \A l \in Listeners : ListenerSound(w, l)
BY FdsOwned DEF Sound, Typed, EntriesSound, RequestsSound, ClientsSound, AllArmed, ListenersSound

(* The same for one entry of the table ...                                 *)
LEMMA SoundEntry ==
  ASSUME NEW w, NEW X, Sound(w, X), NEW f \in Fds
  PROVE  /\ EntrySound(w, f, w.fds.tab[f])
         /\ w.fds.tab[f].write = TryConnect /\ w.fds.tab[f].connect = NULL => Excused(w, X, f)
BY DEF Sound, EntriesSound

(* ... and for one client.                                                 *)
LEMMA SoundClient ==
  ASSUME NEW w, NEW X, Sound(w, X), NEW c \in Clients
  PROVE  ClientSound(w, X, c) /\ (c \notin X => Armed(w, c))
BY DEF Sound, ClientsSound, AllArmed

(* The connections of a listener can be counted.                           *)
LEMMA ReferencesFinite ==
  ASSUME NEW w, NEW l
  PROVE  IsFiniteSet(ReferencesOf(w, l)) /\ Cardinality(ReferencesOf(w, l)) \in Nat
<1>1. IsFiniteSet(ReferencesOf(w, l))
  BY ConnectionAssumption, FS_Subset DEF ReferencesOf
<1> QED BY <1>1, FS_CardinalityType

-----------------------------------------------------------------------------
(* exit_client.                                                            *)

(* The ident descriptors that the exit of c closes.                        *)
IdentFds(w, c) == {f \in {w.request[a].fd : a \in RequestsOf(w, c)} : f >= 0}

(* The listener block that the exit of c leaves.                           *)
LeftListener(w, c, l) ==
  IF l # w.client[c].listener THEN w.listener[l]
  ELSE IF w.listener[l].refs = 1 /\ ~w.listener[l].active THEN FreeListener
  ELSE [w.listener[l] EXCEPT !.refs = @ - 1]

(* v is w after the exit of c.                                             *)
Exited(w, v, c) ==
  /\ IsWorld(v)
  /\ v.fds = fd_close(CloseAll(w.fds, IdentFds(w, c)), w.client[c].fd)
  /\ v.client \in [Clients -> ClientBlocks]
  /\ v.client[c].status = "exited" /\ v.client[c].fd = -1 /\ v.client[c].listener = NULL
  /\ v.client[c].dns = w.client[c].dns /\ v.client[c].dead = TRUE
  /\ \A b \in Clients : b # c => v.client[b] = w.client[b]
  /\ v.unknown = w.unknown \ {c} /\ v.count \in Int
  /\ v.clients = w.clients /\ v.exited = w.exited \cup {c}
  /\ v.request = [a \in Requests |-> IF a \in RequestsOf(w, c) THEN FreeRequest ELSE w.request[a]]
  /\ v.polled = w.polled \ RequestsOf(w, c)
  /\ v.queries = {q \in w.queries : w.client[c].dns = "pending" => q.owner # c}
  /\ v.listener = [l \in Listeners |-> LeftListener(w, c, l)]

(* CloseClient leaves a client block.                                      *)
LEMMA ClosedBlock ==
  ASSUME NEW B \in [Clients -> ClientBlocks], NEW c \in Clients
  PROVE  [B EXCEPT ![c].fd = -1, ![c].dead = TRUE] \in [Clients -> ClientBlocks]
BY DEF ClientBlocks

(* The five calls of exit_client, put together, do what Exited says.       *)
LEMMA ExitEffect ==
  ASSUME NEW w, Typed(w), NEW c \in Clients, w.client[c].status \in Live, w.client[c].fd # -1
  PROVE  Exited(w, exit_client(w, c), c)
<1> DEFINE w1 == delete_adns_queries(w, c)
           w2 == delete_identd_queries(w1, c)
           w3 == LeaveUnknown(w2, c)
           w4 == CloseClient(w3, c)
           w5 == LeaveListener(w4, c)
           v == [w5 EXCEPT !.client[c].status = "exited", !.exited = @ \cup {c}]
<1>0. exit_client(w, c) = v
  BY DEF exit_client, Live
<1>1. /\ IsWorld(w) /\ w.client \in [Clients -> ClientBlocks] /\ w.count \in Int
      /\ w.listener \in [Listeners -> ListenerBlocks]
  BY DEF Typed
<1>2. /\ IsWorld(w1) /\ w1.fds = w.fds /\ w1.client = w.client /\ w1.unknown = w.unknown
      /\ w1.count = w.count /\ w1.clients = w.clients /\ w1.exited = w.exited
      /\ w1.request = w.request /\ w1.polled = w.polled /\ w1.listener = w.listener
      /\ w1.queries = {q \in w.queries : w.client[c].dns = "pending" => q.owner # c}
  BY <1>1 DEF delete_adns_queries, IsWorld
<1> HIDE DEF w1
<1>3. /\ IsWorld(w2) /\ w2.fds = CloseAll(w.fds, IdentFds(w, c)) /\ w2.client = w.client
      /\ w2.unknown = w.unknown
      /\ w2.count = w.count /\ w2.clients = w.clients /\ w2.exited = w.exited
      /\ w2.request = [a \in Requests |-> IF a \in RequestsOf(w, c) THEN FreeRequest
                                          ELSE w.request[a]]
      /\ w2.polled = w.polled \ RequestsOf(w, c) /\ w2.listener = w.listener
      /\ w2.queries = w1.queries
  <2>0. RequestsOf(w1, c) = RequestsOf(w, c)
    BY <1>2 DEF RequestsOf
  <2>1. IdentFds(w, c) = {f \in {w1.request[a].fd : a \in RequestsOf(w1, c)} : f >= 0}
    BY <1>2, <2>0 DEF IdentFds
  <2> QED BY <1>2, <2>0, <2>1 DEF delete_identd_queries, IsWorld
<1> HIDE DEF w2
<1>4. /\ IsWorld(w3) /\ w3.fds = w2.fds /\ w3.client = w.client
      /\ w3.unknown = w.unknown \ {c} /\ w3.count \in Int
      /\ w3.clients = w.clients /\ w3.exited = w.exited /\ w3.request = w2.request
      /\ w3.polled = w2.polled /\ w3.listener = w.listener /\ w3.queries = w1.queries
  <2>1. CASE c \in w.unknown
    <3>1. /\ IsWorld(w3) /\ w3.fds = w2.fds /\ w3.client = w.client
          /\ w3.unknown = w.unknown \ {c} /\ w3.count = w.count - 1
          /\ w3.clients = w.clients /\ w3.exited = w.exited /\ w3.request = w2.request
          /\ w3.polled = w2.polled /\ w3.listener = w.listener /\ w3.queries = w1.queries
      BY <1>3, <2>1 DEF LeaveUnknown, IsWorld
    <3>2. w.count - 1 \in Int
      BY <1>1
    <3> HIDE DEF w3
    <3> QED BY <3>1, <3>2
  <2>2. CASE c \notin w.unknown
    <3>1. w3 = w2 /\ w.unknown = w.unknown \ {c}
      BY <1>3, <2>2 DEF LeaveUnknown
    <3> HIDE DEF w3
    <3> QED BY <1>1, <1>3, <3>1
  <2> QED BY <2>1, <2>2
<1> HIDE DEF w3
<1>5. w.client[c].fd \in Fds /\ w.client[c].fd >= 0
  <2>1. w.client[c].fd \in Fds
    BY <1>1 DEF ClientBlocks
  <2> QED BY <2>1, FdFacts
<1>6. /\ IsWorld(w4) /\ w4.fds = fd_close(w2.fds, w.client[c].fd)
      /\ w4.client = [w.client EXCEPT ![c].fd = -1, ![c].dead = TRUE]
      /\ w4.unknown = w.unknown \ {c} /\ w4.count \in Int
      /\ w4.clients = w.clients /\ w4.exited = w.exited /\ w4.request = w2.request
      /\ w4.polled = w2.polled /\ w4.listener = w.listener /\ w4.queries = w1.queries
  BY <1>4, <1>5 DEF CloseClient, IsWorld
<1> HIDE DEF w4
<1> DEFINE d == w.client[c]
           l == d.listener
<1>a. w4.client \in [Clients -> ClientBlocks]
  BY <1>1, <1>6, ClosedBlock
<1>7. /\ w4.client[c].status = d.status /\ w4.client[c].fd = -1 /\ w4.client[c].listener = l
      /\ w4.client[c].dns = d.dns /\ w4.client[c].dead = TRUE
      /\ l \in Listeners \cup {NULL}
      /\ \A b \in Clients : b # c => w4.client[b] = w.client[b]
  <2>1. w.client[c] \in ClientBlocks
    BY <1>1
  <2>2. l \in Listeners \cup {NULL}
    BY <2>1 DEF ClientBlocks
  <2> QED BY <1>1, <1>6, <2>2 DEF ClientBlocks
<1> HIDE DEF d
<1>8. /\ IsWorld(w5) /\ w5.fds = w4.fds
      /\ w5.client \in [Clients -> ClientBlocks]
      /\ w5.client[c].status = d.status /\ w5.client[c].fd = -1 /\ w5.client[c].listener = NULL
      /\ w5.client[c].dns = d.dns /\ w5.client[c].dead = TRUE
      /\ \A b \in Clients : b # c => w5.client[b] = w.client[b]
      /\ w5.unknown = w4.unknown /\ w5.count \in Int
      /\ w5.clients = w.clients /\ w5.exited = w.exited /\ w5.request = w2.request
      /\ w5.polled = w2.polled /\ w5.queries = w1.queries
      /\ w5.listener = [m \in Listeners |-> LeftListener(w, c, m)]
  <2>1. CASE l = NULL
    <3>1. w5 = w4
      BY <1>7, <2>1 DEF LeaveListener
    <3>2. w.listener = [m \in Listeners |-> LeftListener(w, c, m)]
      BY <1>1, <2>1, Distinct DEF LeftListener, d
    <3> HIDE DEF w5
    <3> QED BY <1>6, <1>a, <1>7, <2>1, <3>1, <3>2
  <2>2. CASE l # NULL
    <3>0. l \in Listeners
      BY <1>7, <2>2
    <3> DEFINE left == [w4.listener[l] EXCEPT !.refs = @ - 1]
               m0 == IF left.refs = 0 /\ ~left.active THEN FreeListener ELSE left
    <3>1. w5 = [w4 EXCEPT !.client[c].listener = NULL, !.listener[l] = m0]
      BY <1>7, <2>2 DEF LeaveListener
    <3>2. [w4.listener EXCEPT ![l] = m0] = [m \in Listeners |-> LeftListener(w, c, m)]
      <4>1. left.refs = w.listener[l].refs - 1 /\ left.active = w.listener[l].active
            /\ w.listener[l].refs \in Nat
        BY <1>1, <1>6, <3>0 DEF ListenerBlocks
      <4>2. m0 = LeftListener(w, c, l)
        <5>1. w4.listener = w.listener /\ l = w.client[c].listener
          BY <1>6 DEF d
        <5>2. m0 = IF w.listener[l].refs - 1 = 0 /\ ~w.listener[l].active THEN FreeListener
                   ELSE [w.listener[l] EXCEPT !.refs = @ - 1]
          BY <4>1, <5>1
        <5> HIDE DEF m0, left
        <5> QED BY <4>1, <5>1, <5>2 DEF LeftListener
      <4>3. \A m \in Listeners : m # l => LeftListener(w, c, m) = w.listener[m]
        BY DEF LeftListener, d
      <4>4. w4.listener = w.listener /\ DOMAIN w.listener = Listeners
            /\ w.listener = [m \in Listeners |-> w.listener[m]]
        BY <1>1, <1>6
      <4> HIDE DEF m0, left
      <4> QED BY <3>0, <4>2, <4>3, <4>4
    <3> HIDE DEF left, m0
    <3>3. /\ IsWorld(w5) /\ w5.fds = w4.fds
          /\ w5.client = [w4.client EXCEPT ![c].listener = NULL]
          /\ w5.unknown = w4.unknown /\ w5.count = w4.count
          /\ w5.clients = w4.clients /\ w5.exited = w4.exited /\ w5.request = w4.request
          /\ w5.polled = w4.polled /\ w5.queries = w4.queries
          /\ w5.listener = [w4.listener EXCEPT ![l] = m0]
      BY <1>6, <3>1 DEF IsWorld
    <3> HIDE DEF w5
    <3>4. /\ w5.client \in [Clients -> ClientBlocks]
          /\ w5.client[c].status = d.status /\ w5.client[c].fd = -1 /\ w5.client[c].listener = NULL
          /\ w5.client[c].dns = d.dns /\ w5.client[c].dead = TRUE
          /\ \A b \in Clients : b # c => w5.client[b] = w.client[b]
      BY <1>a, <1>7, <3>3 DEF ClientBlocks
    <3> QED BY <1>6, <3>2, <3>3, <3>4
  <2> QED BY <2>1, <2>2
<1> HIDE DEF w5
<1>9. /\ IsWorld(v) /\ v.fds = w5.fds /\ v.client = [w5.client EXCEPT ![c].status = "exited"]
      /\ v.unknown = w5.unknown /\ v.count = w5.count
      /\ v.clients = w5.clients /\ v.exited = w5.exited \cup {c} /\ v.request = w5.request
      /\ v.polled = w5.polled /\ v.queries = w5.queries /\ v.listener = w5.listener
  BY <1>8 DEF IsWorld
<1> HIDE DEF v
<1>10. /\ v.client \in [Clients -> ClientBlocks]
       /\ v.client[c].status = "exited" /\ v.client[c].fd = -1 /\ v.client[c].listener = NULL
       /\ v.client[c].dns = d.dns /\ v.client[c].dead = TRUE
       /\ \A b \in Clients : b # c => v.client[b] = w.client[b]
  BY <1>8, <1>9 DEF ClientBlocks, Statuses
<1>11. Exited(w, v, c)
  BY <1>2, <1>3, <1>6, <1>8, <1>9, <1>10 DEF Exited, d
<1> QED BY <1>0, <1>11

(* The descriptors that the exit closes, and the table it leaves.          *)
LEMMA ExitFds ==
  ASSUME NEW w, Typed(w), FdSound(w.fds, FdOf(w)),
         NEW c \in Clients, w.client[c].fd # -1, NEW v, Exited(w, v, c),
         \A l \in Listeners : w.listener[l].active <=> w.listener[l].fd # -1
  PROVE  /\ v.fds \in Tables
         /\ \A f \in Fds : v.fds.tab[f] = IF f = w.client[c].fd \/ f \in IdentFds(w, c)
                                          THEN ClosedEntry ELSE w.fds.tab[f]
         /\ FdSound(v.fds, FdOf(v))
         /\ \A l \in Listeners : v.listener[l].fd = w.listener[l].fd
                                 /\ v.listener[l].active = w.listener[l].active
<1> DEFINE S == IdentFds(w, c)
           f == w.client[c].fd
           F == CloseAll(w.fds, S)
           h == FdOf(w)
           G == fd_close(F, f)
<1>1. /\ w.fds \in Tables /\ w.client \in [Clients -> ClientBlocks]
      /\ w.request \in [Requests -> RequestBlocks] /\ w.listener \in [Listeners -> ListenerBlocks]
      /\ w.polled \in SUBSET Requests
  BY DEF Typed
<1>2. OwnFds(w)
  BY FdsOwned
<1>3. S \subseteq OpenFds(w.fds) /\ f \in Fds /\ w.fds.tab[f].open /\ f \notin S
  <2>1. \A g \in S : \E a \in Requests : w.request[a].fd = g /\ g # -1
    BY <1>1 DEF IdentFds, RequestsOf
  <2>2. f \in Fds /\ w.fds.tab[f].open
    BY <1>2 DEF OwnFds
  <2> QED BY <1>2, <2>1, <2>2 DEF OwnFds, OpenFds
<1>4. h \in [Objects -> Fds \cup {-1}]
  BY FdOfObjects
<1>5. F \in Tables /\ F.tab = [g \in Fds |-> IF g \in S THEN ClosedEntry ELSE w.fds.tab[g]]
      /\ FdSound(F, Without(h, S))
  <2> HIDE DEF S, h
  <2> QED BY <1>1, <1>3, <1>4, FdCloseAll DEF h
<1>6. Without(h, S) \in [Objects -> Fds \cup {-1}]
  BY <1>4 DEF Without
<1>7. F.tab[f].open
  BY <1>3, <1>5
<1> HIDE DEF F
<1>8. G \in Tables /\ G.tab = [F.tab EXCEPT ![f] = ClosedEntry]
      /\ FdSound(G, Without(Without(h, S), {f}))
  <2> HIDE DEF S, h, f
  <2> QED BY <1>3, <1>5, <1>6, <1>7, FdClose
<1>9. v.fds = G
  BY DEF Exited, F
<1> HIDE DEF G
<1>10. \A g \in Fds : G.tab[g] = IF g = f \/ g \in S THEN ClosedEntry ELSE w.fds.tab[g]
  BY <1>5, <1>8
<1>11. \A l \in Listeners : v.listener[l].fd = w.listener[l].fd
                            /\ v.listener[l].active = w.listener[l].active
  <2> TAKE l \in Listeners
  <2>1. v.listener[l] = LeftListener(w, c, l)
    BY DEF Exited
  <2>2. w.listener[l] \in ListenerBlocks
    BY <1>1
  <2>3. w.listener[l].active \in BOOLEAN /\ (w.listener[l].active <=> w.listener[l].fd # -1)
    BY <2>2 DEF ListenerBlocks
  <2>4. CASE l = w.client[c].listener /\ w.listener[l].refs = 1 /\ ~w.listener[l].active
    <3>1. v.listener[l] = FreeListener
      BY <2>1, <2>4 DEF LeftListener
    <3>2. w.listener[l].fd = -1 /\ w.listener[l].active = FALSE
      BY <2>3, <2>4
    <3>3. FreeListener.fd = -1 /\ FreeListener.active = FALSE
      BY DEF FreeListener
    <3> QED BY <3>1, <3>2, <3>3, Zenon
  <2>5. CASE l = w.client[c].listener /\ ~(w.listener[l].refs = 1 /\ ~w.listener[l].active)
    <3>1. v.listener[l] = [w.listener[l] EXCEPT !.refs = @ - 1]
      BY <2>1, <2>5 DEF LeftListener
    <3> QED BY <2>2, <3>1 DEF ListenerBlocks
  <2>6. CASE l # w.client[c].listener
    BY <2>1, <2>6 DEF LeftListener
  <2> QED BY <2>4, <2>5, <2>6
<1>12. FdOf(v) = Without(Without(h, S), {f})
  <2> DEFINE k == Without(Without(h, S), {f})
  <2>1. k \in [Objects -> Fds \cup {-1}]
        /\ \A x \in Objects : k[x] = IF h[x] \in S \/ h[x] = f THEN -1 ELSE h[x]
    BY <1>4 DEF Without
  <2>2. /\ \A b \in Clients : h[b] = w.client[b].fd /\ b \in Objects
        /\ \A a \in Requests : h[a] = w.request[a].fd /\ a \in Objects
        /\ \A l \in Listeners : h[l] = w.listener[l].fd /\ l \in Objects
    BY FdOfObjects DEF Objects
  <2> HIDE DEF k, h
  <2>3. \A g \in S : \E a \in RequestsOf(w, c) : w.request[a].fd = g /\ g # -1
    BY DEF IdentFds
  <2>4. RequestsOf(w, c) \subseteq Requests
    BY <1>1 DEF RequestsOf
  <2>5. \A b \in Clients : v.client[b].fd = k[b]
    <3> TAKE b \in Clients
    <3>1. CASE b = c
      BY <2>1, <2>2, <3>1 DEF Exited
    <3>2. CASE b # c
      <4>1. w.client[b].fd # f
        BY <1>2, <3>2 DEF OwnFds
      <4>2. w.client[b].fd \notin S
        BY <1>2, <2>3, <2>4 DEF OwnFds
      <4> QED BY <2>1, <2>2, <3>2, <4>1, <4>2 DEF Exited
    <3> QED BY <3>1, <3>2
  <2>6. \A a \in Requests : v.request[a].fd = k[a]
    <3> TAKE a \in Requests
    <3>1. w.request[a].fd # f
      BY <1>2 DEF OwnFds
    <3>2. v.request[a] = IF a \in RequestsOf(w, c) THEN FreeRequest ELSE w.request[a]
      BY DEF Exited
    <3>3. CASE a \in RequestsOf(w, c)
      <4>1. w.request[a].fd = -1 \/ w.request[a].fd \in S
        <5>1. w.request[a].fd \in Fds \cup {-1}
          BY <1>1 DEF RequestBlocks
        <5>2. w.request[a].fd # -1 => w.request[a].fd >= 0
          BY <5>1, FdFacts
        <5> QED BY <3>3, <5>2 DEF IdentFds
      <4> QED BY <2>1, <2>2, <3>1, <3>2, <3>3, <4>1 DEF FreeRequest
    <3>4. CASE a \notin RequestsOf(w, c)
      <4>1. w.request[a].fd \notin S
        BY <1>2, <2>3, <2>4, <3>4 DEF OwnFds
      <4> QED BY <2>1, <2>2, <3>1, <3>2, <3>4, <4>1
    <3> QED BY <3>3, <3>4
  <2>7. \A l \in Listeners : v.listener[l].fd = k[l]
    <3> TAKE l \in Listeners
    <3>1. w.listener[l].fd # f /\ w.listener[l].fd \notin S
      BY <1>2, <2>3, <2>4 DEF OwnFds
    <3> QED BY <1>11, <2>1, <2>2, <3>1
  <2>8. FdOf(v) = k
    BY <2>1, <2>5, <2>6, <2>7, FdOfIs
  <2> QED BY <2>8 DEF k, h
<1> QED BY <1>8, <1>9, <1>10, <1>11, <1>12

(* A world after an exit is sound, and the client is not excused any more. *)
LEMMA ExitSound ==
  ASSUME NEW w, NEW X \in SUBSET Objects, Sound(w, X),
         NEW c \in Clients, w.client[c].status \in Live, NEW v, Exited(w, v, c)
  PROVE  Sound(v, X \ {c})
<1> DEFINE S == IdentFds(w, c)
           g == w.client[c].fd
           R == RequestsOf(w, c)
<1>1. /\ Typed(w) /\ FdSound(w.fds, FdOf(w)) /\ OwnFds(w)
      /\ w.fds \in Tables /\ w.client \in [Clients -> ClientBlocks]
      /\ w.request \in [Requests -> RequestBlocks] /\ w.polled \in SUBSET Requests
      /\ w.listener \in [Listeners -> ListenerBlocks] /\ w.queries \in SUBSET QueryBlocks
  BY SoundParts
<1>2. /\ \A f \in Fds : EntrySound(w, f, w.fds.tab[f])
      /\ \A f \in Fds : w.fds.tab[f].write = TryConnect /\ w.fds.tab[f].connect = NULL =>
              Excused(w, X, f)
      /\ \A a \in Requests : RequestSound(w, X, a)
      /\ QueriesSound(w)
      /\ IsInjective(w.clients)
      /\ \A d \in Clients : ClientSound(w, X, d)
      /\ \A d \in Clients \ X : Armed(w, d)
      /\ \A l \in Listeners : ListenerSound(w, l)
  BY SoundParts
<1>3. g # -1
  BY <1>2 DEF ClientSound
<1>4. /\ v.fds \in Tables
      /\ \A f \in Fds : v.fds.tab[f] = IF f = g \/ f \in S THEN ClosedEntry ELSE w.fds.tab[f]
      /\ FdSound(v.fds, FdOf(v))
      /\ \A l \in Listeners : v.listener[l].fd = w.listener[l].fd
                              /\ v.listener[l].active = w.listener[l].active
  <2>1. \A l \in Listeners : w.listener[l].active <=> w.listener[l].fd # -1
    BY <1>2 DEF ListenerSound
  <2> QED BY <1>1, <1>3, <2>1, ExitFds
<1>5. /\ IsWorld(v) /\ v.client \in [Clients -> ClientBlocks]
      /\ v.client[c].status = "exited" /\ v.client[c].fd = -1 /\ v.client[c].listener = NULL
      /\ v.client[c].dns = w.client[c].dns /\ v.client[c].dead = TRUE
      /\ \A b \in Clients : b # c => v.client[b] = w.client[b]
      /\ v.unknown = w.unknown \ {c} /\ v.count \in Int
      /\ v.clients = w.clients /\ v.exited = w.exited \cup {c}
      /\ \A a \in Requests : v.request[a] = IF a \in R THEN FreeRequest ELSE w.request[a]
      /\ v.polled = w.polled \ R
      /\ v.queries = {q \in w.queries : w.client[c].dns = "pending" => q.owner # c}
      /\ v.listener = [l \in Listeners |-> LeftListener(w, c, l)]
  BY DEF Exited
<1>6. \A d : Released(v, d) <=> Released(w, d)
  BY <1>5 DEF Released
<1>7. /\ R \subseteq Requests
      /\ \A a \in Requests : a \in R <=> w.request[a].client = c
      /\ \A f : f \in S => \E a \in R : w.request[a].fd = f /\ f # -1
      /\ \A a \in R : w.request[a].fd # -1 => w.request[a].fd \in S
  <2>1. R \subseteq Requests /\ \A a \in Requests : a \in R <=> w.request[a].client = c
    BY <1>1, <1>2, Distinct DEF RequestsOf, RequestSound
  <2>2. \A f : f \in S => \E a \in R : w.request[a].fd = f /\ f # -1
    BY DEF IdentFds
  <2>3. \A a \in R : w.request[a].fd # -1 => w.request[a].fd \in S
    BY <1>1, <2>1, FdFacts DEF IdentFds, OwnFds
  <2> QED BY <2>1, <2>2, <2>3
<1>8. \A d \in Clients : d # c /\ w.client[d].fd # -1 =>
        w.client[d].fd # g /\ w.client[d].fd \notin S
        /\ v.fds.tab[w.client[d].fd] = w.fds.tab[w.client[d].fd]
  <2> TAKE d \in Clients
  <2> HAVE d # c /\ w.client[d].fd # -1
  <2>1. w.client[d].fd \in Fds /\ w.client[d].fd # g
    BY <1>1 DEF OwnFds
  <2>2. w.client[d].fd \notin S
    BY <1>1, <1>7 DEF OwnFds
  <2> QED BY <1>4, <2>1, <2>2
<1> HIDE DEF S, g, R
<1>9. Typed(v)
  <2>1. v.request \in [Requests -> RequestBlocks]
    <3>1. FreeRequest \in RequestBlocks
      BY DEF FreeRequest, RequestBlocks
    <3> QED BY <1>1, <3>1 DEF Exited
  <2>2. ASSUME NEW l \in Listeners PROVE LeftListener(w, c, l) \in ListenerBlocks
    <3>0. w.listener[l] \in ListenerBlocks /\ w.listener[l].refs \in Nat
      BY <1>1 DEF ListenerBlocks
    <3>1. FreeListener \in ListenerBlocks
      BY DEF FreeListener, ListenerBlocks
    <3>2. l = w.client[c].listener => w.listener[l].refs - 1 \in Nat
      <4> HAVE l = w.client[c].listener
      <4>1. c \in ReferencesOf(w, l)
        BY DEF ReferencesOf
      <4>2. Cardinality(ReferencesOf(w, l)) # 0 /\ Cardinality(ReferencesOf(w, l)) \in Nat
        BY <4>1, ReferencesFinite, FS_EmptySet
      <4>3. w.listener[l].refs >= Cardinality(ReferencesOf(w, l))
        BY <1>2 DEF ListenerSound
      <4> QED BY <3>0, <4>2, <4>3
    <3>3. l = w.client[c].listener => [w.listener[l] EXCEPT !.refs = @ - 1] \in ListenerBlocks
      BY <3>0, <3>2 DEF ListenerBlocks
    <3> QED BY <3>0, <3>1, <3>3 DEF LeftListener
  <2>3. v.listener \in [Listeners -> ListenerBlocks]
    BY <1>5, <2>2
  <2>4. /\ v.unknown \in SUBSET Clients /\ v.clients \in Seq(Clients) /\ v.exited \in SUBSET Clients
        /\ v.polled \in SUBSET Requests /\ v.queries \in SUBSET QueryBlocks
    BY <1>1, <1>5 DEF Typed
  <2> QED BY <1>4, <1>5, <2>1, <2>3, <2>4 DEF Typed
<1>10. EntriesSound(v, X \ {c})
  <2> SUFFICES ASSUME NEW f \in Fds
               PROVE  /\ EntrySound(v, f, v.fds.tab[f])
                      /\ v.fds.tab[f].write = TryConnect /\ v.fds.tab[f].connect = NULL =>
                           Excused(v, X \ {c}, f)
    BY DEF EntriesSound
  <2>1. CASE f = g \/ f \in S
    <3>1. v.fds.tab[f] = ClosedEntry
      BY <1>4, <2>1
    <3>2. ClosedEntry.write # TryConnect
      BY Distinct DEF ClosedEntry, TryConnect, Callbacks
    <3> QED BY <3>1, <3>2, ClosedSound
  <2>2. CASE f # g /\ f \notin S
    <3>1. v.fds.tab[f] = w.fds.tab[f]
      BY <1>4, <2>2
    <3>2. \A a \in Requests : w.request[a].fd = f => v.request[a] = w.request[a]
      BY <1>5, <1>7, <2>2, Distinct
    <3>3. \A d \in Clients : w.client[d].fd = f => v.client[d] = w.client[d] /\ d # c
      BY <1>5, <2>2 DEF g
    <3>4. EntrySound(v, f, v.fds.tab[f])
      BY <1>2, <1>4, <1>6, <3>1, <3>2, <3>3, EntryKept
    <3>5. ASSUME Excused(w, X, f) PROVE Excused(v, X \ {c}, f)
      <4>1. ASSUME NEW x \in X, FdOf(w)[x] = f 
                    PROVE  x # c /\ FdOf(v)[x] = f /\ (x \in Clients => v.client[x] = w.client[x])
        <5>1. \/ x \in Clients /\ w.client[x].fd = f /\ FdOf(v)[x] = v.client[x].fd
              \/ x \in Requests /\ w.request[x].fd = f /\ FdOf(v)[x] = v.request[x].fd
              \/ x \in Listeners /\ w.listener[x].fd = f /\ FdOf(v)[x] = v.listener[x].fd
          BY <1>1, <1>9, <4>1, FdOfObjects DEF Objects
        <5> QED BY <1>4, <3>2, <3>3, <5>1, Distinct
      <4> QED BY <3>5, <4>1 DEF Excused
    <3> QED BY <1>2, <3>1, <3>4, <3>5
  <2> QED BY <2>1, <2>2
<1>11. RequestsSound(v, X \ {c})
  <2> SUFFICES ASSUME NEW a \in Requests PROVE RequestSound(v, X \ {c}, a)
    BY DEF RequestsSound
  <2>1. CASE a \in R
    <3>1. v.request[a] = FreeRequest /\ a \notin v.polled
      BY <1>5, <2>1
    <3> QED BY <3>1 DEF RequestSound, FreeRequest
  <2>2. CASE a \notin R
    <3> DEFINE b == w.request[a].client
    <3>1. v.request[a] = w.request[a] /\ b # c /\ (a \in v.polled <=> a \in w.polled)
      BY <1>5, <1>7, <2>2
    <3>2. RequestSound(w, X, a)
      BY <1>2
    <3>3. b \in Clients \cup {NULL}
      BY <1>1 DEF RequestBlocks
    <3>4. CASE b = NULL
      BY <3>1, <3>2, <3>4 DEF RequestSound
    <3>5. CASE b # NULL
      <4>1. b \in Clients /\ v.client[b] = w.client[b] /\ w.client[b].status = "unknown"
        BY <1>5, <3>1, <3>2, <3>3, <3>5 DEF RequestSound
      <4>2. w.client[b].fd # -1
        BY <1>2, <4>1 DEF ClientSound, Live
      <4>3. TryAllSet(v, b) <=> TryAllSet(w, b)
        BY <1>8, <3>1, <4>1, <4>2 DEF TryAllSet
      <4>4. \A z \in Requests : v.request[z].client = b => w.request[z].client = b
        BY <1>5, <3>5 DEF FreeRequest
      <4>5. a # c
        BY Distinct
      <4> QED BY <1>6, <3>1, <3>2, <3>5, <4>1, <4>3, <4>4, <4>5 DEF RequestSound
    <3> QED BY <3>4, <3>5
  <2> QED BY <2>1, <2>2
<1>12. QueriesSound(v)
  <2>0. /\ \A q \in w.queries : QuerySound(w, q)
        /\ \A q, r \in w.queries : q.owner = r.owner /\ q.owner # NULL => q = r
        /\ \A d \in Clients : Queried(w, d) <=> w.client[d].dns = "pending" /\ d \notin w.exited
    BY <1>2 DEF QueriesSound
  <2>1. c \notin w.exited
    BY <1>2 DEF ClientSound, Live
  <2>2. \A q \in w.queries : q \in v.queries <=> q.owner # c
    BY <1>5, <2>0, <2>1 DEF Queried
  <2>3. v.queries \subseteq w.queries
    BY <1>5
  <2>4. ASSUME NEW q \in v.queries PROVE QuerySound(v, q)
    <3>1. q \in w.queries /\ q.owner # c /\ QuerySound(w, q)
      BY <2>0, <2>2, <2>3
    <3>2. CASE q.callback = "auth_dns_callback"
      <4>1. q.ptr \in Requests /\ q.owner \in Clients
            /\ w.request[q.ptr].client = q.owner /\ w.request[q.ptr].dns
        BY <3>1, <3>2 DEF QuerySound
      <4>2. v.request[q.ptr] = w.request[q.ptr]
        BY <1>5, <1>7, <3>1, <4>1
      <4> QED BY <3>2, <4>1, <4>2 DEF QuerySound
    <3>3. CASE q.callback = "lookup_dns_callback"
      <4>1. q.ptr = q.owner /\ q.owner \in Clients /\ w.client[q.owner].status = "unknown"
            /\ ~Released(w, q.owner) /\ ~Asked(w, q.owner) /\ ~TryAllSet(w, q.owner)
        BY <3>1, <3>3 DEF QuerySound
      <4>2. v.client[q.owner] = w.client[q.owner] /\ w.client[q.owner].fd # -1
        BY <1>2, <1>5, <3>1, <4>1 DEF ClientSound, Live
      <4>3. ~TryAllSet(v, q.owner)
        BY <1>8, <3>1, <4>1, <4>2 DEF TryAllSet
      <4>4. ~Asked(v, q.owner)
        <5>1. FreeRequest.client = NULL /\ q.owner # NULL
          BY <4>1, Distinct DEF FreeRequest
        <5> QED BY <1>5, <4>1, <5>1 DEF Asked
      <4> QED BY <1>6, <3>3, <4>1, <4>2, <4>3, <4>4 DEF QuerySound
    <3>4. CASE q.callback = "comm_connect_dns_callback"
      BY <3>1, <3>4 DEF QuerySound
    <3> QED BY <3>1, <3>2, <3>3, <3>4 DEF QuerySound
  <2>5. \A q, r \in v.queries : q.owner = r.owner /\ q.owner # NULL => q = r
    BY <2>0, <2>3
  <2>6. ASSUME NEW d \in Clients
        PROVE  Queried(v, d) <=> v.client[d].dns = "pending" /\ d \notin v.exited
    <3>1. CASE d = c
      BY <1>5, <2>2, <2>3, <3>1 DEF Queried
    <3>2. CASE d # c
      BY <1>5, <2>0, <2>2, <2>3, <3>2 DEF Queried
    <3> QED BY <3>1, <3>2
  <2> QED BY <2>4, <2>5, <2>6 DEF QueriesSound
<1>13. ClientsSound(v, X \ {c})
  <2>1. IsInjective(v.clients)
    BY <1>2, <1>5
  <2>2. ClientSound(v, X \ {c}, c)
    BY <1>5 DEF ClientSound, Live
  <2>3. ASSUME NEW d \in Clients, d # c PROVE ClientSound(v, X \ {c}, d)
    <3>1. v.client[d] = w.client[d] /\ ClientSound(w, X, d)
      BY <1>2, <1>5, <2>3
    <3>2. w.client[d].status = "connecting" => v.fds.tab[w.client[d].fd] = w.fds.tab[w.client[d].fd]
      BY <1>8, <2>3, <3>1 DEF ClientSound, Live
    <3>3. /\ d \in v.exited <=> d \in w.exited
          /\ d \in v.unknown <=> d \in w.unknown
          /\ Released(v, d) <=> Released(w, d)
          /\ d \in X \ {c} <=> d \in X
      BY <1>5, <1>6, <2>3
    <3> QED BY <3>1, <3>2, <3>3 DEF ClientSound
  <2> QED BY <2>1, <2>2, <2>3 DEF ClientsSound
<1>14. AllArmed(v, X \ {c})
  <2>1. Armed(v, c)
    BY <1>5 DEF Armed, Live
  <2>2. ASSUME NEW d \in Clients, d \notin X, d # c PROVE Armed(v, d)
    <3>1. v.client[d] = w.client[d] /\ Armed(w, d) /\ ClientSound(w, X, d)
      BY <1>2, <1>5, <2>2
    <3>2. w.client[d].status \in Live => v.fds.tab[w.client[d].fd] = w.fds.tab[w.client[d].fd]
      BY <1>8, <2>2, <3>1 DEF ClientSound
    <3>3. DnsQuery(w.client[d].fd) \in w.queries => DnsQuery(w.client[d].fd) \in v.queries
      BY <1>5, Distinct DEF DnsQuery
    <3>4. Asked(w, d) => Asked(v, d)
      BY <1>5, <1>7, <2>2 DEF Asked
    <3>5. Queried(w, d) => Queried(v, d)
      BY <1>5, <2>2 DEF Queried
    <3>6. w.client[d].status \in Live => (TryAllSet(w, d) <=> TryAllSet(v, d))
      BY <3>1, <3>2 DEF TryAllSet
    <3> QED BY <1>6, <3>1, <3>2, <3>3, <3>4, <3>5, <3>6 DEF Armed, Live
  <2> QED BY <2>1, <2>2 DEF AllArmed
<1>15. ListenersSound(v)
  <2> SUFFICES ASSUME NEW l \in Listeners PROVE ListenerSound(v, l)
    BY DEF ListenersSound
  <2>0. ListenerSound(w, l) /\ v.listener[l] = LeftListener(w, c, l) /\ w.listener[l] \in ListenerBlocks
    BY <1>1, <1>2, <1>5
  <2>1. ReferencesOf(v, l) = ReferencesOf(w, l) \ {c}
    BY <1>5, Distinct DEF ReferencesOf
  <2>2. v.listener[l].active <=> v.listener[l].fd # -1
    BY <1>4, <2>0 DEF ListenerSound
  <2>3. CASE l # w.client[c].listener
    <3>1. v.listener[l] = w.listener[l]
      BY <2>0, <2>3 DEF LeftListener
    <3>2. ReferencesOf(v, l) = ReferencesOf(w, l)
      BY <2>1, <2>3 DEF ReferencesOf
    <3> QED BY <2>0, <3>1, <3>2 DEF ListenerSound
  <2>4. CASE l = w.client[c].listener
    <3>1. c \in ReferencesOf(w, l)
      BY <2>4 DEF ReferencesOf
    <3>2. Cardinality(ReferencesOf(v, l)) = Cardinality(ReferencesOf(w, l)) - 1
      <4>1. IsFiniteSet(ReferencesOf(w, l))
        BY ReferencesFinite
      <4>2. Cardinality(ReferencesOf(w, l) \ {c}) = Cardinality(ReferencesOf(w, l)) - 1
        BY <3>1, <4>1, FS_RemoveElement
      <4> QED BY <2>1, <4>2
    <3>3. w.listener[l].refs \in Nat /\ Cardinality(ReferencesOf(w, l)) \in Nat
          /\ w.listener[l].refs >= Cardinality(ReferencesOf(w, l)) /\ w.listener[l].kind # NULL
      BY <2>0, <3>1, ReferencesFinite DEF ListenerSound, ListenerBlocks
    <3>4. CASE w.listener[l].refs = 1 /\ ~w.listener[l].active
      <4>1. v.listener[l] = FreeListener
        BY <2>0, <2>4, <3>4 DEF LeftListener
      <4>2. Cardinality(ReferencesOf(v, l)) \in Nat /\ Cardinality(ReferencesOf(v, l)) <= 0
        BY <3>2, <3>3, <3>4, ReferencesFinite
      <4>3. ReferencesOf(v, l) = {}
        BY <4>2, ReferencesFinite, FS_EmptySet
      <4>4. FreeListener.refs = 0 /\ FreeListener.fd = -1
        BY DEF FreeListener
      <4> QED BY <2>2, <4>1, <4>2, <4>3, <4>4 DEF ListenerSound
    <3>5. CASE ~(w.listener[l].refs = 1 /\ ~w.listener[l].active)
      <4>1. v.listener[l] = [w.listener[l] EXCEPT !.refs = @ - 1]
        BY <2>0, <2>4, <3>5 DEF LeftListener
      <4>2. v.listener[l].refs = w.listener[l].refs - 1 /\ v.listener[l].kind # NULL
        BY <2>0, <3>3, <4>1 DEF ListenerBlocks
      <4>3. v.listener[l].refs >= Cardinality(ReferencesOf(v, l))
        BY <3>2, <3>3, <4>2
      <4> QED BY <2>2, <4>2, <4>3 DEF ListenerSound
    <3> QED BY <3>4, <3>5
  <2> QED BY <2>3, <2>4
<1> QED BY <1>4, <1>9, <1>10, <1>11, <1>12, <1>13, <1>14, <1>15 DEF Sound

(* exit_client keeps the invariant, and there is nothing left to arm.      *)
LEMMA ExitClient ==
  ASSUME NEW w, NEW X \in SUBSET Objects, Sound(w, X), NEW c \in Clients
  PROVE  Sound(exit_client(w, c), X \ {c})
<1>0. /\ Typed(w) /\ \A d \in Clients : ClientSound(w, X, d)
  BY SoundParts
<1>1. CASE w.client[c].status \in Live
  <2>1. Exited(w, exit_client(w, c), c)
    BY <1>0, <1>1, ExitEffect DEF ClientSound
  <2> QED BY <1>1, <2>1, ExitSound
<1>2. CASE w.client[c].status \notin Live
  <2>0. w.client[c].status \in Statuses
    BY <1>0 DEF Typed, ClientBlocks
  <2>1. exit_client(w, c) = w
    BY <1>2, <2>0 DEF exit_client, Live, Statuses
  <2>2. w.client[c].fd = -1
    BY <1>0, <1>2 DEF ClientSound
  <2>3. FdOf(w)[c] = -1
    BY <1>0, <2>2, FdOfObjects
  <2>4. \A f \in Fds : Excused(w, X, f) => Excused(w, X \ {c}, f)
    BY <2>3, FdFacts DEF Excused
  <2>5. EntriesSound(w, X \ {c})
    BY <2>4 DEF Sound, EntriesSound
  <2>6. RequestsSound(w, X \ {c})
    BY Distinct DEF Sound, RequestsSound, RequestSound
  <2>7. ClientsSound(w, X \ {c})
    <3>1. w.client[c].status # "connecting"
      BY <1>2 DEF Live
    <3> QED BY <3>1 DEF Sound, ClientsSound, ClientSound
  <2>8. AllArmed(w, X \ {c})
    <3>1. Armed(w, c)
      BY <1>2 DEF Armed, Live
    <3> QED BY <3>1 DEF Sound, AllArmed
  <2> QED BY <2>1, <2>5, <2>6, <2>7, <2>8 DEF Sound
<1> QED BY <1>1, <1>2

-----------------------------------------------------------------------------
(* Registrations.                                                          *)

(* G is F but for what is registered on f.                                 *)
Touched(F, G, f) ==
  /\ G \in Tables /\ G.number = F.number /\ G.highest = F.highest
  /\ G.tab[f].open = F.tab[f].open
  /\ \A g \in Fds : g # f => G.tab[g] = F.tab[g]

(* v is w but for the table.                                               *)
SameBlocks(w, v) ==
  /\ IsWorld(v) /\ v.client = w.client /\ v.unknown = w.unknown /\ v.count = w.count
  /\ v.clients = w.clients /\ v.exited = w.exited /\ v.request = w.request
  /\ v.polled = w.polled /\ v.queries = w.queries /\ v.listener = w.listener

(* v is w with other registrations on f, whose owner is the only object    *)
(* that stops being excused.                                               *)
Rewires(w, v, X, Y, f) ==
  /\ SameBlocks(w, v) /\ Touched(w.fds, v.fds, f)
  /\ EntrySound(v, f, v.fds.tab[f])
  /\ v.fds.tab[f].write = TryConnect /\ v.fds.tab[f].connect = NULL => Excused(w, Y, f)
  /\ \A x \in X \ Y : FdOf(w)[x] = f
  /\ \A a \in Requests : a \in X \ Y => w.request[a].dns \/ w.request[a].ident # "no"
  /\ \A c \in Clients : v.fds.tab[f].write = <<"comm_tryall_callback", c>> =>
                         w.fds.tab[f].write = <<"comm_tryall_callback", c>>
  /\ \A c \in Clients \ Y : w.client[c].fd = f =>
       /\ Armed(v, c)
       /\ w.client[c].status = "connecting" =>
            v.fds.tab[f].connect = <<"serv_connect_callback", c>>

(* New registrations on one descriptor keep a world sound.                 *)
LEMMA Rewired ==
  ASSUME NEW w, NEW X \in SUBSET Objects, NEW Y \in SUBSET Objects, Sound(w, X),
         NEW v, NEW f \in Fds, Rewires(w, v, X, Y, f)
  PROVE  Sound(v, Y)
<1>0. /\ SameBlocks(w, v) /\ Touched(w.fds, v.fds, f)
      /\ EntrySound(v, f, v.fds.tab[f])
      /\ v.fds.tab[f].write = TryConnect /\ v.fds.tab[f].connect = NULL => Excused(w, Y, f)
      /\ \A x \in X \ Y : FdOf(w)[x] = f
      /\ \A a \in Requests : a \in X \ Y => w.request[a].dns \/ w.request[a].ident # "no"
      /\ \A c \in Clients : v.fds.tab[f].write = <<"comm_tryall_callback", c>> =>
                             w.fds.tab[f].write = <<"comm_tryall_callback", c>>
      /\ \A c \in Clients \ Y : w.client[c].fd = f =>
           /\ Armed(v, c)
           /\ w.client[c].status = "connecting" =>
                v.fds.tab[f].connect = <<"serv_connect_callback", c>>
  BY DEF Rewires
<1> USE <1>0
<1>1. /\ Typed(w) /\ FdSound(w.fds, FdOf(w)) /\ OwnFds(w)
      /\ w.fds \in Tables /\ w.client \in [Clients -> ClientBlocks]
  BY SoundParts
<1>2. /\ \A g \in Fds : EntrySound(w, g, w.fds.tab[g])
      /\ \A g \in Fds : w.fds.tab[g].write = TryConnect /\ w.fds.tab[g].connect = NULL =>
              Excused(w, X, g)
      /\ \A a \in Requests : RequestSound(w, X, a)
      /\ QueriesSound(w)
      /\ IsInjective(w.clients)
      /\ \A d \in Clients : ClientSound(w, X, d)
      /\ \A d \in Clients \ X : Armed(w, d)
      /\ \A l \in Listeners : ListenerSound(w, l)
  BY SoundParts
<1>3. /\ v.client = w.client /\ v.unknown = w.unknown /\ v.clients = w.clients
      /\ v.exited = w.exited /\ v.request = w.request
      /\ v.polled = w.polled /\ v.queries = w.queries /\ v.listener = w.listener
  BY DEF SameBlocks
<1>4. /\ v.fds \in Tables /\ v.fds.number = w.fds.number /\ v.fds.highest = w.fds.highest
      /\ v.fds.tab[f].open = w.fds.tab[f].open
      /\ \A g \in Fds : g # f => v.fds.tab[g] = w.fds.tab[g]
  BY DEF Touched
<1>5. Typed(v)
  BY <1>1, <1>3, <1>4 DEF Typed, SameBlocks
<1>6. FdOf(v) = FdOf(w)
  BY <1>3 DEF FdOf
<1>7. FdSound(v.fds, FdOf(v))
  <2>1. \A g \in Fds : v.fds.tab[g].open = w.fds.tab[g].open
    BY <1>4
  <2> QED BY <1>1, <1>4, <1>6, <2>1, FdSame
<1>8. \A d : Released(v, d) <=> Released(w, d)
  BY <1>3 DEF Released
<1>9. \A d \in Clients : w.client[d].fd # -1 /\ TryAllSet(v, d) => TryAllSet(w, d)
  <2> TAKE d \in Clients
  <2> HAVE w.client[d].fd # -1 /\ TryAllSet(v, d)
  <2>1. w.client[d].fd \in Fds
    BY <1>1 DEF OwnFds
  <2>2. CASE w.client[d].fd = f
    BY <1>3, <2>2 DEF TryAllSet
  <2>3. CASE w.client[d].fd # f
    BY <1>3, <1>4, <2>1, <2>3 DEF TryAllSet
  <2> QED BY <2>2, <2>3
<1>10. EntriesSound(v, Y)
  <2> SUFFICES ASSUME NEW g \in Fds
               PROVE  /\ EntrySound(v, g, v.fds.tab[g])
                      /\ v.fds.tab[g].write = TryConnect /\ v.fds.tab[g].connect = NULL =>
                           Excused(v, Y, g)
    BY DEF EntriesSound
  <2>1. CASE g = f
    BY <1>3, <1>6, <2>1 DEF Excused
  <2>2. CASE g # f
    <3>1. v.fds.tab[g] = w.fds.tab[g]
      BY <1>4, <2>2
    <3>2. EntrySound(v, g, v.fds.tab[g])
      BY <1>2, <1>3, <1>8, <3>1, EntryKept
    <3>3. Excused(w, X, g) => Excused(v, Y, g)
      BY <1>3, <1>6, <2>2 DEF Excused
    <3> QED BY <1>2, <3>1, <3>2, <3>3
  <2> QED BY <2>1, <2>2
<1>11. RequestsSound(v, Y)
  <2> SUFFICES ASSUME NEW a \in Requests PROVE RequestSound(v, Y, a)
    BY DEF RequestsSound
  <2>1. RequestSound(w, X, a)
    BY <1>2
  <2>2. w.request[a].client # NULL => w.client[w.request[a].client].fd # -1 /\ w.request[a].client \in Clients
    BY <1>1, <1>2, <2>1 DEF RequestSound, ClientSound, Live, Typed, RequestBlocks
  <2> QED BY <1>3, <1>8, <1>9, <2>1, <2>2 DEF RequestSound
<1>12. QueriesSound(v)
  <2>1. ASSUME NEW q \in v.queries PROVE QuerySound(v, q)
    <3>1. QuerySound(w, q)
      BY <1>2, <1>3 DEF QueriesSound
    <3>2. CASE q.callback = "lookup_dns_callback"
      <4>1. q.owner \in Clients /\ w.client[q.owner].status = "unknown" /\ ~TryAllSet(w, q.owner)
        BY <3>1, <3>2 DEF QuerySound
      <4>2. ~TryAllSet(v, q.owner)
        BY <1>2, <1>9, <4>1 DEF ClientSound, Live
      <4>3. Asked(v, q.owner) <=> Asked(w, q.owner)
        BY <1>3 DEF Asked
      <4> QED BY <1>3, <1>8, <3>1, <3>2, <4>2, <4>3 DEF QuerySound
    <3>3. CASE q.callback # "lookup_dns_callback"
      BY <1>3, <3>1, <3>3 DEF QuerySound
    <3> QED BY <3>2, <3>3
  <2> QED BY <1>2, <1>3, <2>1 DEF QueriesSound, Queried
<1>13. ClientsSound(v, Y)
  <2>1. ASSUME NEW d \in Clients PROVE ClientSound(v, Y, d)
    <3>1. ClientSound(w, X, d)
      BY <1>2
    <3>2. ASSUME w.client[d].status = "connecting", d \notin Y
          PROVE  v.fds.tab[w.client[d].fd].connect = <<"serv_connect_callback", d>>
      <4>1. CASE w.client[d].fd = f
        BY <3>2, <4>1
      <4>2. CASE w.client[d].fd # f
        <5>1. d \notin X
          BY <1>1, <3>2, <4>2, FdOfObjects
        <5>2. w.client[d].fd \in Fds
          BY <1>1, <3>1, <3>2 DEF ClientSound, Live, OwnFds
        <5> QED BY <1>4, <3>1, <3>2, <4>2, <5>1, <5>2 DEF ClientSound
      <4> QED BY <4>1, <4>2
    <3> QED BY <1>3, <1>8, <3>1, <3>2 DEF ClientSound
  <2> QED BY <1>2, <1>3, <2>1 DEF ClientsSound
<1>14. AllArmed(v, Y)
  <2> SUFFICES ASSUME NEW d \in Clients \ Y PROVE Armed(v, d)
    BY DEF AllArmed
  <2>1. CASE w.client[d].fd = f
    BY <2>1
  <2>2. CASE w.client[d].fd # f
    <3>1. d \notin X
      BY <1>1, <2>2, FdOfObjects
    <3>2. Armed(w, d) /\ ClientSound(w, X, d)
      BY <1>2, <3>1
    <3>3. w.client[d].status \in Live => v.fds.tab[w.client[d].fd] = w.fds.tab[w.client[d].fd]
      BY <1>1, <1>4, <2>2, <3>2 DEF ClientSound, OwnFds
    <3>4. (Asked(w, d) <=> Asked(v, d)) /\ (Queried(w, d) <=> Queried(v, d))
      BY <1>3 DEF Asked, Queried
    <3>5. w.client[d].status \in Live => (TryAllSet(w, d) <=> TryAllSet(v, d))
      BY <1>3, <3>3 DEF TryAllSet
    <3> QED BY <1>3, <1>8, <3>2, <3>3, <3>4, <3>5 DEF Armed, Live
  <2> QED BY <2>1, <2>2
<1>15. ListenersSound(v)
  <2>1. \A l \in Listeners : ReferencesOf(v, l) = ReferencesOf(w, l)
    BY <1>3 DEF ReferencesOf
  <2> QED BY <1>2, <1>3, <2>1 DEF ListenersSound, ListenerSound
<1> QED BY <1>5, <1>7, <1>10, <1>11, <1>12, <1>13, <1>14, <1>15 DEF Sound

(* The setters.                                                            *)
LEMMA SetReadTouches ==
  ASSUME NEW F \in Tables, NEW f \in Fds, NEW h \in Handles
  PROVE  /\ Touched(F, SetRead(F, f, h), f)
         /\ SetRead(F, f, h).tab[f].read = h
         /\ SetRead(F, f, h).tab[f].write = F.tab[f].write
         /\ SetRead(F, f, h).tab[f].connect = F.tab[f].connect
         /\ SetRead(F, f, h).tab[f].flush = F.tab[f].flush
         /\ SetRead(F, f, h).tab[f].timer = F.tab[f].timer
BY DEF SetRead, Touched, Tables, Entries

(* comm_setselect for writing changes one registration.                    *)
LEMMA SetWriteTouches ==
  ASSUME NEW F \in Tables, NEW f \in Fds, NEW h \in Handles
  PROVE  /\ Touched(F, SetWrite(F, f, h), f)
         /\ SetWrite(F, f, h).tab[f].write = h
         /\ SetWrite(F, f, h).tab[f].read = F.tab[f].read
         /\ SetWrite(F, f, h).tab[f].connect = F.tab[f].connect
         /\ SetWrite(F, f, h).tab[f].flush = F.tab[f].flush
         /\ SetWrite(F, f, h).tab[f].timer = F.tab[f].timer
BY DEF SetWrite, Touched, Tables, Entries

(* comm_setflush changes one registration.                                 *)
LEMMA SetFlushTouches ==
  ASSUME NEW F \in Tables, NEW f \in Fds, NEW h \in Handles
  PROVE  /\ Touched(F, SetFlush(F, f, h), f)
         /\ SetFlush(F, f, h).tab[f].flush = h
         /\ SetFlush(F, f, h).tab[f].read = F.tab[f].read
         /\ SetFlush(F, f, h).tab[f].write = F.tab[f].write
         /\ SetFlush(F, f, h).tab[f].connect = F.tab[f].connect
         /\ SetFlush(F, f, h).tab[f].timer = F.tab[f].timer
BY DEF SetFlush, Touched, Tables, Entries

(* comm_settimeout changes one timer.                                      *)
LEMMA SetTimerTouches ==
  ASSUME NEW F \in Tables, NEW f \in Fds, NEW on \in BOOLEAN
  PROVE  /\ Touched(F, SetTimer(F, f, on), f)
         /\ SetTimer(F, f, on).tab[f].timer = on
         /\ SetTimer(F, f, on).tab[f].flush = F.tab[f].flush
         /\ SetTimer(F, f, on).tab[f].read = F.tab[f].read
         /\ SetTimer(F, f, on).tab[f].write = F.tab[f].write
         /\ SetTimer(F, f, on).tab[f].connect = F.tab[f].connect
BY DEF SetTimer, Touched, Tables, Entries

(* The connect callback is one registration.                               *)
LEMMA SetConnectTouches ==
  ASSUME NEW F \in Tables, NEW f \in Fds, NEW h \in Handles
  PROVE  /\ Touched(F, SetConnect(F, f, h), f)
         /\ SetConnect(F, f, h).tab[f].connect = h
         /\ SetConnect(F, f, h).tab[f].read = F.tab[f].read
         /\ SetConnect(F, f, h).tab[f].write = F.tab[f].write
         /\ SetConnect(F, f, h).tab[f].flush = F.tab[f].flush
         /\ SetConnect(F, f, h).tab[f].timer = F.tab[f].timer
BY DEF SetConnect, Touched, Tables, Entries

(* A world with another table is the same otherwise.                       *)
LEMMA NewTable ==
  ASSUME NEW w, IsWorld(w), NEW F
  PROVE  SameBlocks(w, [w EXCEPT !.fds = F]) /\ [w EXCEPT !.fds = F].fds = F
BY DEF SameBlocks, IsWorld

-----------------------------------------------------------------------------
(* A released client changes its status, or its socket dies.               *)

(* v is w with the status of c or its death noted.                         *)
Restated(w, v, c) ==
  /\ IsWorld(v) /\ v.fds = w.fds /\ v.client \in [Clients -> ClientBlocks]
  /\ v.client[c].fd = w.client[c].fd /\ v.client[c].listener = w.client[c].listener
  /\ v.client[c].dns = w.client[c].dns
  /\ \A d \in Clients : d # c => v.client[d] = w.client[d]
  /\ v.unknown \in SUBSET Clients /\ v.count \in Int
  /\ v.clients = w.clients /\ v.exited = w.exited /\ v.request = w.request
  /\ v.polled = w.polled /\ v.queries = w.queries /\ v.listener = w.listener
  /\ \A d \in Clients : d # c => (d \in v.unknown <=> d \in w.unknown)
  /\ c \in v.unknown <=> v.client[c].status \in {"unknown", "handshake"}
  /\ v.client[c].status \in Live \ {"connecting"}
  /\ ~v.client[c].dead => ~w.client[c].dead

(* Such a step keeps a world sound.  A client that was connecting has had  *)
(* its callback called.                                                    *)
LEMMA RestatedSound ==
  ASSUME NEW w, NEW X \in SUBSET Objects, Sound(w, X), NEW c \in Clients,
         w.client[c].status \in Live, Released(w, c), NEW v, Restated(w, v, c),
         w.client[c].status = "connecting" =>
           /\ c \in X /\ w.fds.tab[w.client[c].fd].connect = NULL
           /\ w.fds.tab[w.client[c].fd].write = TryConnect => ByName
  PROVE  Sound(v, X)
<1>1. /\ Typed(w) /\ FdSound(w.fds, FdOf(w)) /\ OwnFds(w)
      /\ w.fds \in Tables /\ w.client \in [Clients -> ClientBlocks]
      /\ w.request \in [Requests -> RequestBlocks]
  BY SoundParts
<1>2. /\ \A g \in Fds : EntrySound(w, g, w.fds.tab[g])
      /\ \A g \in Fds : w.fds.tab[g].write = TryConnect /\ w.fds.tab[g].connect = NULL =>
              Excused(w, X, g)
      /\ \A a \in Requests : RequestSound(w, X, a)
      /\ QueriesSound(w)
      /\ IsInjective(w.clients)
      /\ \A d \in Clients : ClientSound(w, X, d)
      /\ \A d \in Clients \ X : Armed(w, d)
      /\ \A l \in Listeners : ListenerSound(w, l)
  BY SoundParts
<1>3. /\ v.fds = w.fds /\ v.clients = w.clients /\ v.client \in [Clients -> ClientBlocks]
      /\ v.exited = w.exited /\ v.request = w.request
      /\ v.polled = w.polled /\ v.queries = w.queries /\ v.listener = w.listener
      /\ v.client[c].fd = w.client[c].fd /\ v.client[c].listener = w.client[c].listener
      /\ v.client[c].dns = w.client[c].dns
      /\ v.client[c].status \in Live \ {"connecting"}
      /\ \A d \in Clients : d # c => v.client[d] = w.client[d]
  BY DEF Restated
<1>4. Typed(v)
  BY <1>1, <1>3 DEF Typed, Restated
<1>5. \A d \in Clients : v.client[d].fd = w.client[d].fd /\ v.client[d].listener = w.client[d].listener
                         /\ v.client[d].dns = w.client[d].dns
  BY <1>3
<1>6. FdOf(v) = FdOf(w)
  BY <1>3, <1>5 DEF FdOf
<1>7. FdSound(v.fds, FdOf(v))
  BY <1>1, <1>3, <1>6
<1>8. \A d : Released(v, d) <=> Released(w, d)
  BY <1>3 DEF Released
<1>9. \A d \in Clients : TryAllSet(v, d) <=> TryAllSet(w, d)
  BY <1>3, <1>5 DEF TryAllSet
<1>a. \A d : (Asked(v, d) <=> Asked(w, d)) /\ (Queried(v, d) <=> Queried(w, d))
  BY <1>3 DEF Asked, Queried
<1>10. EntriesSound(v, X)
  <2> SUFFICES ASSUME NEW g \in Fds
               PROVE  /\ EntrySound(v, g, v.fds.tab[g])
                      /\ v.fds.tab[g].write = TryConnect /\ v.fds.tab[g].connect = NULL =>
                           Excused(v, X, g)
    BY DEF EntriesSound
  <2>0. EntrySound(w, g, w.fds.tab[g]) /\ v.fds.tab[g] = w.fds.tab[g]
    BY <1>2, <1>3
  <2>1. CASE g # w.client[c].fd
    <3>1. EntrySound(v, g, v.fds.tab[g])
      <4>1. \A d \in Clients : w.client[d].fd = g =>
              /\ v.client[d].fd = g /\ (Released(v, d) <=> Released(w, d))
              /\ \/ v.client[d].status = w.client[d].status
                 \/ /\ Released(w, d)
                    /\ w.client[d].status # "connecting" /\ v.client[d].status # "connecting"
        BY <1>3, <1>8, <2>1
      <4>2. \A a \in Requests : w.request[a].fd = g =>
              v.request[a].fd = g /\ v.request[a].ident = w.request[a].ident
        BY <1>3
      <4>3. \A l \in Listeners : w.listener[l].fd = g => v.listener[l].fd = g
        BY <1>3
      <4> QED BY <2>0, <4>1, <4>2, <4>3, EntryKept, Zenon
    <3>2. Excused(w, X, g) => Excused(v, X, g)
      <4>1. FdOf(w)[c] # g
        BY <1>1, <2>1, FdOfObjects
      <4> QED BY <1>3, <1>6, <4>1 DEF Excused
    <3> QED BY <1>2, <2>0, <3>1, <3>2
  <2>2. CASE g = w.client[c].fd /\ w.client[c].status # "connecting"
    <3>1. \A d \in Clients : w.client[d].fd = g => d = c
      BY <1>1, <2>2, FdFacts DEF OwnFds
    <3>2. EntrySound(v, g, v.fds.tab[g])
      <4>1. \A d \in Clients : w.client[d].fd = g =>
              /\ v.client[d].fd = g /\ (Released(v, d) <=> Released(w, d))
              /\ \/ v.client[d].status = w.client[d].status
                 \/ /\ Released(w, d)
                    /\ w.client[d].status # "connecting" /\ v.client[d].status # "connecting"
        BY <1>3, <1>8, <2>2, <3>1
      <4>2. \A a \in Requests : w.request[a].fd = g =>
              v.request[a].fd = g /\ v.request[a].ident = w.request[a].ident
        BY <1>3
      <4>3. \A l \in Listeners : w.listener[l].fd = g => v.listener[l].fd = g
        BY <1>3
      <4> QED BY <2>0, <4>1, <4>2, <4>3, EntryKept, Zenon
    <3>3. Excused(w, X, g) => Excused(v, X, g)
      BY <1>3, <1>6, <2>2 DEF Excused
    <3> QED BY <1>2, <2>0, <3>2, <3>3
  <2>3. CASE g = w.client[c].fd /\ w.client[c].status = "connecting"
    <3>1. \A d \in Clients : w.client[d].fd = g => d = c
      BY <1>1, <2>3, FdFacts DEF OwnFds
    <3> DEFINE e == w.fds.tab[g]
    <3>2. e.connect = NULL /\ (e.write = TryConnect => ByName)
      BY <2>3
    <3>3. e.read # NULL => ReadSound(v, g, e.read)
      BY <1>3, <1>5, <1>8, <2>0, <3>1 DEF EntrySound, ReadSound
    <3>4. e.write # NULL => e.write = TryConnect
      BY <2>0, <2>3, <3>1 DEF EntrySound, WriteSound
    <3>5. e.flush # NULL => FlushSound(v, g, e.flush)
      BY <1>5, <1>8, <2>0 DEF EntrySound, FlushSound
    <3>6. EntrySound(v, g, e)
      BY <2>0, <3>2, <3>3, <3>4, <3>5 DEF EntrySound, WriteSound
    <3> QED BY <2>0, <3>2, <3>6 DEF Excused
  <2> QED BY <2>1, <2>2, <2>3
<1>11. RequestsSound(v, X)
  <2> SUFFICES ASSUME NEW a \in Requests PROVE RequestSound(v, X, a)
    BY DEF RequestsSound
  <2>1. RequestSound(w, X, a)
    BY <1>2
  <2>2. w.request[a].client # NULL => w.request[a].client \in Clients /\ w.request[a].client # c
    BY <1>1, <2>1 DEF RequestSound, RequestBlocks
  <2> QED BY <1>3, <1>8, <1>9, <2>1, <2>2 DEF RequestSound
<1>12. QueriesSound(v)
  <2>1. ASSUME NEW q \in v.queries PROVE QuerySound(v, q)
    <3>1. QuerySound(w, q)
      BY <1>2, <1>3 DEF QueriesSound
    <3>2. CASE q.callback = "lookup_dns_callback"
      <4>1. q.owner \in Clients /\ q.owner # c
        BY <3>1, <3>2 DEF QuerySound
      <4> QED BY <1>3, <1>8, <1>9, <1>a, <3>1, <3>2, <4>1 DEF QuerySound
    <3>3. CASE q.callback # "lookup_dns_callback"
      BY <1>3, <3>1, <3>3 DEF QuerySound
    <3> QED BY <3>2, <3>3
  <2> QED BY <1>2, <1>3, <1>5, <1>a, <2>1 DEF QueriesSound
<1>13. ClientsSound(v, X)
  <2>1. ASSUME NEW d \in Clients, d # c PROVE ClientSound(v, X, d)
    <3>1. ClientSound(w, X, d) /\ v.client[d] = w.client[d] /\ (d \in v.unknown <=> d \in w.unknown)
      BY <1>2, <2>1 DEF Restated
    <3> QED BY <1>3, <1>8, <3>1 DEF ClientSound
  <2>2. ClientSound(v, X, c)
    <3>1. ClientSound(w, X, c)
      BY <1>2
    <3>2. w.client[c].status # "exited" /\ w.client[c].fd # -1
      BY <3>1 DEF ClientSound, Live
    <3>3. v.client[c].status \in {"unknown", "handshake", "client", "server"}
          /\ (c \in v.unknown <=> v.client[c].status \in {"unknown", "handshake"})
      BY DEF Restated, Live
    <3> QED BY <1>3, <1>8, <3>1, <3>2, <3>3 DEF ClientSound, Live
  <2> QED BY <1>2, <1>3, <2>1, <2>2 DEF ClientsSound
<1>14. AllArmed(v, X)
  <2> SUFFICES ASSUME NEW d \in Clients \ X PROVE Armed(v, d)
    BY DEF AllArmed
  <2>0. Armed(w, d)
    BY <1>2
  <2>1. CASE d = c
    <3>1. w.client[c].status # "connecting" /\ (~v.client[c].dead => ~w.client[c].dead)
      BY <2>1 DEF Restated
    <3> QED BY <1>3, <1>8, <2>0, <2>1, <3>1 DEF Armed
  <2>2. CASE d # c
    BY <1>3, <1>8, <1>9, <1>a, <2>0, <2>2 DEF Armed
  <2> QED BY <2>1, <2>2
<1>15. ListenersSound(v)
  <2>1. \A l : ReferencesOf(v, l) = ReferencesOf(w, l)
    BY <1>5 DEF ReferencesOf
  <2> QED BY <1>2, <1>3, <2>1 DEF ListenersSound, ListenerSound
<1> QED BY <1>4, <1>7, <1>10, <1>11, <1>12, <1>13, <1>14, <1>15 DEF Sound

-----------------------------------------------------------------------------
(* A change that is local to some objects and descriptors.                 *)

(* v is w but for the clients D, the requests B, the listeners L and the   *)
(* entries of the descriptors G, which those objects owned.                *)
Frame(w, v, D, B, L, G) ==
  /\ \A d \in Clients \ D :
       /\ v.client[d] = w.client[d] /\ (Released(v, d) <=> Released(w, d))
       /\ (d \in v.unknown <=> d \in w.unknown) /\ (d \in v.exited <=> d \in w.exited)
       /\ w.client[d].fd \notin G
  /\ \A d \in D : \/ w.client[d].fd \in G \cup {-1}
                  \/ /\ v.client[d].fd = w.client[d].fd /\ v.client[d].status = w.client[d].status
                     /\ Released(v, d) <=> Released(w, d)
  /\ \A a \in Requests \ B :
       /\ v.request[a] = w.request[a] /\ (a \in v.polled <=> a \in w.polled)
       /\ w.request[a].fd \notin G /\ w.request[a].client \notin D
  /\ \A a \in B : /\ w.request[a].client \in D \cup {NULL} /\ v.request[a].client \in D \cup {NULL}
                  /\ \/ w.request[a].fd \in G \cup {-1}
                     \/ /\ v.request[a].fd = w.request[a].fd
                        /\ v.request[a].ident = w.request[a].ident
  /\ \A l \in Listeners \ L :
       /\ v.listener[l] = w.listener[l] /\ w.listener[l].fd \notin G
       /\ \A d \in D : v.client[d].listener = l <=> w.client[d].listener = l
  /\ \A l \in L : w.listener[l].fd \in G \cup {-1} \/ v.listener[l].fd = w.listener[l].fd
  /\ \A g \in Fds \ G : /\ v.fds.tab[g] = w.fds.tab[g]
                        /\ DnsQuery(g) \in w.queries => DnsQuery(g) \in v.queries
  /\ \A q : q.owner \in Clients \ D => (q \in v.queries <=> q \in w.queries)

(* What is changed is sound.                                               *)
Patched(w, v, X, Y, D, B, L, G) ==
  /\ Typed(v) /\ FdSound(v.fds, FdOf(v)) /\ IsInjective(v.clients)
  /\ \A x \in X \ Y : x \in D \cup B \cup Listeners /\ FdOf(w)[x] \in G \cup {-1}
  /\ \A g \in G :
       /\ EntrySound(v, g, v.fds.tab[g])
       /\ v.fds.tab[g].write = TryConnect /\ v.fds.tab[g].connect = NULL => Excused(v, Y, g)
  /\ \A a \in B : RequestSound(v, Y, a)
  /\ \A q \in v.queries : q.owner \in D \cup {NULL} => QuerySound(v, q)
  /\ \A q, r \in v.queries : q.owner = r.owner /\ q.owner \in D => q = r
  /\ \A c \in D : Queried(v, c) <=> v.client[c].dns = "pending" /\ c \notin v.exited
  /\ \A c \in D : ClientSound(v, Y, c) /\ (c \notin Y => Armed(v, c))
  /\ \A l \in L : ListenerSound(v, l)

(* A step whose changes are sound, and that leaves the rest alone, keeps a *)
(* world sound: the lemma behind every handler below.                      *)
LEMMA Local ==
  ASSUME NEW w, NEW X \in SUBSET Objects, NEW Y \in SUBSET Objects, Sound(w, X), NEW v,
         NEW D \in SUBSET Clients, NEW B \in SUBSET Requests, NEW L \in SUBSET Listeners,
         NEW G \in SUBSET Fds, Frame(w, v, D, B, L, G), Patched(w, v, X, Y, D, B, L, G)
  PROVE  Sound(v, Y)
<1>0. /\ Typed(v) /\ FdSound(v.fds, FdOf(v)) /\ IsInjective(v.clients)
      /\ \A x \in X \ Y : x \in D \cup B \cup Listeners /\ FdOf(w)[x] \in G \cup {-1}
      /\ \A g \in G :
           /\ EntrySound(v, g, v.fds.tab[g])
           /\ v.fds.tab[g].write = TryConnect /\ v.fds.tab[g].connect = NULL => Excused(v, Y, g)
      /\ \A a \in B : RequestSound(v, Y, a)
      /\ \A q \in v.queries : q.owner \in D \cup {NULL} => QuerySound(v, q)
      /\ \A q, r \in v.queries : q.owner = r.owner /\ q.owner \in D => q = r
      /\ \A c \in D : Queried(v, c) <=> v.client[c].dns = "pending" /\ c \notin v.exited
      /\ \A c \in D : ClientSound(v, Y, c) /\ (c \notin Y => Armed(v, c))
      /\ \A l \in L : ListenerSound(v, l)
  BY DEF Patched
<1> USE <1>0
<1>1. /\ Typed(w) /\ OwnFds(w) /\ w.client \in [Clients -> ClientBlocks]
      /\ w.request \in [Requests -> RequestBlocks] /\ w.queries \in SUBSET QueryBlocks
      /\ \A g \in Fds : EntrySound(w, g, w.fds.tab[g])
      /\ \A g \in Fds : w.fds.tab[g].write = TryConnect /\ w.fds.tab[g].connect = NULL =>
              Excused(w, X, g)
  BY SoundParts
<1>2. /\ \A a \in Requests : RequestSound(w, X, a)
      /\ QueriesSound(w)
      /\ \A d \in Clients : ClientSound(w, X, d)
      /\ \A d \in Clients \ X : Armed(w, d)
      /\ \A l \in Listeners : ListenerSound(w, l)
  BY SoundParts
<1>3. \A d \in Clients \ D :
        /\ v.client[d] = w.client[d] /\ (Released(v, d) <=> Released(w, d))
        /\ (d \in v.unknown <=> d \in w.unknown) /\ (d \in v.exited <=> d \in w.exited)
        /\ w.client[d].fd \notin G
  BY DEF Frame
<1>4. \A a \in Requests \ B :
        /\ v.request[a] = w.request[a] /\ (a \in v.polled <=> a \in w.polled)
        /\ w.request[a].fd \notin G /\ w.request[a].client \notin D
  BY DEF Frame
<1>5. \A a \in B : w.request[a].client \in D \cup {NULL} /\ v.request[a].client \in D \cup {NULL}
  BY DEF Frame
<1>6. \A g \in Fds \ G : /\ v.fds.tab[g] = w.fds.tab[g]
                         /\ DnsQuery(g) \in w.queries => DnsQuery(g) \in v.queries
  BY DEF Frame
<1>7. \A q : q.owner \in Clients \ D => (q \in v.queries <=> q \in w.queries)
  BY DEF Frame
<1>8. \A g \in Fds \ G :
        /\ \A d \in Clients : w.client[d].fd = g =>
             /\ v.client[d].fd = g /\ (Released(v, d) <=> Released(w, d))
             /\ v.client[d].status = w.client[d].status
        /\ \A a \in Requests : w.request[a].fd = g =>
             v.request[a].fd = g /\ v.request[a].ident = w.request[a].ident
        /\ \A l \in Listeners : w.listener[l].fd = g => v.listener[l].fd = g
  <2> TAKE g \in Fds \ G
  <2>0. g # -1
    BY FdFacts
  <2>1. \A d \in Clients : w.client[d].fd = g =>
             /\ v.client[d].fd = g /\ (Released(v, d) <=> Released(w, d))
             /\ v.client[d].status = w.client[d].status
    BY <2>0 DEF Frame
  <2>2. \A a \in Requests : w.request[a].fd = g =>
             v.request[a].fd = g /\ v.request[a].ident = w.request[a].ident
    BY <2>0 DEF Frame
  <2>3. \A l \in Listeners : w.listener[l].fd = g => v.listener[l].fd = g
    BY <2>0 DEF Frame
  <2> QED BY <2>1, <2>2, <2>3
<1>9. \A d \in Clients \ D : w.client[d].fd # -1 =>
        /\ w.client[d].fd \in Fds \ G /\ v.fds.tab[w.client[d].fd] = w.fds.tab[w.client[d].fd]
        /\ TryAllSet(v, d) <=> TryAllSet(w, d)
  <2> TAKE d \in Clients \ D
  <2> HAVE w.client[d].fd # -1
  <2>1. w.client[d].fd \in Fds \ G /\ v.client[d] = w.client[d]
    BY <1>1, <1>3 DEF OwnFds
  <2>2. v.fds.tab[w.client[d].fd] = w.fds.tab[w.client[d].fd]
    BY <1>6, <2>1
  <2> QED BY <2>1, <2>2 DEF TryAllSet
<1>10. \A d \in Clients \ D : /\ Asked(v, d) <=> Asked(w, d)
                              /\ Queried(v, d) <=> Queried(w, d)
  <2> TAKE d \in Clients \ D
  <2>1. d # NULL
    BY Distinct
  <2>2. Asked(v, d) <=> Asked(w, d)
    BY <1>4, <1>5, <2>1 DEF Asked
  <2>3. Queried(v, d) <=> Queried(w, d)
    BY <1>7 DEF Queried
  <2> QED BY <2>2, <2>3
<1>11. EntriesSound(v, Y)
  <2> SUFFICES ASSUME NEW g \in Fds
               PROVE  /\ EntrySound(v, g, v.fds.tab[g])
                      /\ v.fds.tab[g].write = TryConnect /\ v.fds.tab[g].connect = NULL =>
                           Excused(v, Y, g)
    BY DEF EntriesSound
  <2>1. CASE g \in G
    BY <2>1
  <2>2. CASE g \notin G
    <3>0. v.fds.tab[g] = w.fds.tab[g] /\ EntrySound(w, g, w.fds.tab[g])
      BY <1>1, <1>6, <2>2
    <3>1. EntrySound(v, g, v.fds.tab[g])
      <4>1. \A d \in Clients : w.client[d].fd = g =>
              /\ v.client[d].fd = g /\ (Released(v, d) <=> Released(w, d))
              /\ \/ v.client[d].status = w.client[d].status
                 \/ /\ Released(w, d)
                    /\ w.client[d].status # "connecting" /\ v.client[d].status # "connecting"
        BY <1>8, <2>2
      <4>2. \A a \in Requests : w.request[a].fd = g =>
              v.request[a].fd = g /\ v.request[a].ident = w.request[a].ident
        BY <1>8, <2>2
      <4>3. \A l \in Listeners : w.listener[l].fd = g => v.listener[l].fd = g
        BY <1>8, <2>2
      <4> QED BY <3>0, <4>1, <4>2, <4>3, EntryKept, Zenon
    <3>2. ASSUME Excused(w, X, g) PROVE Excused(v, Y, g)
      <4>1. CASE ByName
        BY <4>1 DEF Excused
      <4>2. CASE ~ByName
        <5>1. PICK x \in X : FdOf(w)[x] = g /\ (x \in Clients => w.client[x].status = "connecting")
          BY <3>2, <4>2 DEF Excused
        <5>2. x \in Y
          BY <2>2, <5>1, FdFacts
        <5>3. FdOf(v)[x] = g /\ (x \in Clients => v.client[x].status = "connecting")
          <6>0. x \in Objects
            OBVIOUS
          <6>1. CASE x \in Clients
            <7>1. w.client[x].fd = g
              BY <1>1, <5>1, <6>1, FdOfObjects
            <7>2. v.client[x].fd = g /\ v.client[x].status = "connecting"
              BY <1>8, <2>2, <5>1, <6>1, <7>1
            <7> QED BY <6>1, <7>2, FdOfObjects
          <6>2. CASE x \in Requests
            <7>1. w.request[x].fd = g
              BY <1>1, <5>1, <6>2, FdOfObjects
            <7>2. v.request[x].fd = g
              BY <1>8, <2>2, <6>2, <7>1
            <7> QED BY <6>2, <7>2, FdOfObjects, Distinct
          <6>3. CASE x \in Listeners
            <7>1. w.listener[x].fd = g
              BY <1>1, <5>1, <6>3, FdOfObjects
            <7>2. v.listener[x].fd = g
              BY <1>8, <2>2, <6>3, <7>1
            <7> QED BY <6>3, <7>2, FdOfObjects, Distinct
          <6> QED BY <6>0, <6>1, <6>2, <6>3 DEF Objects
        <5> QED BY <5>2, <5>3 DEF Excused
      <4> QED BY <4>1, <4>2
    <3> QED BY <1>1, <3>0, <3>1, <3>2
  <2> QED BY <2>1, <2>2
<1>12. RequestsSound(v, Y)
  <2> SUFFICES ASSUME NEW a \in Requests \ B PROVE RequestSound(v, Y, a)
    BY DEF RequestsSound
  <2>1. RequestSound(w, X, a) /\ v.request[a] = w.request[a] /\ (a \in v.polled <=> a \in w.polled)
    BY <1>2, <1>4
  <2>2. a \in X => a \in Y
    BY Distinct
  <2>3. CASE w.request[a].client = NULL
    BY <2>1, <2>3 DEF RequestSound
  <2>4. CASE w.request[a].client # NULL
    <3> DEFINE c == w.request[a].client
    <3>1. c \in Clients \ D
      BY <1>1, <1>4, <2>4 DEF RequestBlocks
    <3>2. w.client[c].status = "unknown" /\ ~Released(w, c) /\ ~TryAllSet(w, c)
      BY <2>1, <2>4 DEF RequestSound
    <3>3. v.client[c].status = "unknown" /\ ~Released(v, c)
      BY <1>3, <3>1, <3>2
    <3>4. ~TryAllSet(v, c)
      BY <1>2, <1>9, <3>1, <3>2 DEF ClientSound, Live
    <3>5. \A b \in Requests : v.request[b].client = c => b = a
      BY <1>4, <1>5, <2>1, <2>4, <3>1 DEF RequestSound
    <3> QED BY <2>1, <2>2, <2>4, <3>3, <3>4, <3>5 DEF RequestSound
  <2> QED BY <2>3, <2>4
<1>13. QueriesSound(v)
  <2>0. v.queries \in SUBSET QueryBlocks
    BY DEF Typed
  <2>1. ASSUME NEW q \in v.queries PROVE QuerySound(v, q)
    <3>0. q.owner \in Clients \cup {NULL}
      BY <2>0 DEF QueryBlocks
    <3>1. CASE q.owner \in D \cup {NULL}
      BY <3>1
    <3>2. CASE q.owner \in Clients \ D
      <4>1. q \in w.queries /\ QuerySound(w, q)
        BY <1>2, <1>7, <3>2 DEF QueriesSound
      <4>2. CASE q.callback = "auth_dns_callback"
        <5>1. q.ptr \in Requests /\ w.request[q.ptr].client = q.owner /\ w.request[q.ptr].dns
          BY <4>1, <4>2 DEF QuerySound
        <5>2. q.ptr \notin B
          BY <1>5, <3>2, <5>1, Distinct
        <5> QED BY <1>4, <3>2, <4>2, <5>1, <5>2 DEF QuerySound
      <4>3. CASE q.callback = "lookup_dns_callback"
        <5>1. /\ q.ptr = q.owner /\ w.client[q.owner].status = "unknown" /\ ~Released(w, q.owner)
              /\ ~Asked(w, q.owner) /\ ~TryAllSet(w, q.owner)
          BY <4>1, <4>3 DEF QuerySound
        <5>2. ~Asked(v, q.owner) /\ ~TryAllSet(v, q.owner)
          BY <1>2, <1>9, <1>10, <3>2, <5>1 DEF ClientSound, Live
        <5> QED BY <1>3, <3>2, <4>3, <5>1, <5>2 DEF QuerySound
      <4>4. CASE q.callback \notin {"auth_dns_callback", "lookup_dns_callback"}
        BY <3>2, <4>1, <4>4, Distinct DEF QuerySound
      <4> QED BY <4>2, <4>3, <4>4
    <3> QED BY <3>0, <3>1, <3>2
  <2>2. ASSUME NEW q \in v.queries, NEW r \in v.queries, q.owner = r.owner, q.owner # NULL PROVE q = r
    <3>0. q.owner \in Clients \cup {NULL}
      BY <2>0 DEF QueryBlocks
    <3>1. CASE q.owner \in D
      BY <2>2, <3>1
    <3>2. CASE q.owner \in Clients \ D
      BY <1>2, <1>7, <2>2, <3>2 DEF QueriesSound
    <3> QED BY <2>2, <3>0, <3>1, <3>2
  <2>3. ASSUME NEW c \in Clients \ D
        PROVE  Queried(v, c) <=> v.client[c].dns = "pending" /\ c \notin v.exited
    BY <1>2, <1>3, <1>10 DEF QueriesSound
  <2> QED BY <2>1, <2>2, <2>3 DEF QueriesSound
<1>14. ClientsSound(v, Y)
  <2>1. ASSUME NEW d \in Clients \ D PROVE ClientSound(v, Y, d)
    <3>1. ClientSound(w, X, d) /\ (d \in X => d \in Y)
      BY <1>2, Distinct
    <3>2. w.client[d].status \in Live => v.fds.tab[w.client[d].fd] = w.fds.tab[w.client[d].fd]
      BY <1>9, <3>1 DEF ClientSound
    <3>3. /\ v.client[d] = w.client[d] /\ (Released(v, d) <=> Released(w, d))
          /\ (d \in v.unknown <=> d \in w.unknown) /\ (d \in v.exited <=> d \in w.exited)
      BY <1>3
    <3> QED BY <3>1, <3>2, <3>3 DEF ClientSound, Live
  <2> QED BY <2>1 DEF ClientsSound
<1>15. AllArmed(v, Y)
  <2> SUFFICES ASSUME NEW d \in Clients \ D, d \notin Y PROVE Armed(v, d)
    BY DEF AllArmed
  <2>1. d \notin X
    BY Distinct
  <2>2. Armed(w, d) /\ ClientSound(w, X, d) /\ v.client[d] = w.client[d]
        /\ (Released(v, d) <=> Released(w, d))
        /\ (Asked(v, d) <=> Asked(w, d)) /\ (Queried(v, d) <=> Queried(w, d))
    BY <1>2, <1>3, <1>10, <2>1
  <2>3. w.client[d].status \in Live =>
          /\ v.fds.tab[w.client[d].fd] = w.fds.tab[w.client[d].fd]
          /\ TryAllSet(v, d) <=> TryAllSet(w, d)
          /\ DnsQuery(w.client[d].fd) \in w.queries => DnsQuery(w.client[d].fd) \in v.queries
    BY <1>6, <1>9, <2>2 DEF ClientSound
  <2> QED BY <2>2, <2>3 DEF Armed, Live
<1>16. ListenersSound(v)
  <2> SUFFICES ASSUME NEW l \in Listeners \ L PROVE ListenerSound(v, l)
    BY DEF ListenersSound
  <2>1. v.listener[l] = w.listener[l] /\ ListenerSound(w, l)
    BY <1>2 DEF Frame
  <2>2. ReferencesOf(v, l) = ReferencesOf(w, l)
    BY <1>3 DEF ReferencesOf, Frame
  <2> QED BY <2>1, <2>2 DEF ListenerSound
<1> QED BY <1>11, <1>12, <1>13, <1>14, <1>15, <1>16 DEF Sound

-----------------------------------------------------------------------------
(* Reading from a released client.                                         *)

(* What is excused may be forgotten about.                                 *)
LEMMA Weaken ==
  ASSUME NEW w, NEW X, NEW Y, Sound(w, X), X \subseteq Y
  PROVE  Sound(w, Y)
<1>1. EntriesSound(w, Y)
  BY DEF Sound, EntriesSound, Excused
<1>2. RequestsSound(w, Y)
  BY DEF Sound, RequestsSound, RequestSound
<1>3. ClientsSound(w, Y)
  BY DEF Sound, ClientsSound, ClientSound
<1>4. AllArmed(w, Y)
  BY DEF Sound, AllArmed
<1> QED BY <1>1, <1>2, <1>3, <1>4 DEF Sound

(* c is released and past its connect.                                     *)
Reading(w, c) ==
  Released(w, c) /\ w.client[c].status \in {"unknown", "handshake", "client", "server"}

(* The descriptor of a client that is alive.                               *)
LEMMA OwnFd ==
  ASSUME NEW w, NEW X, Sound(w, X), NEW c \in Clients, w.client[c].status \in Live
  PROVE  /\ w.client[c].fd \in Fds /\ w.client[c].fd # -1 /\ w.fds.tab[w.client[c].fd].open
         /\ EntrySound(w, w.client[c].fd, w.fds.tab[w.client[c].fd])
         /\ FdOf(w)[c] = w.client[c].fd
         /\ \A d \in Clients : w.client[d].fd = w.client[c].fd => d = c
         /\ \A a \in Requests : w.request[a].fd # w.client[c].fd
         /\ \A l \in Listeners : w.listener[l].fd # w.client[c].fd
<1>1. Typed(w) /\ OwnFds(w) /\ ClientSound(w, X, c) /\ \A f \in Fds : EntrySound(w, f, w.fds.tab[f])
  BY SoundParts
<1>2. w.client[c].fd # -1
  BY <1>1 DEF ClientSound
<1>3. w.client[c].fd \in Fds /\ w.fds.tab[w.client[c].fd].open
  BY <1>1, <1>2 DEF OwnFds
<1> QED BY <1>1, <1>2, <1>3, FdOfObjects DEF OwnFds

(* A change of the registrations on the descriptor of a client, and on the *)
(* one of a request.                                                       *)
LEMMA RewiredClient ==
  ASSUME NEW w, NEW c \in Clients, NEW X \in SUBSET {c}, NEW Y \in SUBSET {c}, Sound(w, X),
         w.client[c].status \in Live,
         NEW v, SameBlocks(w, v), NEW f, f = w.client[c].fd, Touched(w.fds, v.fds, f),
         EntrySound(v, f, v.fds.tab[f]),
         v.fds.tab[f].write = TryConnect /\ v.fds.tab[f].connect = NULL => Excused(w, Y, f),
         v.fds.tab[f].write = <<"comm_tryall_callback", c>> =>
           w.fds.tab[f].write = <<"comm_tryall_callback", c>>,
         c \notin Y => /\ Armed(v, c)
                       /\ w.client[c].status = "connecting" =>
                            v.fds.tab[f].connect = <<"serv_connect_callback", c>>
  PROVE  Sound(v, Y)
<1>1. X \in SUBSET Objects /\ Y \in SUBSET Objects /\ c \notin Requests
  BY Distinct DEF Objects
<1>2. /\ f \in Fds /\ FdOf(w)[c] = f /\ \A d \in Clients : w.client[d].fd = f => d = c
  BY OwnFd
<1>3. \A x \in X \ Y : FdOf(w)[x] = f
  BY <1>2
<1>4. \A a \in Requests : a \in X \ Y => w.request[a].dns \/ w.request[a].ident # "no"
  BY <1>1
<1>5. \A d \in Clients : v.fds.tab[f].write = <<"comm_tryall_callback", d>> =>
                         w.fds.tab[f].write = <<"comm_tryall_callback", d>>
  <2> TAKE d \in Clients
  <2> HAVE v.fds.tab[f].write = <<"comm_tryall_callback", d>>
  <2>1. <<"comm_tryall_callback", d>> # NULL /\ <<"comm_tryall_callback", d>> # TryConnect
    BY Distinct DEF Callbacks, Objects, TryConnect
  <2>a. WriteSound(v, f, <<"comm_tryall_callback", d>>)
    BY <2>1 DEF EntrySound
  <2>2. v.client[d].fd = f
    BY <2>1, <2>a DEF WriteSound
  <2>3. d = c
    BY <1>2, <2>2 DEF SameBlocks
  <2> QED BY <2>3
<1>6. \A d \in Clients \ Y : w.client[d].fd = f =>
         /\ Armed(v, d)
         /\ w.client[d].status = "connecting" =>
              v.fds.tab[f].connect = <<"serv_connect_callback", d>>
  BY <1>2
<1>7. Rewires(w, v, X, Y, f)
  BY <1>3, <1>4, <1>5, <1>6 DEF Rewires
<1> QED BY <1>1, <1>2, <1>7, Rewired

(* The same for the ident descriptor of a request.                         *)
LEMMA RewiredRequest ==
  ASSUME NEW w, NEW a \in Requests, NEW X \in SUBSET {a}, NEW Y \in SUBSET {a}, Sound(w, X),
         w.request[a].fd # -1, a \in X \ Y => w.request[a].dns \/ w.request[a].ident # "no",
         NEW v, SameBlocks(w, v), NEW f, f = w.request[a].fd, Touched(w.fds, v.fds, f),
         EntrySound(v, f, v.fds.tab[f]),
         v.fds.tab[f].write = TryConnect /\ v.fds.tab[f].connect = NULL => Excused(w, Y, f)
  PROVE  Sound(v, Y)
<1>1. X \in SUBSET Objects /\ Y \in SUBSET Objects
  BY DEF Objects
<1>2. OwnFds(w) /\ Typed(w)
  BY SoundParts
<1>3. f \in Fds /\ FdOf(w)[a] = f /\ \A d \in Clients : w.client[d].fd # f
  BY <1>2, FdOfObjects DEF OwnFds
<1>4. \A x \in X \ Y : FdOf(w)[x] = f
  BY <1>3
<1>5. \A b \in Requests : b \in X \ Y => w.request[b].dns \/ w.request[b].ident # "no"
  OBVIOUS
<1>6. \A d \in Clients : v.fds.tab[f].write = <<"comm_tryall_callback", d>> =>
                         w.fds.tab[f].write = <<"comm_tryall_callback", d>>
  <2> TAKE d \in Clients
  <2> HAVE v.fds.tab[f].write = <<"comm_tryall_callback", d>>
  <2>1. <<"comm_tryall_callback", d>> # NULL /\ <<"comm_tryall_callback", d>> # TryConnect
    BY Distinct DEF Callbacks, Objects, TryConnect
  <2>a. WriteSound(v, f, <<"comm_tryall_callback", d>>)
    BY <2>1 DEF EntrySound
  <2>2. v.client[d].fd = f
    BY <2>1, <2>a DEF WriteSound
  <2> QED BY <1>3, <2>2 DEF SameBlocks
<1>7. \A d \in Clients \ Y : w.client[d].fd = f =>
         /\ Armed(v, d)
         /\ w.client[d].status = "connecting" =>
              v.fds.tab[f].connect = <<"serv_connect_callback", d>>
  BY <1>3
<1>8. Rewires(w, v, X, Y, f)
  BY <1>4, <1>5, <1>6, <1>7 DEF Rewires
<1> QED BY <1>1, <1>3, <1>8, Rewired

(* Client blocks with one field changed.                                   *)
LEMMA BlockDead ==
  ASSUME NEW C \in [Clients -> ClientBlocks], NEW c \in Clients,
         NEW E, E = [C EXCEPT ![c].dead = TRUE]
  PROVE  /\ E \in [Clients -> ClientBlocks]
         /\ E[c].status = C[c].status /\ E[c].fd = C[c].fd /\ E[c].listener = C[c].listener
         /\ E[c].dns = C[c].dns /\ E[c].dead
         /\ \A d \in Clients : d # c => E[d] = C[d]
BY DEF ClientBlocks

(* A new status changes nothing else of a block.                           *)
LEMMA BlockStatus ==
  ASSUME NEW C \in [Clients -> ClientBlocks], NEW c \in Clients, NEW s \in Statuses,
         NEW E, E = [C EXCEPT ![c].status = s]
  PROVE  /\ E \in [Clients -> ClientBlocks]
         /\ E[c].status = s /\ E[c].fd = C[c].fd /\ E[c].listener = C[c].listener
         /\ E[c].dns = C[c].dns /\ E[c].dead = C[c].dead
         /\ \A d \in Clients : d # c => E[d] = C[d]
BY DEF ClientBlocks

(* dead_link_on_write and dead_link_on_read mark a released client.        *)
LEMMA MarkDead ==
  ASSUME NEW w, NEW X \in SUBSET Objects, Sound(w, X), NEW c \in Clients, Reading(w, c)
  PROVE  /\ Sound([w EXCEPT !.client[c].dead = TRUE], X)
         /\ Reading([w EXCEPT !.client[c].dead = TRUE], c)
<1> DEFINE v == [w EXCEPT !.client[c].dead = TRUE]
<1>1. Typed(w) /\ w.client \in [Clients -> ClientBlocks] /\ ClientSound(w, X, c)
  BY SoundParts
<1>2. IsWorld(w) /\ w.unknown \in SUBSET Clients /\ w.count \in Int
  BY <1>1 DEF Typed
<1>3. /\ IsWorld(v) /\ v.fds = w.fds /\ v.client = [w.client EXCEPT ![c].dead = TRUE]
      /\ v.unknown = w.unknown /\ v.count = w.count
      /\ v.clients = w.clients /\ v.exited = w.exited /\ v.request = w.request
      /\ v.polled = w.polled /\ v.queries = w.queries /\ v.listener = w.listener
  BY <1>2 DEF IsWorld
<1> HIDE DEF v
<1>4. /\ v.client \in [Clients -> ClientBlocks]
      /\ v.client[c].fd = w.client[c].fd /\ v.client[c].listener = w.client[c].listener
      /\ v.client[c].dns = w.client[c].dns /\ v.client[c].status = w.client[c].status
      /\ v.client[c].dead
      /\ \A d \in Clients : d # c => v.client[d] = w.client[d]
  BY <1>1, <1>3, BlockDead
<1>5. w.client[c].status \in Live \ {"connecting"} /\ Released(w, c)
      /\ (c \in w.unknown <=> w.client[c].status \in {"unknown", "handshake"})
  BY <1>1 DEF Reading, Live, ClientSound
<1>6. Restated(w, v, c)
  BY <1>2, <1>3, <1>4, <1>5 DEF Restated
<1>7. Sound(v, X)
  BY <1>5, <1>6, RestatedSound
<1>8. Reading(v, c)
  BY <1>3, <1>4 DEF Reading, Released
<1> QED BY <1>7, <1>8 DEF v

(* A registration.                                                         *)
LEMMA Register ==
  ASSUME NEW w, NEW X \in SUBSET Objects, Sound(w, X), NEW c \in Clients, Reading(w, c),
         NEW s \in {"client", "server"}
  PROVE  /\ Sound([LeaveUnknown(w, c) EXCEPT !.client[c].status = s], X)
         /\ Reading([LeaveUnknown(w, c) EXCEPT !.client[c].status = s], c)
<1> DEFINE u == LeaveUnknown(w, c)
           v == [u EXCEPT !.client[c].status = s]
<1>1. Typed(w) /\ w.client \in [Clients -> ClientBlocks] /\ ClientSound(w, X, c)
  BY SoundParts
<1>2. IsWorld(w) /\ w.unknown \in SUBSET Clients /\ w.count \in Int
  BY <1>1 DEF Typed
<1>3. /\ IsWorld(u) /\ u.fds = w.fds /\ u.client = w.client
      /\ u.unknown = w.unknown \ {c} /\ u.count \in Int
      /\ u.clients = w.clients /\ u.exited = w.exited /\ u.request = w.request
      /\ u.polled = w.polled /\ u.queries = w.queries /\ u.listener = w.listener
  <2>1. CASE c \in w.unknown
    <3>1. /\ IsWorld(u) /\ u.fds = w.fds /\ u.client = w.client
          /\ u.unknown = w.unknown \ {c} /\ u.count = w.count - 1
          /\ u.clients = w.clients /\ u.exited = w.exited /\ u.request = w.request
          /\ u.polled = w.polled /\ u.queries = w.queries /\ u.listener = w.listener
      BY <1>2, <2>1 DEF LeaveUnknown, IsWorld
    <3>2. w.count - 1 \in Int
      BY <1>2
    <3> HIDE DEF u
    <3> QED BY <3>1, <3>2
  <2>2. CASE c \notin w.unknown
    <3>1. u = w /\ w.unknown = w.unknown \ {c}
      BY <2>2 DEF LeaveUnknown
    <3> HIDE DEF u
    <3> QED BY <1>2, <3>1
  <2> QED BY <2>1, <2>2
<1> HIDE DEF u
<1>5. /\ IsWorld(v) /\ v.fds = u.fds /\ v.client = [u.client EXCEPT ![c].status = s]
      /\ v.unknown = u.unknown /\ v.count = u.count
      /\ v.clients = u.clients /\ v.exited = u.exited /\ v.request = u.request
      /\ v.polled = u.polled /\ v.queries = u.queries /\ v.listener = u.listener
  BY <1>3 DEF IsWorld
<1> HIDE DEF v
<1>6. /\ v.client \in [Clients -> ClientBlocks]
      /\ v.client[c].fd = w.client[c].fd /\ v.client[c].listener = w.client[c].listener
      /\ v.client[c].dns = w.client[c].dns /\ v.client[c].status = s
      /\ v.client[c].dead = w.client[c].dead
      /\ \A d \in Clients : d # c => v.client[d] = w.client[d]
  <2>1. s \in Statuses
    BY DEF Statuses
  <2> QED BY <1>1, <1>3, <1>5, <2>1, BlockStatus
<1>7. w.client[c].status \in Live \ {"connecting"} /\ Released(w, c)
      /\ s \in Live \ {"connecting"} /\ s \notin {"unknown", "handshake"}
  BY DEF Reading, Live
<1>8. Restated(w, v, c)
  BY <1>2, <1>3, <1>5, <1>6, <1>7 DEF Restated
<1>9. Sound(v, X)
  BY <1>7, <1>8, RestatedSound
<1>10. v.clients = w.clients
  BY <1>3, <1>5
<1>11. Reading(v, c)
  BY <1>6, <1>10 DEF Reading, Released
<1> QED BY <1>9, <1>11 DEF v, u

(* Registration, as a user or as a server.                                 *)
LEMMA RegisteredSound ==
  ASSUME NEW w, NEW X \in SUBSET Objects, Sound(w, X), NEW c \in Clients, Reading(w, c)
  PROVE  Sound(Registered(w, c), X) /\ Reading(Registered(w, c), c)
<1>1. \E s \in {"client", "server"} :
        Registered(w, c) = [LeaveUnknown(w, c) EXCEPT !.client[c].status = s]
  BY DEF Registered, server_estab, register_local_user
<1>2. PICK s \in {"client", "server"} :
        Registered(w, c) = [LeaveUnknown(w, c) EXCEPT !.client[c].status = s]
  BY <1>1
<1>3. /\ Sound([LeaveUnknown(w, c) EXCEPT !.client[c].status = s], X)
      /\ Reading([LeaveUnknown(w, c) EXCEPT !.client[c].status = s], c)
  BY Register
<1> QED BY <1>2, <1>3, Zenon

(* A client that is excused from being armed is armed by Rearm, or dead.   *)
LEMMA RearmSound ==
  ASSUME NEW w, NEW c \in Clients, Sound(w, {c}), Reading(w, c)
  PROVE  Sound(Rearm(w, c), {}) /\ Reading(Rearm(w, c), c)
<1> DEFINE v == Rearm(w, c)
           f == w.client[c].fd
<1>0. Typed(w) /\ IsWorld(w) /\ w.fds \in Tables
  BY SoundParts DEF Typed
<1>1. w.client[c].status \in Live \ {"connecting"} /\ Released(w, c)
  BY DEF Reading, Live
<1>2. /\ f \in Fds /\ f # -1 /\ w.fds.tab[f].open
      /\ EntrySound(w, f, w.fds.tab[f]) /\ FdOf(w)[c] = f
      /\ \A d \in Clients : w.client[d].fd = f => d = c
  BY <1>1, OwnFd
<1>3. {c} \in SUBSET Objects /\ {} \in SUBSET Objects /\ c \notin Requests
  BY Distinct DEF Objects
<1>4. w.fds.tab[f].write = TryConnect /\ w.fds.tab[f].connect = NULL => Excused(w, {}, f)
  <2>1. w.fds.tab[f].write = TryConnect /\ w.fds.tab[f].connect = NULL => Excused(w, {c}, f)
    BY <1>2, SoundEntry
  <2>2. Excused(w, {c}, f) => Excused(w, {}, f)
    BY <1>1 DEF Excused
  <2> QED BY <2>1, <2>2
<1>5. CASE w.client[c].dead
  <2>1. v = w
    BY <1>5 DEF Rearm
  <2>2. SameBlocks(w, w) /\ Touched(w.fds, w.fds, f)
    BY <1>0 DEF SameBlocks, Touched
  <2>3. Armed(w, c)
    BY <1>1, <1>5 DEF Armed
  <2>4. Sound(w, {})
    BY <1>1, <1>2, <1>4, <2>2, <2>3, RewiredClient
  <2> QED BY <2>1, <2>4
<1>6. CASE ~w.client[c].dead
  <2> DEFINE n == IF w.client[c].status \in {"handshake", "server"}
                  THEN "read_server_packet" ELSE "read_client_packet"
  <2>1. v = [w EXCEPT !.fds = SetRead(w.fds, f, <<n, c>>)]
    BY <1>6 DEF Rearm
  <2>2. n \in {"read_client_packet", "read_server_packet"}
    OBVIOUS
  <2> HIDE DEF n, v, f
  <2>3. <<n, c>> \in Handles /\ <<n, c>> # NULL
    BY <2>2, Distinct DEF Handles, Callbacks, Objects
  <2>4. SameBlocks(w, v) /\ v.fds = SetRead(w.fds, f, <<n, c>>)
    BY <1>0, <2>1, NewTable
  <2>5. /\ Touched(w.fds, v.fds, f)
        /\ v.fds.tab[f].read = <<n, c>> /\ v.fds.tab[f].write = w.fds.tab[f].write
        /\ v.fds.tab[f].connect = w.fds.tab[f].connect /\ v.fds.tab[f].flush = w.fds.tab[f].flush
        /\ v.fds.tab[f].timer = w.fds.tab[f].timer /\ v.fds.tab[f].open = w.fds.tab[f].open
    <3>1. Touched(w.fds, v.fds, f)
      BY <1>0, <1>2, <2>3, <2>4, SetReadTouches
    <3>2. v.fds.tab[f].open = w.fds.tab[f].open
      BY <3>1 DEF Touched
    <3>3. /\ v.fds.tab[f].read = <<n, c>> /\ v.fds.tab[f].write = w.fds.tab[f].write
          /\ v.fds.tab[f].connect = w.fds.tab[f].connect /\ v.fds.tab[f].flush = w.fds.tab[f].flush
      BY <1>0, <1>2, <2>3, <2>4, SetReadTouches
    <3>4. v.fds.tab[f].timer = w.fds.tab[f].timer
      BY <1>0, <1>2, <2>3, <2>4, SetReadTouches
    <3> QED BY <3>1, <3>2, <3>3, <3>4
  <2>6. /\ v.client = w.client /\ v.clients = w.clients /\ v.request = w.request
        /\ v.listener = w.listener
    BY <2>4 DEF SameBlocks
  <2>7. EntrySound(v, f, v.fds.tab[f])
    <3>1. ReadSound(v, f, <<n, c>>)
      BY <1>1, <2>2, <2>6 DEF ReadSound, Released, f
    <3>2. w.fds.tab[f].write # NULL => WriteSound(v, f, w.fds.tab[f].write)
      BY <1>2, <2>5, <2>6 DEF EntrySound, WriteSound, Released
    <3>3. w.fds.tab[f].connect # NULL => ConnectSound(v, f, w.fds.tab[f].connect)
      BY <1>2, <2>6 DEF EntrySound, ConnectSound
    <3>4. w.fds.tab[f].flush # NULL => FlushSound(v, f, w.fds.tab[f].flush)
      BY <1>2, <2>6 DEF EntrySound, FlushSound, Released
    <3>5. w.fds.tab[f].timer => w.fds.tab[f].connect # NULL
      BY <1>2 DEF EntrySound
    <3> QED BY <1>2, <2>5, <3>1, <3>2, <3>3, <3>4, <3>5 DEF EntrySound
  <2>8. Armed(v, c)
    BY <1>1, <2>3, <2>5, <2>6 DEF Armed, f, Released
  <2>9. Sound(v, {})
    <3>1. {c} \in SUBSET {c} /\ {} \in SUBSET {c} /\ f = w.client[c].fd
      BY DEF f
    <3>2. v.fds.tab[f].write = TryConnect /\ v.fds.tab[f].connect = NULL => Excused(w, {}, f)
      BY <1>4, <2>5
    <3> QED BY <1>1, <2>4, <2>5, <2>7, <2>8, <3>1, <3>2, RewiredClient
  <2> QED BY <2>6, <2>9 DEF Reading, Released, v
<1> QED BY <1>5, <1>6

(* The exit of another client.                                             *)
LEMMA ExitOther ==
  ASSUME NEW w, NEW c \in Clients, Sound(w, {c}), Reading(w, c), NEW d \in Clients, d # c
  PROVE  Sound(exit_client(w, d), {c}) /\ Reading(exit_client(w, d), c)
<1>1. {c} \in SUBSET Objects /\ {c} \ {d} = {c}
  BY DEF Objects
<1>2. Sound(exit_client(w, d), {c})
  BY <1>1, ExitClient
<1>3. exit_client(w, d).clients = w.clients /\ exit_client(w, d).client[c] = w.client[c]
  <2>0. Typed(w) /\ ClientSound(w, {c}, d)
    BY SoundParts
  <2>1. CASE w.client[d].status \in Live
    <3>1. Exited(w, exit_client(w, d), d)
      BY <2>0, <2>1, ExitEffect DEF ClientSound
    <3> QED BY <3>1 DEF Exited
  <2>2. CASE w.client[d].status \notin Live
    <3>1. w.client[d].status \in Statuses
      BY <2>0 DEF Typed, ClientBlocks
    <3> QED BY <2>2, <3>1 DEF exit_client, Live, Statuses
  <2> QED BY <2>1, <2>2
<1> QED BY <1>2, <1>3 DEF Reading, Released

(* A command that the client survives leaves it reading.                   *)
LEMMA SurvivedSound ==
  ASSUME NEW w, NEW c \in Clients, Sound(w, {c}), Reading(w, c), NEW v \in SurvivedCommand(w, c)
  PROVE  Sound(v, {c}) /\ Reading(v, c)
<1>0. {c} \in SUBSET Objects /\ ToSet(w.clients) \subseteq Clients
  <2>1. w.clients \in Seq(Clients)
    BY DEF Sound, Typed
  <2> QED BY <2>1, ListOf DEF Objects
<1>1. CASE v = w
  BY <1>1
<1>2. CASE v = [w EXCEPT !.client[c].dead = TRUE]
  BY <1>0, <1>2, MarkDead
<1>3. CASE \E d \in ToSet(w.clients) \ {c} : v = exit_client(w, d)
  BY <1>0, <1>3, ExitOther
<1>4. CASE v = Registered(w, c)
  BY <1>0, <1>4, RegisteredSound
<1> QED BY <1>1, <1>2, <1>3, <1>4 DEF SurvivedCommand

(* The exit of a client that is alive leaves it dead.                      *)
LEMMA ExitDead ==
  ASSUME NEW w, NEW c \in Clients, Sound(w, {c}), w.client[c].status \in Live
  PROVE  Sound(exit_client(w, c), {}) /\ exit_client(w, c).client[c].dead
<1>1. {c} \in SUBSET Objects /\ {c} \ {c} = {}
  BY DEF Objects
<1>2. Sound(exit_client(w, c), {})
  BY <1>1, ExitClient
<1>3. Typed(w) /\ w.client[c].fd # -1
  BY OwnFd, SoundParts
<1>4. exit_client(w, c).client[c].dead
  BY <1>3, ExitEffect DEF Exited
<1> QED BY <1>2, <1>4

(* parse_client_queued.                                                    *)
LEMMA ParseSound ==
  ASSUME NEW w, NEW c \in Clients, Sound(w, {c}), Reading(w, c),
         NEW v \in parse_client_queued(w, c)
  PROVE  Sound(v, {}) /\ (v.client[c].dead \/ Reading(v, c))
<1>1. CASE v = exit_client(w, c)
  BY <1>1, ExitDead DEF Reading, Live
<1>2. CASE \E u \in SurvivedCommand(w, c) : v = Rearm(u, c)
  BY <1>2, SurvivedSound, RearmSound
<1> QED BY <1>1, <1>2 DEF parse_client_queued

-----------------------------------------------------------------------------
(* The exited clients are reaped.                                          *)

(* What remove_exited_clients leaves: no client on exit_list has a         *)
(* descriptor, so it closes none.                                          *)
LEMMA RemoveExitedEffect ==
  ASSUME NEW w, Sound(w, {}), NEW v, v = remove_exited_clients(w)
  PROVE  /\ IsWorld(v) /\ v.fds = CloseAll(w.fds, {})
         /\ v.client = [c \in Clients |-> IF c \in w.exited THEN FreeClient ELSE w.client[c]]
         /\ v.unknown = w.unknown /\ v.count = w.count
         /\ v.clients = Kept(w.clients, w.exited) /\ v.exited = {} /\ v.request = w.request
         /\ v.polled = w.polled /\ v.queries = w.queries /\ v.listener = w.listener
<1> DEFINE cs == w.exited
           u == [w EXCEPT !.clients = Kept(w.clients, cs)]
           S == {f \in {u.client[c].fd : c \in cs} : f > 2}
           x == [u EXCEPT !.fds = CloseAll(u.fds, S),
                          !.client = [c \in Clients |-> IF c \in cs THEN FreeClient ELSE u.client[c]]]
<1>0. IsWorld(w) /\ cs \in SUBSET Clients /\ \A c \in cs : w.client[c].fd = -1
  <2>1. Typed(w) /\ \A c \in Clients : ClientSound(w, {}, c)
    BY SoundParts
  <2> QED BY <2>1 DEF Typed, ClientSound, Live
<1>1. remove_exited_clients(w) = [x EXCEPT !.exited = {}]
  BY DEF remove_exited_clients, remove_client_from_list, free_client
<1> HIDE DEF cs
<1>2. /\ IsWorld(u) /\ u.fds = w.fds /\ u.client = w.client
      /\ u.unknown = w.unknown /\ u.count = w.count
      /\ u.clients = Kept(w.clients, cs) /\ u.exited = w.exited /\ u.request = w.request
      /\ u.polled = w.polled /\ u.queries = w.queries /\ u.listener = w.listener
  BY <1>0 DEF IsWorld
<1> HIDE DEF u
<1>3. S = {}
  <2>1. ~(-1 > 2)
    OBVIOUS
  <2> QED BY <1>0, <1>2, <2>1
<1> HIDE DEF S
<1>4. /\ IsWorld(x) /\ x.fds = CloseAll(u.fds, S)
      /\ x.client = [c \in Clients |-> IF c \in cs THEN FreeClient ELSE u.client[c]]
      /\ x.unknown = w.unknown /\ x.count = w.count
      /\ x.clients = Kept(w.clients, cs) /\ x.exited = w.exited /\ x.request = w.request
      /\ x.polled = w.polled /\ x.queries = w.queries /\ x.listener = w.listener
  BY <1>2 DEF IsWorld
<1> HIDE DEF x
<1>5. /\ IsWorld(v) /\ v.fds = x.fds /\ v.client = x.client
      /\ v.unknown = x.unknown /\ v.count = x.count
      /\ v.clients = x.clients /\ v.exited = {} /\ v.request = x.request
      /\ v.polled = x.polled /\ v.queries = x.queries /\ v.listener = x.listener
  BY <1>1, <1>4 DEF IsWorld
<1> QED BY <1>2, <1>3, <1>4, <1>5 DEF cs

(* remove_exited_clients.                                                  *)
LEMMA RemoveExitedSound ==
  ASSUME NEW w, Sound(w, {})
  PROVE  Sound(remove_exited_clients(w), {})
<1> DEFINE v == remove_exited_clients(w)
           D == w.exited
<1>1. /\ IsWorld(v) /\ v.fds = CloseAll(w.fds, {})
      /\ v.client = [c \in Clients |-> IF c \in w.exited THEN FreeClient ELSE w.client[c]]
      /\ v.unknown = w.unknown /\ v.count = w.count
      /\ v.clients = Kept(w.clients, w.exited) /\ v.exited = {} /\ v.request = w.request
      /\ v.polled = w.polled /\ v.queries = w.queries /\ v.listener = w.listener
  BY RemoveExitedEffect
<1> HIDE DEF v
<1>2. /\ Typed(w) /\ FdSound(w.fds, FdOf(w)) /\ w.client \in [Clients -> ClientBlocks]
      /\ w.request \in [Requests -> RequestBlocks] /\ w.queries \in SUBSET QueryBlocks
      /\ \A a \in Requests : RequestSound(w, {}, a)
      /\ QueriesSound(w) /\ IsInjective(w.clients)
      /\ \A c \in Clients : ClientSound(w, {}, c)
  BY SoundParts
<1>3. /\ w.fds \in Tables /\ w.clients \in Seq(Clients) /\ D \in SUBSET Clients
      /\ w.unknown \in SUBSET Clients /\ w.count \in Int
      /\ w.polled \in SUBSET Requests /\ w.listener \in [Listeners -> ListenerBlocks]
  BY <1>2 DEF Typed
<1>4. /\ v.clients \in Seq(Clients) /\ IsInjective(v.clients)
      /\ ToSet(v.clients) = ToSet(w.clients) \ D
  BY <1>1, <1>2, <1>3, KeptList
<1>5. \A c \in D : /\ w.client[c].status = "exited" /\ w.client[c].fd = -1
                   /\ w.client[c].listener = NULL /\ c \notin w.unknown
  BY <1>2, <1>3 DEF ClientSound, Live
<1>6. FdOf(w) \in [Objects -> Fds \cup {-1}]
  BY <1>2, FdOfObjects
<1>7. /\ v.fds \in Tables /\ v.fds.tab = [f \in Fds |-> w.fds.tab[f]]
      /\ FdSound(v.fds, Without(FdOf(w), {}))
  <2>1. {} \subseteq OpenFds(w.fds)
    OBVIOUS
  <2>2. /\ CloseAll(w.fds, {}) \in Tables
        /\ CloseAll(w.fds, {}).tab = [f \in Fds |-> IF f \in {} THEN ClosedEntry ELSE w.fds.tab[f]]
        /\ FdSound(CloseAll(w.fds, {}), Without(FdOf(w), {}))
    BY <1>2, <1>3, <1>6, <2>1, FdCloseAll
  <2> QED BY <1>1, <2>2
<1>8. FreeClient \in ClientBlocks /\ FreeClient.fd = -1 /\ FreeClient.status = "free"
      /\ FreeClient.listener = NULL /\ FreeClient.dns = "null" /\ FreeClient.dead = FALSE
  BY DEF FreeClient, ClientBlocks, Statuses
<1>9. v.client \in [Clients -> ClientBlocks]
  BY <1>1, <1>2, <1>8
<1>10. Typed(v)
  BY <1>1, <1>2, <1>3, <1>4, <1>7, <1>9 DEF Typed
<1>11. FdSound(v.fds, FdOf(v))
  <2>1. \A c \in Clients : v.client[c].fd = w.client[c].fd
    BY <1>1, <1>3, <1>5, <1>8
  <2>2. FdOf(v) = FdOf(w)
    BY <1>1, <2>1 DEF FdOf
  <2>3. Without(FdOf(w), {}) = FdOf(w)
    BY <1>6 DEF Without
  <2> QED BY <1>7, <2>2, <2>3
<1>12. Frame(w, v, D, {}, {}, {})
  <2>1. \A d \in Clients \ D :
       /\ v.client[d] = w.client[d] /\ (Released(v, d) <=> Released(w, d))
       /\ (d \in v.unknown <=> d \in w.unknown) /\ (d \in v.exited <=> d \in w.exited)
    BY <1>1, <1>4 DEF Released
  <2>2. \A a \in Requests : v.request[a] = w.request[a] /\ (a \in v.polled <=> a \in w.polled)
                            /\ w.request[a].client \notin D
    BY <1>1, <1>2, <1>3, <1>5, Distinct DEF RequestSound
  <2>3. \A l \in Listeners :
       /\ v.listener[l] = w.listener[l]
       /\ \A d \in D : v.client[d].listener = l <=> w.client[d].listener = l
    BY <1>1, <1>3, <1>5, <1>8, Distinct
  <2>4. \A g \in Fds : v.fds.tab[g] = w.fds.tab[g]
    BY <1>7
  <2> QED BY <1>1, <1>5, <2>1, <2>2, <2>3, <2>4 DEF Frame
<1>13. \A q \in v.queries : q.owner \notin D
  BY <1>1, <1>2, <1>3 DEF QueriesSound, Queried
<1>14. \A q \in v.queries : q.owner \in D \cup {NULL} => QuerySound(v, q)
  BY <1>1, <1>2, <1>13, Distinct DEF QueriesSound, QuerySound
<1>15. ASSUME NEW c \in D PROVE ClientSound(v, {}, c) /\ Armed(v, c)
                                 /\ (Queried(v, c) <=> v.client[c].dns = "pending" /\ c \notin v.exited)
  <2>1. v.client[c] = FreeClient /\ c \notin v.unknown /\ ~Released(v, c) /\ c \in Clients
    BY <1>1, <1>3, <1>4, <1>5 DEF Released
  <2>2. ClientSound(v, {}, c)
    BY <1>1, <1>8, <2>1 DEF ClientSound, Live
  <2>3. Armed(v, c)
    BY <1>8, <2>1 DEF Armed, Live
  <2>4. Queried(v, c) <=> v.client[c].dns = "pending" /\ c \notin v.exited
    BY <1>8, <1>13, <2>1 DEF Queried
  <2> QED BY <2>2, <2>3, <2>4
<1>16. Patched(w, v, {}, {}, D, {}, {}, {})
  BY <1>4, <1>10, <1>11, <1>13, <1>14, <1>15 DEF Patched
<1>17. {} \in SUBSET Objects /\ {} \in SUBSET Requests /\ {} \in SUBSET Listeners
       /\ {} \in SUBSET Fds
  OBVIOUS
<1>18. Sound(v, {})
  <2> HIDE DEF D
  <2> QED BY <1>3, <1>12, <1>16, <1>17, Local
<1> QED BY <1>18 DEF v

(* read_client_packet and read_server_packet, once their registration was  *)
(* cleared.                                                                *)
LEMMA ReadPacketSound ==
  ASSUME NEW w, NEW c \in Clients, Sound(w, {c}), Reading(w, c), NEW v \in ReadPacket(w, c)
  PROVE  Sound(v, {})
<1>0. w.client[c].status \in Live
  BY DEF Reading, Live
<1>1. CASE v = exit_client(w, c)
  BY <1>0, <1>1, ExitDead
<1>2. CASE v = Rearm(w, c)
  BY <1>2, RearmSound
<1>3. CASE \E u \in parse_client_queued(w, c) : v = remove_exited_clients(u)
  BY <1>3, ParseSound, RemoveExitedSound
<1> QED BY <1>1, <1>2, <1>3 DEF ReadPacket

(* flood_recalc is set again on a client that is still being read.         *)
LEMMA ReflushSound ==
  ASSUME NEW w, NEW c \in Clients, Sound(w, {}), w.client[c].status \in Live, Released(w, c),
         NEW h, h = NULL \/ h = <<"flood_recalc", c>>
  PROVE  Sound([w EXCEPT !.fds = SetFlush(w.fds, w.client[c].fd, h)], {})
<1> DEFINE f == w.client[c].fd
           v == [w EXCEPT !.fds = SetFlush(w.fds, f, h)]
<1>0. Typed(w) /\ IsWorld(w) /\ w.fds \in Tables
  BY SoundParts DEF Typed
<1>1. w.client[c].status = "connecting" => w.fds.tab[f].connect = <<"serv_connect_callback", c>>
  <2>1. ClientSound(w, {}, c)
    BY SoundClient
  <2> QED BY <2>1 DEF ClientSound
<1>2. /\ f \in Fds /\ w.fds.tab[f].open /\ EntrySound(w, f, w.fds.tab[f])
  BY OwnFd
<1>3. Armed(w, c) /\ (w.fds.tab[f].write = TryConnect /\ w.fds.tab[f].connect = NULL => Excused(w, {}, f))
  <2> HIDE DEF f
  <2> QED BY <1>2, SoundEntry, SoundClient
<1>4. h \in Handles
  BY DEF Handles, Callbacks, Objects
<1> HIDE DEF f
<1>5. SameBlocks(w, v) /\ v.fds = SetFlush(w.fds, f, h)
  BY <1>0, NewTable
<1> HIDE DEF v
<1>6. Touched(w.fds, v.fds, f)
  BY <1>0, <1>2, <1>4, <1>5, SetFlushTouches
<1>7. /\ v.fds.tab[f].flush = h /\ v.fds.tab[f].write = w.fds.tab[f].write
      /\ v.fds.tab[f].connect = w.fds.tab[f].connect /\ v.fds.tab[f].read = w.fds.tab[f].read
  BY <1>0, <1>2, <1>4, <1>5, SetFlushTouches
<1>8. v.fds.tab[f].timer = w.fds.tab[f].timer
  BY <1>0, <1>2, <1>4, <1>5, SetFlushTouches
<1>9. v.fds.tab[f].open
  BY <1>2, <1>6 DEF Touched
<1>10. /\ v.client = w.client /\ v.clients = w.clients /\ v.request = w.request
       /\ v.listener = w.listener /\ v.queries = w.queries
  BY <1>5 DEF SameBlocks
<1>11. EntrySound(v, f, v.fds.tab[f])
  <2>1. w.fds.tab[f].read # NULL => ReadSound(v, f, w.fds.tab[f].read)
    BY <1>2, <1>10 DEF EntrySound, ReadSound, Released
  <2>2. w.fds.tab[f].write # NULL => WriteSound(v, f, w.fds.tab[f].write)
    BY <1>2, <1>7, <1>10 DEF EntrySound, WriteSound, Released
  <2>3. w.fds.tab[f].connect # NULL => ConnectSound(v, f, w.fds.tab[f].connect)
    BY <1>2, <1>10 DEF EntrySound, ConnectSound
  <2>4. h # NULL => FlushSound(v, f, h)
    BY <1>10 DEF FlushSound, Released, f
  <2>5. w.fds.tab[f].timer => w.fds.tab[f].connect # NULL
    BY <1>2 DEF EntrySound
  <2> QED BY <1>7, <1>8, <1>9, <2>1, <2>2, <2>3, <2>4, <2>5 DEF EntrySound
<1>12. Armed(v, c)
  <2>1. TryAllSet(v, c) <=> TryAllSet(w, c)
    BY <1>7, <1>10 DEF TryAllSet, f
  <2> QED BY <1>3, <1>7, <1>10, <2>1 DEF Armed, f, Released
<1>13. Sound(v, {})
  <2>1. {} \in SUBSET {c} /\ f = w.client[c].fd
    BY DEF f
  <2>2. v.fds.tab[f].write = TryConnect /\ v.fds.tab[f].connect = NULL => Excused(w, {}, f)
    BY <1>3, <1>7
  <2> QED BY <1>1, <1>5, <1>6, <1>7, <1>11, <1>12, <2>1, <2>2, RewiredClient
<1> QED BY <1>13 DEF v, f

(* flood_recalc.                                                           *)
LEMMA FloodRecalcSound ==
  ASSUME NEW w, NEW c \in Clients, Sound(w, {}), Released(w, c), NEW v \in flood_recalc(w, c)
  PROVE  Sound(v, {})
<1>1. CASE v = w
  BY <1>1
<1>2. CASE v # w
  <2>1. w.client[c].status = "client"
    BY <1>2 DEF flood_recalc
  <2>2. Sound(w, {c}) /\ Reading(w, c)
    BY <2>1, Weaken DEF Reading
  <2>3. PICK u \in parse_client_queued(w, c) :
          v = IF u.client[c].dead THEN u
              ELSE [u EXCEPT !.fds = SetFlush(u.fds, u.client[c].fd, <<"flood_recalc", c>>)]
    BY <1>2 DEF flood_recalc
  <2>4. Sound(u, {}) /\ (u.client[c].dead \/ Reading(u, c))
    BY <2>2, ParseSound
  <2>5. CASE u.client[c].dead
    BY <2>3, <2>4, <2>5
  <2>6. CASE ~u.client[c].dead
    <3>1. Released(u, c) /\ u.client[c].status \in Live
      BY <2>4, <2>6 DEF Reading, Live
    <3> QED BY <2>3, <2>4, <2>6, <3>1, ReflushSound
  <2> QED BY <2>5, <2>6
<1> QED BY <1>1, <1>2

-----------------------------------------------------------------------------
(* A client is released: its lookups are over, nothing waits for it.       *)

(* u is w without the requests B of c and without its queries.             *)
Answered(w, u, c, B) ==
  /\ IsWorld(u) /\ u.fds \in Tables /\ FdSound(u.fds, FdOf(u))
  /\ \A g \in Fds : u.fds.tab[g] = IF \E b \in B : w.request[b].fd = g THEN ClosedEntry
                                   ELSE w.fds.tab[g]
  /\ u.client \in [Clients -> ClientBlocks]
  /\ u.client[c].status = w.client[c].status /\ u.client[c].fd = w.client[c].fd
  /\ u.client[c].listener = w.client[c].listener /\ u.client[c].dns # "pending"
  /\ u.client[c].dead <=> w.client[c].dead
  /\ \A d \in Clients : d # c => u.client[d] = w.client[d]
  /\ u.unknown = w.unknown /\ u.count = w.count /\ u.clients = w.clients
  /\ u.exited = w.exited /\ u.listener = w.listener
  /\ u.request = [a \in Requests |-> IF a \in B THEN FreeRequest ELSE w.request[a]]
  /\ u.polled = w.polled \ B
  /\ u.queries = {q \in w.queries : q.owner # c}

(* The requests B are those of c, which waits for its lookups.             *)
Waiting(w, c, B) ==
  /\ w.client[c].status = "unknown" /\ ~Released(w, c) /\ ~TryAllSet(w, c)
  /\ \A b \in Requests : w.request[b].client = c <=> b \in B

(* Nothing but a stale registration is on the descriptor of such a client. *)
LEMMA WaitingEntry ==
  ASSUME NEW w, NEW X \in SUBSET Objects, Sound(w, X), NEW c \in Clients,
         w.client[c].status = "unknown", ~Released(w, c), ~TryAllSet(w, c),
         NEW f, f = w.client[c].fd
  PROVE  /\ w.fds.tab[f].read = NULL /\ w.fds.tab[f].connect = NULL /\ ~w.fds.tab[f].timer
         /\ w.fds.tab[f].write = NULL \/ (w.fds.tab[f].write = TryConnect /\ ByName)
         /\ w.fds.tab[f].flush = NULL
<1>0. Typed(w) /\ w.fds \in Tables
  BY SoundParts
<1>1. /\ f \in Fds /\ w.fds.tab[f].open /\ EntrySound(w, f, w.fds.tab[f])
      /\ \A d \in Clients : w.client[d].fd = f => d = c
      /\ \A a \in Requests : w.request[a].fd # f
      /\ \A l \in Listeners : w.listener[l].fd # f
  BY OwnFd DEF Live
<1> DEFINE e == w.fds.tab[f]
<1>2. e.read = NULL
  BY <1>1 DEF EntrySound, ReadSound
<1>3. e.connect = NULL
  BY <1>1 DEF EntrySound, ConnectSound
<1>4. ~e.timer
  BY <1>1, <1>3 DEF EntrySound
<1>5. e.flush = NULL
  BY <1>1 DEF EntrySound, FlushSound
<1>6. e.write = NULL \/ e.write = TryConnect
  <2> SUFFICES ASSUME e.write # NULL, e.write # TryConnect PROVE FALSE
    OBVIOUS
  <2>1. e.write[1] = "comm_tryall_callback" /\ e.write[2] = c
    BY <1>1 DEF EntrySound, WriteSound
  <2>2. e.write \in Handles
    BY <1>0, <1>1 DEF Tables, Entries
  <2>3. e.write = <<e.write[1], e.write[2]>>
    <3> DEFINE h == e.write
    <3>1. h \in Callbacks \X (Objects \cup {NULL})
      BY <2>2 DEF Handles
    <3> HIDE DEF h
    <3>2. h = <<h[1], h[2]>>
      BY <3>1
    <3> QED BY <3>2 DEF h
  <2> QED BY <2>1, <2>3 DEF TryAllSet
<1>7. e.write = TryConnect => ByName
  <2> HAVE e.write = TryConnect
  <2>1. Excused(w, X, f)
    BY <1>1, <1>3, SoundParts
  <2>2. \A x \in X : FdOf(w)[x] = f => x = c
    <3>1. /\ \A d \in Clients : FdOf(w)[d] = w.client[d].fd
          /\ \A a \in Requests : FdOf(w)[a] = w.request[a].fd
          /\ \A l \in Listeners : FdOf(w)[l] = w.listener[l].fd
      BY <1>0, FdOfObjects
    <3> QED BY <1>1, <3>1 DEF Objects
  <2> QED BY <2>1, <2>2 DEF Excused
<1> QED BY <1>2, <1>3, <1>4, <1>5, <1>6, <1>7

(* release_auth_client, for a client whose lookups are over.               *)
LEMMA ReleaseSound ==
  ASSUME NEW w, NEW X \in SUBSET Objects, Sound(w, X), NEW c \in Clients, NEW B \in SUBSET Requests,
         X \subseteq B \cup {c}, Waiting(w, c, B), NEW u, Answered(w, u, c, B),
         NEW v \in release_auth_client(u, c)
  PROVE  Sound(v, {})
<1> DEFINE f == w.client[c].fd
           h == <<"flood_recalc", c>>
           x == add_client_to_list([u EXCEPT !.fds = SetFlush(@, u.client[c].fd, <<"flood_recalc", c>>)], c)
           C == {g \in Fds : \E b \in B : w.request[b].fd = g}
           G == C \cup {f}
<1>1. /\ w.client[c].status = "unknown" /\ ~Released(w, c) /\ ~TryAllSet(w, c)
      /\ \A b \in Requests : w.request[b].client = c <=> b \in B
  BY DEF Waiting
<1>2. /\ IsWorld(u) /\ u.fds \in Tables /\ FdSound(u.fds, FdOf(u))
      /\ \A g \in Fds : u.fds.tab[g] = IF g \in C THEN ClosedEntry ELSE w.fds.tab[g]
      /\ u.client \in [Clients -> ClientBlocks]
      /\ u.client[c].status = w.client[c].status /\ u.client[c].fd = f
      /\ u.client[c].listener = w.client[c].listener /\ u.client[c].dns # "pending"
      /\ u.client[c].dead <=> w.client[c].dead
      /\ \A d \in Clients : d # c => u.client[d] = w.client[d]
  BY DEF Answered
<1>3. /\ u.unknown = w.unknown /\ u.count = w.count /\ u.clients = w.clients
      /\ u.exited = w.exited /\ u.listener = w.listener
      /\ u.request = [a \in Requests |-> IF a \in B THEN FreeRequest ELSE w.request[a]]
      /\ u.polled = w.polled \ B
      /\ u.queries = {q \in w.queries : q.owner # c}
  BY DEF Answered
<1>4. /\ Typed(w) /\ OwnFds(w) /\ w.request \in [Requests -> RequestBlocks]
      /\ w.queries \in SUBSET QueryBlocks
      /\ \A a \in Requests : RequestSound(w, X, a)
      /\ QueriesSound(w) /\ IsInjective(w.clients)
      /\ \A d \in Clients : ClientSound(w, X, d)
  BY SoundParts
<1>5. /\ w.clients \in Seq(Clients) /\ w.exited \in SUBSET Clients
      /\ w.unknown \in SUBSET Clients /\ w.count \in Int
      /\ w.polled \in SUBSET Requests /\ w.listener \in [Listeners -> ListenerBlocks]
  BY <1>4 DEF Typed
<1>6. /\ f \in Fds /\ w.fds.tab[f].open
      /\ \A d \in Clients : w.client[d].fd = f => d = c
      /\ \A a \in Requests : w.request[a].fd # f
      /\ \A l \in Listeners : w.listener[l].fd # f
  BY <1>1, OwnFd DEF Live
<1>7. /\ w.fds.tab[f].read = NULL /\ w.fds.tab[f].connect = NULL /\ ~w.fds.tab[f].timer
      /\ w.fds.tab[f].write = NULL \/ (w.fds.tab[f].write = TryConnect /\ ByName)
  BY <1>1, WaitingEntry
<1>8. f \notin C /\ G \in SUBSET Fds
  BY <1>6
<1>9. v \in ReadPacket(x, c)
  BY DEF release_auth_client
<1>10. /\ IsWorld(x) /\ x.fds = SetFlush(u.fds, f, h)
       /\ x.client = u.client /\ x.unknown = u.unknown /\ x.count = u.count
       /\ x.clients = <<c>> \o u.clients /\ x.exited = u.exited /\ x.request = u.request
       /\ x.polled = u.polled /\ x.queries = u.queries /\ x.listener = u.listener
  <2>1. u.client[c].fd = f /\ IsWorld(u)
    BY <1>2
  <2>2. x = add_client_to_list([u EXCEPT !.fds = SetFlush(u.fds, f, h)], c)
    BY <2>1
  <2> HIDE DEF x, f, h
  <2> QED BY <2>1, <2>2 DEF add_client_to_list, IsWorld
<1> HIDE DEF x, f, h, C
<1>11. h \in Handles /\ h # NULL
  BY Distinct DEF h, Handles, Callbacks, Objects
<1>12. Touched(u.fds, x.fds, f)
  BY <1>2, <1>6, <1>10, <1>11, SetFlushTouches
<1>13. /\ x.fds.tab[f].flush = h /\ x.fds.tab[f].write = u.fds.tab[f].write
       /\ x.fds.tab[f].connect = u.fds.tab[f].connect /\ x.fds.tab[f].read = u.fds.tab[f].read
  BY <1>2, <1>6, <1>10, <1>11, SetFlushTouches
<1>14. x.fds.tab[f].timer = u.fds.tab[f].timer
  BY <1>2, <1>6, <1>10, <1>11, SetFlushTouches
<1>15. /\ x.fds \in Tables /\ x.fds.number = u.fds.number /\ x.fds.highest = u.fds.highest
       /\ x.fds.tab[f].open = u.fds.tab[f].open
       /\ \A g \in Fds : g # f => x.fds.tab[g] = u.fds.tab[g]
  BY <1>12 DEF Touched
<1>16. FdSound(x.fds, FdOf(x))
  <2>1. FdOf(x) = FdOf(u)
    BY <1>10 DEF FdOf
  <2>2. \A g \in Fds : x.fds.tab[g].open = u.fds.tab[g].open
    BY <1>15
  <2> QED BY <1>2, <1>15, <2>1, <2>2, FdSame
<1>17. x.clients \in Seq(Clients) /\ IsInjective(x.clients)
       /\ ToSet(x.clients) = ToSet(w.clients) \cup {c}
  BY <1>1, <1>3, <1>4, <1>5, <1>10, LongerList DEF Released
<1>18. FreeRequest \in RequestBlocks /\ FreeRequest.fd = -1 /\ FreeRequest.client = NULL
       /\ FreeRequest.ident = "no"
  BY DEF FreeRequest, RequestBlocks
<1>19. Typed(x)
  <2>1. x.request \in [Requests -> RequestBlocks]
    BY <1>3, <1>4, <1>10, <1>18
  <2>2. x.polled \in SUBSET Requests /\ x.queries \in SUBSET QueryBlocks
    BY <1>3, <1>4, <1>5, <1>10
  <2>3. x.unknown \in SUBSET Clients /\ x.count \in Int /\ x.exited \in SUBSET Clients
        /\ x.listener \in [Listeners -> ListenerBlocks]
    BY <1>3, <1>5, <1>10
  <2> QED BY <1>2, <1>10, <1>15, <1>17, <2>1, <2>2, <2>3 DEF Typed
<1>20. Released(x, c) /\ \A d \in Clients : d # c => (Released(x, d) <=> Released(w, d))
  BY <1>17 DEF Released
<1>21. Frame(w, x, {c}, B, {}, G)
  <2>1. \A d \in Clients \ {c} :
       /\ x.client[d] = w.client[d] /\ (Released(x, d) <=> Released(w, d))
       /\ (d \in x.unknown <=> d \in w.unknown) /\ (d \in x.exited <=> d \in w.exited)
       /\ w.client[d].fd \notin G
    <3> TAKE d \in Clients \ {c}
    <3>1. w.client[d].fd \notin C
      BY <1>4, FdFacts DEF C, OwnFds
    <3> QED BY <1>2, <1>3, <1>6, <1>10, <1>20, <3>1
  <2>2. w.client[c].fd \in G
    BY DEF f
  <2>3. \A a \in Requests \ B :
       /\ x.request[a] = w.request[a] /\ (a \in x.polled <=> a \in w.polled)
       /\ w.request[a].fd \notin G /\ w.request[a].client \notin {c}
    <3> TAKE a \in Requests \ B
    <3>1. w.request[a].fd \notin C
      BY <1>4, FdFacts DEF C, OwnFds
    <3> QED BY <1>1, <1>3, <1>6, <1>10, <3>1
  <2>4. \A a \in B : /\ w.request[a].client \in {c} \cup {NULL} /\ x.request[a].client \in {c} \cup {NULL}
                     /\ w.request[a].fd \in G \cup {-1}
    <3> TAKE a \in B
    <3>1. w.request[a].fd \in C \cup {-1}
      BY <1>4 DEF C, RequestBlocks
    <3> QED BY <1>1, <1>3, <1>10, <1>18, <3>1
  <2>5. \A l \in Listeners :
       /\ x.listener[l] = w.listener[l] /\ w.listener[l].fd \notin G
       /\ \A d \in {c} : x.client[d].listener = l <=> w.client[d].listener = l
    <3> TAKE l \in Listeners
    <3>1. w.listener[l].fd \notin C
      BY <1>4, FdFacts DEF C, OwnFds
    <3> QED BY <1>2, <1>3, <1>6, <1>10, <3>1
  <2>6. \A g \in Fds \ G : x.fds.tab[g] = w.fds.tab[g]
    BY <1>2, <1>15
  <2>7. \A g \in Fds \ G : DnsQuery(g) \in w.queries => DnsQuery(g) \in x.queries
    BY <1>3, <1>10, Distinct DEF DnsQuery
  <2>8. \A q : q.owner \in Clients \ {c} => (q \in x.queries <=> q \in w.queries)
    BY <1>3, <1>10
  <2> HIDE DEF G
  <2> QED BY <2>1, <2>2, <2>3, <2>4, <2>5, <2>6, <2>7, <2>8 DEF Frame
<1>22. \A g \in G :
       /\ EntrySound(x, g, x.fds.tab[g])
       /\ x.fds.tab[g].write = TryConnect /\ x.fds.tab[g].connect = NULL => Excused(x, {c}, g)
  <2> TAKE g \in G
  <2>1. CASE g = f
    <3>1. FlushSound(x, f, h)
      BY <1>2, <1>10, <1>20 DEF FlushSound, h
    <3>2. x.fds.tab[f].open /\ x.fds.tab[f].read = NULL /\ x.fds.tab[f].connect = NULL
          /\ ~x.fds.tab[f].timer
      BY <1>2, <1>6, <1>7, <1>8, <1>13, <1>14, <1>15
    <3>3. x.fds.tab[f].write = NULL \/ (x.fds.tab[f].write = TryConnect /\ ByName)
      BY <1>2, <1>6, <1>7, <1>8, <1>13
    <3>4. EntrySound(x, f, x.fds.tab[f])
      BY <1>13, <3>1, <3>2, <3>3 DEF EntrySound, WriteSound
    <3>5. x.fds.tab[f].write = TryConnect => Excused(x, {c}, f)
      BY <3>3, Distinct DEF Excused, TryConnect, Callbacks
    <3> QED BY <2>1, <3>4, <3>5
  <2>2. CASE g # f
    <3>1. x.fds.tab[g] = ClosedEntry
      BY <1>2, <1>8, <1>15, <2>2
    <3>2. ClosedEntry.write # TryConnect
      BY Distinct DEF ClosedEntry, TryConnect, Callbacks
    <3> QED BY <3>1, <3>2, ClosedSound
  <2> QED BY <2>1, <2>2
<1>23. \A a \in B : RequestSound(x, {c}, a)
  BY <1>3, <1>10, <1>18 DEF RequestSound
<1>24. /\ \A q \in x.queries : q.owner # c
       /\ \A q \in x.queries : q.owner \in {c} \cup {NULL} => QuerySound(x, q)
  BY <1>3, <1>4, <1>10, Distinct DEF QueriesSound, QuerySound
<1>25. ~Queried(x, c) /\ x.client[c].dns # "pending"
  BY <1>2, <1>10, <1>24 DEF Queried
<1>26. ClientSound(x, {c}, c)
  <2>1. ClientSound(w, X, c)
    BY <1>4
  <2> QED BY <1>1, <1>2, <1>3, <1>6, <1>10, <1>20, <2>1, FdFacts DEF ClientSound, Live
<1>27. \A y \in X \ {c} : y \in {c} \cup B \cup Listeners /\ FdOf(w)[y] \in G \cup {-1}
  <2> TAKE y \in X \ {c}
  <2>1. y \in B /\ y \in Requests
    OBVIOUS
  <2>2. FdOf(w)[y] = w.request[y].fd /\ w.request[y].fd \in C \cup {-1}
    BY <1>4, <2>1, FdOfObjects DEF C, RequestBlocks
  <2> QED BY <2>1, <2>2
<1>28. {c} \in SUBSET Objects /\ {c} \in SUBSET Clients /\ {} \in SUBSET Listeners
  BY DEF Objects
<1>29. Patched(w, x, X, {c}, {c}, B, {}, G)
  <2> HIDE DEF G
  <2> QED BY <1>16, <1>17, <1>19, <1>22, <1>23, <1>24, <1>25, <1>26, <1>27 DEF Patched
<1>30. Sound(x, {c})
  <2> HIDE DEF G
  <2> QED BY <1>8, <1>21, <1>28, <1>29, Local
<1>31. Reading(x, c)
  BY <1>1, <1>2, <1>10, <1>20 DEF Reading
<1> QED BY <1>9, <1>30, <1>31, ReadPacketSound

-----------------------------------------------------------------------------
(* The end of a lookup.                                                    *)

(* A request, and the client that waits for it.                            *)
LEMMA RequestOf ==
  ASSUME NEW w, NEW X \in SUBSET Objects, Sound(w, X), NEW a \in Requests, w.request[a].client # NULL,
         NEW c, c = w.request[a].client
  PROVE  /\ c \in Clients /\ Waiting(w, c, {a}) /\ a \in w.polled
         /\ w.client[c].status \in Live /\ ~w.client[c].dead /\ c \notin w.exited
         /\ ~w.request[a].dns => ~Queried(w, c) /\ w.client[c].dns # "pending"
<1>1. /\ Typed(w) /\ w.request \in [Requests -> RequestBlocks]
      /\ \A b \in Requests : RequestSound(w, X, b)
      /\ QueriesSound(w) /\ \A d \in Clients : ClientSound(w, X, d)
  BY SoundParts
<1>2. c \in Clients
  BY <1>1 DEF RequestBlocks
<1>3. /\ w.client[c].status = "unknown" /\ ~Released(w, c) /\ ~TryAllSet(w, c)
      /\ \A b \in Requests : w.request[b].client = c => b = a
      /\ a \in w.polled
  BY <1>1 DEF RequestSound
<1>4. Waiting(w, c, {a})
  BY <1>3 DEF Waiting
<1>5. ~w.client[c].dead /\ c \notin w.exited
  BY <1>1, <1>2, <1>3 DEF ClientSound
<1>6. ASSUME ~w.request[a].dns PROVE ~Queried(w, c) /\ w.client[c].dns # "pending"
  <2>1. ~Queried(w, c)
    <3> SUFFICES ASSUME NEW q \in w.queries, q.owner = c PROVE FALSE
      BY DEF Queried
    <3>1. QuerySound(w, q)
      BY <1>1 DEF QueriesSound
    <3>2. Asked(w, c)
      BY DEF Asked
    <3> QED BY <1>2, <1>3, <1>6, <3>1, <3>2, Distinct DEF QuerySound
  <2> QED BY <1>1, <1>2, <1>5, <2>1 DEF QueriesSound
<1> QED BY <1>2, <1>3, <1>4, <1>5, <1>6 DEF Live

(* A request that has no descriptor needs no excuse for it.                *)
LEMMA Unexcused ==
  ASSUME NEW w, NEW a \in Requests, Sound(w, {a}), w.request[a].fd = -1, w.request[a].dns
  PROVE  Sound(w, {})
<1>0. Typed(w)
  BY SoundParts
<1>1. FdOf(w)[a] = -1
  BY <1>0, FdOfObjects
<1>2. \A f \in Fds : Excused(w, {a}, f) => Excused(w, {}, f)
  BY <1>1, FdFacts DEF Excused
<1>3. EntriesSound(w, {})
  BY <1>2 DEF Sound, EntriesSound
<1>4. RequestsSound(w, {})
  BY DEF Sound, RequestsSound, RequestSound
<1>5. ClientsSound(w, {}) /\ AllArmed(w, {})
  BY Distinct DEF Sound, ClientsSound, ClientSound, AllArmed
<1> QED BY <1>3, <1>4, <1>5 DEF Sound

(* The end of a lookup releases the client, or waits for the other.        *)
LEMMA FinishSound ==
  ASSUME NEW w, NEW a \in Requests, Sound(w, {a}), w.request[a].client # NULL,
         w.request[a].ident # "no" => Sound(w, {}), NEW v \in FinishAuth(w, a)
  PROVE  Sound(v, {})
<1> DEFINE c == w.request[a].client
<1>0. {a} \in SUBSET Objects /\ {a} \in SUBSET Requests
  BY DEF Objects
<1>1. /\ c \in Clients /\ Waiting(w, c, {a})
      /\ ~w.request[a].dns => ~Queried(w, c) /\ w.client[c].dns # "pending"
  BY <1>0, RequestOf
<1>2. /\ Typed(w) /\ FdSound(w.fds, FdOf(w)) /\ RequestSound(w, {a}, a)
      /\ w.request \in [Requests -> RequestBlocks] /\ w.client \in [Clients -> ClientBlocks]
  BY SoundParts
<1>3. CASE w.request[a].ident # "no"
  BY <1>3 DEF FinishAuth
<1>4. CASE w.request[a].ident = "no" /\ w.request[a].dns
  <2>1. v = w
    BY <1>4 DEF FinishAuth
  <2>2. w.request[a].fd = -1
    BY <1>2, <1>4 DEF RequestSound
  <2> QED BY <1>4, <2>1, <2>2, Unexcused
<1>5. CASE w.request[a].ident = "no" /\ ~w.request[a].dns
  <2> DEFINE u1 == unlink_auth_request(w, a)
             u == free_auth_request(u1, a)
  <2>1. v \in release_auth_client(u, c)
    BY <1>5 DEF FinishAuth
  <2>2. w.request[a].fd = -1
    BY <1>2, <1>5 DEF RequestSound
  <2>3. IsWorld(w)
    BY <1>2 DEF Typed
  <2>4. /\ IsWorld(u1) /\ u1.fds = w.fds /\ u1.client = w.client
        /\ u1.unknown = w.unknown /\ u1.count = w.count
        /\ u1.clients = w.clients /\ u1.exited = w.exited /\ u1.request = w.request
        /\ u1.polled = w.polled \ {a} /\ u1.queries = w.queries /\ u1.listener = w.listener
    BY <2>3 DEF unlink_auth_request, IsWorld
  <2> HIDE DEF u1
  <2>5. /\ IsWorld(u) /\ u.fds = u1.fds /\ u.client = u1.client
        /\ u.unknown = u1.unknown /\ u.count = u1.count
        /\ u.clients = u1.clients /\ u.exited = u1.exited
        /\ u.request = [u1.request EXCEPT ![a] = FreeRequest]
        /\ u.polled = u1.polled /\ u.queries = u1.queries /\ u.listener = u1.listener
    BY <2>4 DEF free_auth_request, IsWorld
  <2> HIDE DEF u, c
  <2>6. u.request = [b \in Requests |-> IF b \in {a} THEN FreeRequest ELSE w.request[b]]
    BY <1>2, <2>4, <2>5
  <2>7. \A b \in Requests : u.request[b].fd = w.request[b].fd
    BY <2>2, <2>6 DEF FreeRequest
  <2>8. FdOf(u) = FdOf(w)
    BY <2>4, <2>5, <2>7 DEF FdOf
  <2>9. w.queries = {q \in w.queries : q.owner # c}
    BY <1>1, <1>5 DEF Queried
  <2>10. \A g \in Fds : ~(\E b \in {a} : w.request[b].fd = g)
    BY <2>2, FdFacts
  <2>11. w.fds \in Tables
    BY <1>2 DEF Typed
  <2>12. Answered(w, u, c, {a})
    BY <1>1, <1>2, <1>5, <2>4, <2>5, <2>6, <2>8, <2>9, <2>10, <2>11 DEF Answered
  <2>13. {a} \subseteq {a} \cup {c}
    OBVIOUS
  <2> QED BY <1>0, <1>1, <2>1, <2>12, <2>13, ReleaseSound
<1> QED BY <1>3, <1>4, <1>5

(* The ident lookup is over: its descriptor is closed.                     *)
LEMMA IdentClosed ==
  ASSUME NEW w, NEW a \in Requests, Sound(w, {a}), w.request[a].client # NULL, w.request[a].fd # -1
  PROVE  LET u == [CloseIdent(w, a) EXCEPT !.request[a].ident = "no"]
         IN Sound(u, {a}) /\ u.request[a].client # NULL /\ u.request[a].ident = "no"
<1> DEFINE c == w.request[a].client
           g == w.request[a].fd
           x == CloseIdent(w, a)
           u == [x EXCEPT !.request[a].ident = "no"]
<1>0. {a} \in SUBSET Objects /\ {a} \in SUBSET Requests
  BY DEF Objects
<1>1. /\ c \in Clients /\ Waiting(w, c, {a}) /\ a \in w.polled
      /\ w.client[c].status \in Live
  BY <1>0, RequestOf
<1>2. /\ Typed(w) /\ FdSound(w.fds, FdOf(w)) /\ OwnFds(w) /\ w.fds \in Tables
      /\ w.request \in [Requests -> RequestBlocks] /\ QueriesSound(w)
      /\ \A d \in Clients : ClientSound(w, {a}, d)
      /\ IsInjective(w.clients) /\ \A b \in Requests : RequestSound(w, {a}, b)
  BY SoundParts
<1>3. g \in Fds /\ w.fds.tab[g].open /\ g >= 0
  BY <1>2, FdFacts DEF OwnFds
<1>4. IsWorld(w)
  BY <1>2 DEF Typed
<1>5. /\ IsWorld(x) /\ x.fds = fd_close(w.fds, g)
      /\ x.client = w.client /\ x.unknown = w.unknown /\ x.count = w.count
      /\ x.clients = w.clients /\ x.exited = w.exited
      /\ x.request = [w.request EXCEPT ![a].fd = -1]
      /\ x.polled = w.polled /\ x.queries = w.queries /\ x.listener = w.listener
  BY <1>3, <1>4 DEF CloseIdent, IsWorld
<1> HIDE DEF x
<1>6. /\ IsWorld(u) /\ u.fds = x.fds
      /\ u.client = x.client /\ u.unknown = x.unknown /\ u.count = x.count
      /\ u.clients = x.clients /\ u.exited = x.exited
      /\ u.request = [x.request EXCEPT ![a].ident = "no"]
      /\ u.polled = x.polled /\ u.queries = x.queries /\ u.listener = x.listener
  BY <1>5 DEF IsWorld
<1> HIDE DEF u
<1>7. /\ u.request \in [Requests -> RequestBlocks]
      /\ u.request[a].client = c /\ u.request[a].fd = -1 /\ u.request[a].ident = "no"
      /\ \A b \in Requests : b # a => u.request[b] = w.request[b]
  <2>1. /\ x.request \in [Requests -> RequestBlocks]
        /\ x.request[a].client = c /\ x.request[a].fd = -1
        /\ \A b \in Requests : b # a => x.request[b] = w.request[b]
    BY <1>2, <1>5 DEF RequestBlocks
  <2> QED BY <1>6, <2>1 DEF RequestBlocks
<1>8. u.request[a].dns = w.request[a].dns
  <2>1. x.request[a].dns = w.request[a].dns /\ x.request \in [Requests -> RequestBlocks]
    BY <1>2, <1>5 DEF RequestBlocks
  <2> QED BY <1>6, <2>1 DEF RequestBlocks
<1> HIDE DEF c, g
<1>9. /\ u.fds \in Tables /\ u.fds.tab = [w.fds.tab EXCEPT ![g] = ClosedEntry]
      /\ FdSound(u.fds, Without(FdOf(w), {g}))
  <2>1. FdOf(w) \in [Objects -> Fds \cup {-1}]
    BY <1>2, FdOfObjects
  <2>2. /\ fd_close(w.fds, g) \in Tables
        /\ fd_close(w.fds, g).tab = [w.fds.tab EXCEPT ![g] = ClosedEntry]
        /\ FdSound(fd_close(w.fds, g), Without(FdOf(w), {g}))
    BY <1>2, <1>3, <2>1, FdClose
  <2>3. u.fds = fd_close(w.fds, g)
    BY <1>5, <1>6
  <2> QED BY <2>2, <2>3
<1>10. /\ u.client = w.client /\ u.unknown = w.unknown /\ u.count = w.count
       /\ u.clients = w.clients /\ u.exited = w.exited
       /\ u.polled = w.polled /\ u.queries = w.queries /\ u.listener = w.listener
  BY <1>5, <1>6
<1>11. Typed(u)
  BY <1>2, <1>6, <1>7, <1>9, <1>10 DEF Typed
<1>12. FdSound(u.fds, FdOf(u))
  <2> DEFINE k == Without(FdOf(w), {g})
  <2>1. /\ k \in [Objects -> Fds \cup {-1}]
        /\ \A y \in Objects : k[y] = IF FdOf(w)[y] = g THEN -1 ELSE FdOf(w)[y]
    BY <1>2, FdOfObjects DEF Without
  <2>2. /\ \A d \in Clients : FdOf(w)[d] = w.client[d].fd /\ d \in Objects
        /\ \A b \in Requests : FdOf(w)[b] = w.request[b].fd /\ b \in Objects
        /\ \A l \in Listeners : FdOf(w)[l] = w.listener[l].fd /\ l \in Objects
    BY <1>2, FdOfObjects DEF Objects
  <2> HIDE DEF k
  <2>3. \A d \in Clients : u.client[d].fd = k[d]
    BY <1>2, <1>3, <1>10, <2>1, <2>2, FdFacts DEF OwnFds, g
  <2>4. \A b \in Requests : u.request[b].fd = k[b]
    <3> TAKE b \in Requests
    <3>1. CASE b = a
      BY <1>7, <2>1, <2>2, <3>1 DEF g
    <3>2. CASE b # a
      <4>1. w.request[b].fd # g
        BY <1>2, <1>3, <3>2, FdFacts DEF OwnFds, g
      <4> QED BY <1>7, <2>1, <2>2, <3>2, <4>1
    <3> QED BY <3>1, <3>2
  <2>5. \A l \in Listeners : u.listener[l].fd = k[l]
    BY <1>2, <1>3, <1>10, <2>1, <2>2, FdFacts DEF OwnFds, g
  <2>6. FdOf(u) = k
    BY <2>1, <2>3, <2>4, <2>5, FdOfIs
  <2> QED BY <1>9, <2>6 DEF k
<1>13. \A d : (Released(u, d) <=> Released(w, d)) /\ (Queried(u, d) <=> Queried(w, d))
  BY <1>10 DEF Released, Queried
<1>14. \A d : Asked(u, d) <=> Asked(w, d)
  BY <1>7 DEF Asked, c
<1>15. Frame(w, u, {c}, {a}, {}, {g})
  <2>1. \A d \in Clients : w.client[d].fd # g
    BY <1>2, <1>3, FdFacts DEF OwnFds, g
  <2>2. \A b \in Requests \ {a} : w.request[b].fd # g
    BY <1>2, <1>3, FdFacts DEF OwnFds, g
  <2>3. \A l \in Listeners : w.listener[l].fd # g
    BY <1>2, <1>3, FdFacts DEF OwnFds, g
  <2>4. \A b \in Requests \ {a} : w.request[b].client # c
    BY <1>1 DEF Waiting
  <2>5. \A f \in Fds \ {g} : u.fds.tab[f] = w.fds.tab[f]
    BY <1>2, <1>9 DEF Tables
  <2>6. w.request[a].fd = g /\ w.request[a].client = c
    BY DEF g, c
  <2> QED BY <1>7, <1>10, <1>13, <2>1, <2>2, <2>3, <2>4, <2>5, <2>6 DEF Frame
<1>16. EntrySound(u, g, u.fds.tab[g]) /\ u.fds.tab[g].write # TryConnect
  <2>1. u.fds.tab[g] = ClosedEntry
    BY <1>2, <1>3, <1>9 DEF Tables
  <2>2. ClosedEntry.write # TryConnect
    BY Distinct DEF ClosedEntry, TryConnect, Callbacks
  <2> QED BY <2>1, <2>2, ClosedSound
<1>17. TryAllSet(u, c) <=> TryAllSet(w, c)
  <2>1. w.client[c].fd # g
    BY <1>1, <1>2, <1>3, FdFacts DEF OwnFds, g
  <2>2. w.client[c].fd \in Fds
    BY <1>1, OwnFd
  <2>3. u.fds.tab[w.client[c].fd] = w.fds.tab[w.client[c].fd]
    BY <1>2, <1>9, <2>1, <2>2 DEF Tables
  <2> QED BY <1>10, <2>3 DEF TryAllSet
<1>18. RequestSound(u, {a}, a)
  <2>1. c # NULL /\ \A b \in Requests : u.request[b].client = c => b = a
    BY <1>1, <1>7, Distinct DEF Waiting
  <2>2. u.client[c].status = "unknown" /\ ~Released(u, c) /\ ~TryAllSet(u, c)
    BY <1>1, <1>10, <1>13, <1>17 DEF Waiting
  <2> QED BY <1>1, <1>7, <1>10, <2>1, <2>2 DEF RequestSound
<1>19. \A q \in u.queries : q.owner \in {c} \cup {NULL} => QuerySound(u, q)
  <2> TAKE q \in u.queries
  <2> HAVE q.owner \in {c} \cup {NULL}
  <2>1. QuerySound(w, q)
    BY <1>2, <1>10 DEF QueriesSound
  <2>2. Asked(w, c)
    BY DEF Asked, c
  <2>3. q.callback # "lookup_dns_callback"
    BY <2>1, <2>2, Distinct DEF QuerySound
  <2>4. \A b \in Requests : u.request[b].client = w.request[b].client
                            /\ (u.request[b].dns <=> w.request[b].dns)
    BY <1>7, <1>8 DEF c
  <2> QED BY <2>1, <2>3, <2>4 DEF QuerySound
<1>20. \A q, r \in u.queries : q.owner = r.owner /\ q.owner \in {c} => q = r
  BY <1>1, <1>2, <1>10, Distinct DEF QueriesSound
<1>21. Queried(u, c) <=> u.client[c].dns = "pending" /\ c \notin u.exited
  BY <1>1, <1>2, <1>10, <1>13 DEF QueriesSound
<1>22. ClientSound(u, {a}, c)
  <2>1. ClientSound(w, {a}, c) /\ w.client[c].status = "unknown"
    BY <1>1, <1>2 DEF Waiting
  <2> QED BY <1>10, <1>13, <2>1 DEF ClientSound
<1>23. Armed(u, c)
  <2>1. Asked(u, c) /\ u.client[c].status = "unknown" /\ ~Released(u, c)
    BY <1>1, <1>7, <1>10, <1>13 DEF Asked, Waiting
  <2> QED BY <2>1 DEF Armed
<1>24. Patched(w, u, {a}, {a}, {c}, {a}, {}, {g})
  BY <1>2, <1>10, <1>11, <1>12, <1>16, <1>18, <1>19, <1>20, <1>21, <1>22, <1>23 DEF Patched
<1>25. {c} \in SUBSET Clients /\ {} \in SUBSET Listeners /\ {g} \in SUBSET Fds
  BY <1>1, <1>3
<1>26. Sound(u, {a})
  BY <1>0, <1>15, <1>24, <1>25, Local
<1>27. u.request[a].client # NULL
  BY <1>7 DEF c
<1> QED BY <1>7, <1>26, <1>27 DEF u, x

(* auth_error and the end of read_auth_reply.                              *)
LEMMA IdentDoneSound ==
  ASSUME NEW w, NEW a \in Requests, Sound(w, {a}), w.request[a].client # NULL,
         w.request[a].fd # -1, NEW v \in IdentDone(w, a)
  PROVE  Sound(v, {})
<1> DEFINE u == [CloseIdent(w, a) EXCEPT !.request[a].ident = "no"]
<1>1. Sound(u, {a}) /\ u.request[a].client # NULL /\ u.request[a].ident = "no"
  BY IdentClosed
<1>2. v \in FinishAuth(u, a)
  BY DEF IdentDone
<1> HIDE DEF u
<1> QED BY <1>1, <1>2, FinishSound

-----------------------------------------------------------------------------
(* Connect callbacks.                                                      *)

(* Which handlers are sound does not depend on the table.                  *)
LEMMA SameHandlers ==
  ASSUME NEW w, NEW v, SameBlocks(w, v), NEW f, NEW h
  PROVE  /\ ReadSound(v, f, h) <=> ReadSound(w, f, h)
         /\ ConnectSound(v, f, h) <=> ConnectSound(w, f, h)
         /\ FlushSound(v, f, h) <=> FlushSound(w, f, h)
BY DEF SameBlocks, ReadSound, ConnectSound, FlushSound, Released

(* The descriptor of an ident lookup, and what may be registered on it.    *)
LEMMA IdentFd ==
  ASSUME NEW w, NEW X, Sound(w, X), NEW a \in Requests, w.request[a].fd # -1,
         NEW f, f = w.request[a].fd
  PROVE  /\ f \in Fds /\ w.fds.tab[f].open /\ EntrySound(w, f, w.fds.tab[f])
         /\ FdOf(w)[a] = f /\ w.request[a].client # NULL /\ w.request[a].ident # "no"
         /\ \A b \in Requests : w.request[b].fd = f => b = a
         /\ \A d \in Clients : w.client[d].fd # f
         /\ \A l \in Listeners : w.listener[l].fd # f
         /\ w.fds.tab[f].flush = NULL
         /\ w.fds.tab[f].write = NULL \/ w.fds.tab[f].write = TryConnect
         /\ w.fds.tab[f].read # NULL => w.request[a].ident = "pending"
         /\ w.fds.tab[f].connect # NULL => w.request[a].ident = "connecting"
<1>1. /\ Typed(w) /\ OwnFds(w) /\ RequestSound(w, X, a) /\ \A g \in Fds : EntrySound(w, g, w.fds.tab[g])
  BY SoundParts
<1>2. /\ f \in Fds /\ w.fds.tab[f].open
      /\ \A b \in Requests : w.request[b].fd = f => b = a
      /\ \A d \in Clients : w.client[d].fd # f
      /\ \A l \in Listeners : w.listener[l].fd # f
  BY <1>1 DEF OwnFds
<1>3. EntrySound(w, f, w.fds.tab[f])
  BY <1>1, <1>2
<1>4. FdOf(w)[a] = f
  BY <1>1, FdOfObjects
<1>5. w.request[a].client # NULL /\ w.request[a].ident # "no"
  BY <1>1 DEF RequestSound, FreeRequest
<1>6. w.fds.tab[f].flush = NULL
  BY <1>2, <1>3 DEF EntrySound, FlushSound
<1>7. w.fds.tab[f].write = NULL \/ w.fds.tab[f].write = TryConnect
  BY <1>2, <1>3 DEF EntrySound, WriteSound
<1>8. w.fds.tab[f].read # NULL => w.request[a].ident = "pending"
  BY <1>2, <1>3 DEF EntrySound, ReadSound
<1>9. w.fds.tab[f].connect # NULL => w.request[a].ident = "connecting"
  BY <1>2, <1>3 DEF EntrySound, ConnectSound
<1> QED BY <1>2, <1>3, <1>4, <1>5, <1>6, <1>7, <1>8, <1>9

(* The read registration of an ident descriptor.                           *)
LEMMA SetReadRequest ==
  ASSUME NEW w, NEW a \in Requests, Sound(w, {}), w.request[a].fd # -1, NEW h,
         h = NULL \/ (h = <<"read_auth_reply", a>> /\ w.request[a].ident = "pending")
  PROVE  /\ Sound([w EXCEPT !.fds = SetRead(w.fds, w.request[a].fd, h)], {})
         /\ [w EXCEPT !.fds = SetRead(w.fds, w.request[a].fd, h)].request = w.request
<1> DEFINE f == w.request[a].fd
           v == [w EXCEPT !.fds = SetRead(w.fds, f, h)]
<1>0. Typed(w) /\ IsWorld(w) /\ w.fds \in Tables
  BY SoundParts DEF Typed
<1>1. /\ f \in Fds /\ w.fds.tab[f].open /\ EntrySound(w, f, w.fds.tab[f])
      /\ w.fds.tab[f].write = NULL \/ w.fds.tab[f].write = TryConnect
  BY IdentFd
<1>2. w.fds.tab[f].write = TryConnect /\ w.fds.tab[f].connect = NULL => Excused(w, {}, f)
  <2> HIDE DEF f
  <2> QED BY <1>1, SoundEntry
<1>3. h \in Handles
  BY DEF Handles, Callbacks, Objects
<1>4. f = w.request[a].fd
  OBVIOUS
<1> HIDE DEF f
<1>5. SameBlocks(w, v) /\ v.fds = SetRead(w.fds, f, h)
  BY <1>0, NewTable
<1> HIDE DEF v
<1>6. Touched(w.fds, v.fds, f)
  BY <1>0, <1>1, <1>3, <1>5, SetReadTouches
<1>7. /\ v.fds.tab[f].read = h /\ v.fds.tab[f].write = w.fds.tab[f].write
      /\ v.fds.tab[f].connect = w.fds.tab[f].connect /\ v.fds.tab[f].flush = w.fds.tab[f].flush
  BY <1>0, <1>1, <1>3, <1>5, SetReadTouches
<1>8. v.fds.tab[f].timer = w.fds.tab[f].timer
  BY <1>0, <1>1, <1>3, <1>5, SetReadTouches
<1>9. v.fds.tab[f].open
  BY <1>1, <1>6 DEF Touched
<1>10. EntrySound(v, f, v.fds.tab[f])
  <2>1. h # NULL => ReadSound(v, f, h)
    BY <1>4, <1>5 DEF ReadSound, SameBlocks
  <2>2. w.fds.tab[f].write # NULL => WriteSound(v, f, w.fds.tab[f].write)
    BY <1>1 DEF WriteSound
  <2>3. w.fds.tab[f].connect # NULL => ConnectSound(v, f, w.fds.tab[f].connect)
    BY <1>1, <1>5, SameHandlers DEF EntrySound
  <2>4. w.fds.tab[f].flush # NULL => FlushSound(v, f, w.fds.tab[f].flush)
    BY <1>1, <1>5, SameHandlers DEF EntrySound
  <2>5. w.fds.tab[f].timer => w.fds.tab[f].connect # NULL
    BY <1>1 DEF EntrySound
  <2> QED BY <1>7, <1>8, <1>9, <2>1, <2>2, <2>3, <2>4, <2>5 DEF EntrySound
<1>11. {} \in SUBSET {a}
  OBVIOUS
<1>12. v.fds.tab[f].write = TryConnect /\ v.fds.tab[f].connect = NULL => Excused(w, {}, f)
  BY <1>2, <1>7
<1>13. Sound(v, {})
  BY <1>4, <1>5, <1>6, <1>10, <1>11, <1>12, RewiredRequest
<1>14. v.request = w.request
  BY <1>5 DEF SameBlocks
<1> QED BY <1>13, <1>14 DEF v, f

(* read_auth_reply.                                                        *)
LEMMA ReadReplySound ==
  ASSUME NEW w, NEW a \in Requests, Sound(w, {}), w.request[a].fd # -1,
         w.request[a].ident = "pending", NEW v \in read_auth_reply(w, a)
  PROVE  Sound(v, {})
<1>1. CASE v = [w EXCEPT !.fds = SetRead(w.fds, w.request[a].fd, <<"read_auth_reply", a>>)]
  BY <1>1, SetReadRequest
<1>2. CASE v \in IdentDone(w, a)
  <2>1. Sound(w, {a})
    BY Weaken
  <2>2. w.request[a].client # NULL
    BY IdentFd
  <2> QED BY <1>2, <2>1, <2>2, IdentDoneSound
<1> QED BY <1>1, <1>2 DEF read_auth_reply

(* The ident connection is up.                                             *)
LEMMA IdentUp ==
  ASSUME NEW w, NEW a \in Requests, Sound(w, {a}), w.request[a].fd # -1,
         w.fds.tab[w.request[a].fd].connect = NULL,
         w.fds.tab[w.request[a].fd].write = TryConnect => ByName
  PROVE  LET u == [w EXCEPT !.request[a].ident = "pending"]
         IN Sound(u, {}) /\ u.request[a].fd # -1 /\ u.request[a].ident = "pending"
<1> DEFINE u == [w EXCEPT !.request[a].ident = "pending"]
           c == w.request[a].client
           f == w.request[a].fd
<1>0. {a} \in SUBSET Objects /\ {a} \in SUBSET Requests /\ {} \in SUBSET Objects
  BY DEF Objects
<1>1. /\ f \in Fds /\ w.fds.tab[f].open /\ EntrySound(w, f, w.fds.tab[f])
      /\ FdOf(w)[a] = f /\ c # NULL /\ w.request[a].ident # "no"
      /\ \A b \in Requests : w.request[b].fd = f => b = a
      /\ \A d \in Clients : w.client[d].fd # f
      /\ \A l \in Listeners : w.listener[l].fd # f
      /\ w.fds.tab[f].flush = NULL
      /\ w.fds.tab[f].write = NULL \/ w.fds.tab[f].write = TryConnect
  BY IdentFd
<1>2. /\ c \in Clients /\ Waiting(w, c, {a}) /\ a \in w.polled /\ w.client[c].status \in Live
  BY <1>0, <1>1, RequestOf
<1>3. /\ Typed(w) /\ FdSound(w.fds, FdOf(w)) /\ w.fds \in Tables
      /\ w.request \in [Requests -> RequestBlocks] /\ QueriesSound(w)
      /\ \A d \in Clients : ClientSound(w, {a}, d)
      /\ IsInjective(w.clients) /\ \A b \in Requests : RequestSound(w, {a}, b)
  BY SoundParts
<1>4. IsWorld(w)
  BY <1>3 DEF Typed
<1>5. /\ IsWorld(u) /\ u.fds = w.fds
      /\ u.client = w.client /\ u.unknown = w.unknown /\ u.count = w.count
      /\ u.clients = w.clients /\ u.exited = w.exited
      /\ u.request = [w.request EXCEPT ![a].ident = "pending"]
      /\ u.polled = w.polled /\ u.queries = w.queries /\ u.listener = w.listener
  BY <1>4 DEF IsWorld
<1> HIDE DEF u
<1>6. /\ u.request \in [Requests -> RequestBlocks]
      /\ u.request[a].client = c /\ u.request[a].fd = f /\ u.request[a].ident = "pending"
      /\ \A b \in Requests : b # a => u.request[b] = w.request[b]
  BY <1>3, <1>5 DEF RequestBlocks
<1>7. u.request[a].dns = w.request[a].dns
  BY <1>3, <1>5 DEF RequestBlocks
<1>8. w.request[a].client = c /\ w.request[a].fd = f
      /\ w.fds.tab[f].connect = NULL /\ (w.fds.tab[f].write = TryConnect => ByName)
  OBVIOUS
<1> HIDE DEF c, f
<1>9. Typed(u)
  BY <1>3, <1>5, <1>6 DEF Typed
<1>10. FdSound(u.fds, FdOf(u))
  <2>1. \A b \in Requests : u.request[b].fd = w.request[b].fd
    BY <1>6, <1>8
  <2>2. FdOf(u) = FdOf(w)
    BY <1>5, <2>1 DEF FdOf
  <2> QED BY <1>3, <1>5, <2>2
<1>11. \A d : (Released(u, d) <=> Released(w, d)) /\ (Queried(u, d) <=> Queried(w, d))
  BY <1>5 DEF Released, Queried
<1>12. Frame(w, u, {c}, {a}, {}, {f})
  <2>1. \A b \in Requests \ {a} : w.request[b].client # c
    BY <1>2 DEF Waiting
  <2> QED BY <1>1, <1>5, <1>6, <1>8, <1>11, <2>1 DEF Frame
<1>13. EntrySound(u, f, u.fds.tab[f])
  <2>1. w.fds.tab[f].read # NULL => ReadSound(u, f, w.fds.tab[f].read)
    BY <1>1, <1>5, <1>6, <1>11 DEF EntrySound, ReadSound
  <2>2. ~w.fds.tab[f].timer
    BY <1>1, <1>8 DEF EntrySound
  <2> QED BY <1>1, <1>5, <1>8, <2>1, <2>2 DEF EntrySound, WriteSound
<1>14. u.fds.tab[f].write = TryConnect /\ u.fds.tab[f].connect = NULL => Excused(u, {}, f)
  BY <1>5, <1>8 DEF Excused
<1>15. TryAllSet(u, c) <=> TryAllSet(w, c)
  BY <1>5 DEF TryAllSet
<1>16. RequestSound(u, {}, a)
  <2>1. c # NULL /\ \A b \in Requests : u.request[b].client = c => b = a
    BY <1>1, <1>2, <1>6 DEF Waiting
  <2>2. u.client[c].status = "unknown" /\ ~Released(u, c) /\ ~TryAllSet(u, c)
    BY <1>2, <1>5, <1>11, <1>15 DEF Waiting
  <2>3. f # -1
    BY <1>1, FdFacts
  <2> QED BY <1>2, <1>5, <1>6, <2>1, <2>2, <2>3 DEF RequestSound
<1>17. \A q \in u.queries : q.owner \in {c} \cup {NULL} => QuerySound(u, q)
  <2> TAKE q \in u.queries
  <2> HAVE q.owner \in {c} \cup {NULL}
  <2>1. QuerySound(w, q)
    BY <1>3, <1>5 DEF QueriesSound
  <2>2. Asked(w, c)
    BY <1>8 DEF Asked
  <2>3. q.callback # "lookup_dns_callback"
    BY <2>1, <2>2, Distinct DEF QuerySound
  <2>4. \A b \in Requests : u.request[b].client = w.request[b].client
                            /\ (u.request[b].dns <=> w.request[b].dns)
    BY <1>6, <1>7, <1>8
  <2> QED BY <2>1, <2>3, <2>4 DEF QuerySound
<1>18. \A q, r \in u.queries : q.owner = r.owner /\ q.owner \in {c} => q = r
  BY <1>2, <1>3, <1>5, Distinct DEF QueriesSound
<1>19. Queried(u, c) <=> u.client[c].dns = "pending" /\ c \notin u.exited
  BY <1>2, <1>3, <1>5, <1>11 DEF QueriesSound
<1>20. ClientSound(u, {}, c)
  <2>1. ClientSound(w, {a}, c) /\ w.client[c].status = "unknown"
    BY <1>2, <1>3 DEF Waiting
  <2> QED BY <1>5, <1>11, <2>1 DEF ClientSound
<1>21. Armed(u, c)
  <2>1. Asked(u, c) /\ u.client[c].status = "unknown" /\ ~Released(u, c)
    BY <1>2, <1>5, <1>6, <1>11 DEF Asked, Waiting
  <2> QED BY <2>1 DEF Armed
<1>22. \A y \in {a} \ {} : y \in {c} \cup {a} \cup Listeners /\ FdOf(w)[y] \in {f} \cup {-1}
  BY <1>1
<1>23. Patched(w, u, {a}, {}, {c}, {a}, {}, {f})
  BY <1>3, <1>5, <1>9, <1>10, <1>13, <1>14, <1>16, <1>17, <1>18, <1>19, <1>20, <1>21, <1>22 DEF Patched
<1>24. {c} \in SUBSET Clients /\ {} \in SUBSET Listeners /\ {f} \in SUBSET Fds
  BY <1>1, <1>2
<1>25. Sound(u, {})
  BY <1>0, <1>12, <1>23, <1>24, Local
<1>26. u.request[a].fd # -1
  BY <1>6 DEF f
<1> QED BY <1>6, <1>25, <1>26 DEF u

(* auth_connect_callback.                                                  *)
LEMMA AuthConnectSound ==
  ASSUME NEW w, NEW a \in Requests, Sound(w, {a}), w.request[a].fd # -1,
         w.fds.tab[w.request[a].fd].connect = NULL, NEW ok \in BOOLEAN,
         ok => (w.fds.tab[w.request[a].fd].write = TryConnect => ByName),
         NEW v \in auth_connect_callback(w, a, ok)
  PROVE  Sound(v, {})
<1> DEFINE u == [w EXCEPT !.request[a].ident = "pending"]
<1>0. w.request[a].client # NULL
  BY IdentFd
<1>1. CASE v \in IdentDone(w, a)
  BY <1>0, <1>1, IdentDoneSound
<1>2. CASE ok /\ v \in read_auth_reply(u, a)
  <2>1. Sound(u, {}) /\ u.request[a].fd # -1 /\ u.request[a].ident = "pending"
    BY <1>2, IdentUp
  <2> HIDE DEF u
  <2> QED BY <1>2, <2>1, ReadReplySound
<1> QED BY <1>1, <1>2 DEF auth_connect_callback

(* The status of a link that came up.                                      *)
LEMMA HandshakeSound ==
  ASSUME NEW w, NEW c \in Clients, Sound(w, {c}), w.client[c].status = "connecting",
         w.fds.tab[w.client[c].fd].connect = NULL,
         w.fds.tab[w.client[c].fd].write = TryConnect => ByName
  PROVE  /\ Sound([w EXCEPT !.client[c].status = "handshake"], {c})
         /\ Reading([w EXCEPT !.client[c].status = "handshake"], c)
<1> DEFINE v == [w EXCEPT !.client[c].status = "handshake"]
<1>1. /\ Typed(w) /\ w.client \in [Clients -> ClientBlocks] /\ ClientSound(w, {c}, c)
  BY SoundParts
<1>2. IsWorld(w) /\ w.unknown \in SUBSET Clients /\ w.count \in Int
  BY <1>1 DEF Typed
<1>3. /\ IsWorld(v) /\ v.fds = w.fds /\ v.client = [w.client EXCEPT ![c].status = "handshake"]
      /\ v.unknown = w.unknown /\ v.count = w.count
      /\ v.clients = w.clients /\ v.exited = w.exited /\ v.request = w.request
      /\ v.polled = w.polled /\ v.queries = w.queries /\ v.listener = w.listener
  BY <1>2 DEF IsWorld
<1> HIDE DEF v
<1>4. /\ v.client \in [Clients -> ClientBlocks]
      /\ v.client[c].fd = w.client[c].fd /\ v.client[c].listener = w.client[c].listener
      /\ v.client[c].dns = w.client[c].dns /\ v.client[c].status = "handshake"
      /\ v.client[c].dead = w.client[c].dead
      /\ \A d \in Clients : d # c => v.client[d] = w.client[d]
  <2>1. "handshake" \in Statuses
    BY DEF Statuses
  <2> QED BY <1>1, <1>3, <2>1, BlockStatus
<1>5. Released(w, c) /\ c \in w.unknown /\ w.client[c].status \in Live
      /\ "handshake" \in Live \ {"connecting"}
  BY <1>1 DEF ClientSound, Live
<1>6. Restated(w, v, c)
  BY <1>2, <1>3, <1>4, <1>5 DEF Restated
<1>7. {c} \in SUBSET Objects /\ c \in {c}
  BY DEF Objects
<1>8. Sound(v, {c})
  BY <1>5, <1>6, <1>7, RestatedSound
<1>9. Reading(v, c)
  BY <1>3, <1>4, <1>5 DEF Reading, Released
<1> QED BY <1>8, <1>9 DEF v

(* serv_connect_callback.                                                  *)
LEMMA ServConnectSound ==
  ASSUME NEW w, NEW c \in Clients, Sound(w, {c}), w.client[c].status = "connecting",
         w.fds.tab[w.client[c].fd].connect = NULL, NEW ok \in BOOLEAN,
         ok => (w.fds.tab[w.client[c].fd].write = TryConnect => ByName),
         NEW v \in serv_connect_callback(w, c, ok)
  PROVE  Sound(v, {})
<1>1. CASE v = exit_client(w, c)
  BY <1>1, ExitDead DEF Live
<1>2. CASE ok /\ v = Rearm([w EXCEPT !.client[c].status = "handshake"], c)
  BY <1>2, HandshakeSound, RearmSound
<1> QED BY <1>1, <1>2 DEF serv_connect_callback

-----------------------------------------------------------------------------
(* Connecting: x is the request or the client that opened f to connect it. *)

(* The object that waits for the connect of f, and its callback.           *)
Dialler(w, x, f) ==
  \/ x \in Requests /\ w.request[x].fd = f /\ w.request[x].ident = "connecting"
  \/ x \in Clients /\ w.client[x].fd = f /\ w.client[x].status = "connecting"

DialHandle(x) ==
  IF x \in Requests THEN <<"auth_connect_callback", x>> ELSE <<"serv_connect_callback", x>>

(* The callback of a connect is a registration.                            *)
LEMMA DialHandleType ==
  ASSUME NEW x \in Requests \cup Clients
  PROVE  /\ DialHandle(x) \in Handles /\ DialHandle(x) # NULL
         /\ TryConnect \in Handles /\ TryConnect # NULL /\ NULL \in Handles
BY Distinct DEF DialHandle, Handles, Callbacks, Objects, TryConnect

(* The one that dials owns the descriptor, and nothing but its own         *)
(* handlers is registered on it.                                           *)
LEMMA DiallerOwns ==
  ASSUME NEW w, NEW X, Sound(w, X), NEW f \in Fds, NEW x, Dialler(w, x, f)
  PROVE  /\ x \in Objects /\ FdOf(w)[x] = f /\ x \in Requests \cup Clients
         /\ w.fds.tab[f].open /\ EntrySound(w, f, w.fds.tab[f])
         /\ \A d \in Clients : w.client[d].fd = f => d = x
         /\ \A a \in Requests : w.request[a].fd = f => a = x
         /\ w.fds.tab[f].read = NULL
         /\ w.fds.tab[f].write = NULL \/ w.fds.tab[f].write = TryConnect
         /\ w.fds.tab[f].connect # NULL => w.fds.tab[f].connect = DialHandle(x)
<1>0. Typed(w) /\ OwnFds(w) /\ w.fds \in Tables
      /\ EntrySound(w, f, w.fds.tab[f])
  BY SoundParts
<1>1. x \in Objects /\ x \in Requests \cup Clients /\ FdOf(w)[x] = f
  BY <1>0, FdOfObjects DEF Dialler, Objects
<1>2. /\ \A d \in Clients : w.client[d].fd = f => d = x
      /\ \A a \in Requests : w.request[a].fd = f => a = x
      /\ \A l \in Listeners : w.listener[l].fd # f
      /\ w.fds.tab[f].open
  <2>1. CASE x \in Requests /\ w.request[x].fd = f
    BY <1>0, <2>1, FdFacts DEF OwnFds
  <2>2. CASE x \in Clients /\ w.client[x].fd = f
    BY <1>0, <2>2, FdFacts DEF OwnFds
  <2> QED BY <2>1, <2>2 DEF Dialler
<1> DEFINE e == w.fds.tab[f]
<1>3. e.read = NULL
  BY <1>0, <1>2, Distinct DEF EntrySound, ReadSound, Dialler
<1>4. e.write = NULL \/ e.write = TryConnect
  BY <1>0, <1>2, Distinct DEF EntrySound, WriteSound, Dialler
<1>5. ASSUME e.connect # NULL PROVE e.connect = DialHandle(x)
  <2>1. e.connect[1] = DialHandle(x)[1] /\ e.connect[2] = x
    BY <1>0, <1>2, <1>5, Distinct DEF EntrySound, ConnectSound, DialHandle
  <2>2. e.connect \in Handles
    BY <1>0 DEF Tables, Entries
  <2>3. e.connect = <<e.connect[1], e.connect[2]>>
    BY <1>5, <2>2 DEF Handles
  <2> QED BY <2>1, <2>3 DEF DialHandle
<1> QED BY <1>0, <1>1, <1>2, <1>3, <1>4, <1>5

(* Whoever is registered to be called when f is connected is dialling.     *)
LEMMA HasDialler ==
  ASSUME NEW w, NEW X, Sound(w, X), NEW f \in Fds, w.fds.tab[f].connect # NULL
  PROVE  \E x : Dialler(w, x, f)
<1>1. EntrySound(w, f, w.fds.tab[f])
  BY SoundParts
<1> QED BY <1>1 DEF EntrySound, ConnectSound, Dialler

(* New registrations on a descriptor that is being connected keep a world  *)
(* sound.                                                                  *)
LEMMA RewiredDialler ==
  ASSUME NEW w, NEW f \in Fds, NEW x, Sound(w, {x}), Dialler(w, x, f),
         NEW v, SameBlocks(w, v), Touched(w.fds, v.fds, f),
         v.fds.tab[f].read = w.fds.tab[f].read, v.fds.tab[f].flush = w.fds.tab[f].flush,
         v.fds.tab[f].write = NULL \/ v.fds.tab[f].write = TryConnect,
         v.fds.tab[f].connect = NULL \/ v.fds.tab[f].connect = DialHandle(x),
         v.fds.tab[f].timer => v.fds.tab[f].connect # NULL,
         NEW Y \in SUBSET {x},
         x \notin Y => /\ v.fds.tab[f].connect # NULL
                       /\ x \in Clients => v.fds.tab[f].write # NULL \/ DnsQuery(f) \in w.queries
  PROVE  Sound(v, Y) /\ Dialler(v, x, f)
<1>1. /\ x \in Objects /\ FdOf(w)[x] = f /\ x \in Requests \cup Clients
      /\ w.fds.tab[f].open /\ EntrySound(w, f, w.fds.tab[f])
      /\ \A d \in Clients : w.client[d].fd = f => d = x
      /\ \A a \in Requests : w.request[a].fd = f => a = x
      /\ w.fds.tab[f].read = NULL
  BY DiallerOwns
<1>2. v.client = w.client /\ v.request = w.request /\ v.queries = w.queries
  BY DEF SameBlocks
<1>3. Dialler(v, x, f)
  BY <1>2 DEF Dialler
<1>4. v.fds.tab[f].open
  BY <1>1 DEF Touched
<1>5. EntrySound(v, f, v.fds.tab[f])
  <2>1. v.fds.tab[f].connect # NULL => ConnectSound(v, f, v.fds.tab[f].connect)
    <3>1. CASE x \in Requests
      <4>1. v.request[x].fd = f /\ v.request[x].ident = "connecting"
        BY <1>3, <3>1, Distinct DEF Dialler
      <4>2. DialHandle(x) = <<"auth_connect_callback", x>>
        BY <3>1 DEF DialHandle
      <4>3. ConnectSound(v, f, <<"auth_connect_callback", x>>)
        BY <3>1, <4>1 DEF ConnectSound
      <4> QED BY <4>2, <4>3
    <3>2. CASE x \in Clients
      <4>1. x \notin Requests /\ v.client[x].fd = f /\ v.client[x].status = "connecting"
        BY <1>3, <3>2, Distinct DEF Dialler
      <4>2. DialHandle(x) = <<"serv_connect_callback", x>>
        BY <4>1 DEF DialHandle
      <4>3. ConnectSound(v, f, <<"serv_connect_callback", x>>)
        BY <3>2, <4>1 DEF ConnectSound
      <4> QED BY <4>2, <4>3
    <3> QED BY <1>1, <3>1, <3>2
  <2>2. v.fds.tab[f].flush # NULL => FlushSound(v, f, v.fds.tab[f].flush)
    BY <1>1, SameHandlers DEF EntrySound
  <2> QED BY <1>1, <1>4, <2>1, <2>2 DEF EntrySound, WriteSound
<1>6. v.fds.tab[f].write = TryConnect /\ v.fds.tab[f].connect = NULL => Excused(w, Y, f)
  <2>1. Excused(w, {x}, f)
    BY <1>1, Distinct DEF Excused, Dialler
  <2> QED BY <2>1 DEF Excused
<1>7. CASE x \in Requests
  <2>1. {x} \in SUBSET {x} /\ w.request[x].fd = f /\ f # -1 /\ w.request[x].ident # "no"
    BY <1>7, Distinct, FdFacts DEF Dialler
  <2>2. Sound(v, Y)
    BY <1>5, <1>6, <1>7, <2>1, RewiredRequest
  <2> QED BY <1>3, <2>2
<1>8. CASE x \in Clients
  <2>1. {x} \in SUBSET {x} /\ w.client[x].fd = f /\ w.client[x].status = "connecting"
        /\ w.client[x].status \in Live
    BY <1>8, Distinct DEF Dialler, Live
  <2>2. x \notin Y => /\ Armed(v, x)
                      /\ w.client[x].status = "connecting" =>
                           v.fds.tab[f].connect = <<"serv_connect_callback", x>>
    BY <1>2, <1>8, <2>1, Distinct DEF Armed, DialHandle
  <2>3. v.fds.tab[f].write # <<"comm_tryall_callback", x>>
    <3>1. <<"comm_tryall_callback", x>> # NULL /\ <<"comm_tryall_callback", x>> # TryConnect
      BY <1>8, Distinct DEF Callbacks, Objects, TryConnect
    <3> QED BY <3>1
  <2>4. Sound(v, Y)
    BY <1>5, <1>6, <1>8, <2>1, <2>2, <2>3, RewiredClient
  <2> QED BY <1>3, <2>4
<1> QED BY <1>1, <1>7, <1>8

(* comm_connect_callback clears the callback and the timer first.          *)
LEMMA CalledSound ==
  ASSUME NEW w, NEW f \in Fds, NEW x, Sound(w, {x}), Dialler(w, x, f)
  PROVE  LET v == [w EXCEPT !.fds = SetTimer(SetConnect(w.fds, f, NULL), f, FALSE)]
         IN /\ Sound(v, {x}) /\ Dialler(v, x, f)
            /\ v.fds.tab[f].connect = NULL /\ v.fds.tab[f].write = w.fds.tab[f].write
<1> DEFINE F == SetConnect(w.fds, f, NULL)
           v == [w EXCEPT !.fds = SetTimer(F, f, FALSE)]
<1>0. IsWorld(w) /\ w.fds \in Tables
  BY SoundParts DEF Typed
<1>1. NULL \in Handles /\ FALSE \in BOOLEAN
  BY DEF Handles
<1>2. /\ Touched(w.fds, F, f) /\ F.tab[f].connect = NULL /\ F.tab[f].read = w.fds.tab[f].read
      /\ F.tab[f].write = w.fds.tab[f].write /\ F.tab[f].flush = w.fds.tab[f].flush
  BY <1>0, <1>1, SetConnectTouches
<1> HIDE DEF F
<1>3. F \in Tables
  BY <1>2 DEF Touched
<1>4. /\ Touched(F, SetTimer(F, f, FALSE), f)
      /\ SetTimer(F, f, FALSE).tab[f].read = F.tab[f].read
      /\ SetTimer(F, f, FALSE).tab[f].write = F.tab[f].write
      /\ SetTimer(F, f, FALSE).tab[f].connect = F.tab[f].connect
      /\ SetTimer(F, f, FALSE).tab[f].flush = F.tab[f].flush
  BY <1>1, <1>3, SetTimerTouches
<1>5. SetTimer(F, f, FALSE).tab[f].timer = FALSE
  BY <1>1, <1>3, SetTimerTouches
<1>6. SameBlocks(w, v) /\ v.fds = SetTimer(F, f, FALSE)
  BY <1>0, NewTable
<1> HIDE DEF v
<1>7. Touched(w.fds, v.fds, f)
  <2>1. v.fds \in Tables /\ v.fds.number = w.fds.number /\ v.fds.highest = w.fds.highest
    BY <1>2, <1>4, <1>6 DEF Touched
  <2>2. v.fds.tab[f].open = F.tab[f].open
    BY <1>4, <1>6 DEF Touched
  <2>3. F.tab[f].open = w.fds.tab[f].open
    BY <1>2 DEF Touched
  <2>4. \A g \in Fds : g # f => v.fds.tab[g] = w.fds.tab[g]
    BY <1>2, <1>4, <1>6 DEF Touched
  <2>5. v.fds.tab[f].open = w.fds.tab[f].open
    BY <2>2, <2>3
  <2> QED BY <2>1, <2>4, <2>5 DEF Touched
<1>8. /\ v.fds.tab[f].read = w.fds.tab[f].read /\ v.fds.tab[f].flush = w.fds.tab[f].flush
      /\ v.fds.tab[f].connect = NULL /\ v.fds.tab[f].write = w.fds.tab[f].write
  BY <1>2, <1>4, <1>6
<1>9. ~v.fds.tab[f].timer
  BY <1>5, <1>6
<1>10. v.fds.tab[f].write = NULL \/ v.fds.tab[f].write = TryConnect
  BY <1>8, DiallerOwns
<1>11. {x} \in SUBSET {x} /\ x \in {x}
  OBVIOUS
<1>12. Sound(v, {x}) /\ Dialler(v, x, f)
  BY <1>6, <1>7, <1>8, <1>9, <1>10, <1>11, RewiredDialler
<1> QED BY <1>8, <1>12 DEF v, F

(* comm_connect_callback.                                                  *)
LEMMA ConnectCallbackSound ==
  ASSUME NEW w, NEW f \in Fds, NEW x, Sound(w, {x}), Dialler(w, x, f),
         w.fds.tab[f].connect # NULL, NEW ok \in BOOLEAN,
         ok => (w.fds.tab[f].write = TryConnect => ByName),
         NEW v \in comm_connect_callback(w, f, ok)
  PROVE  Sound(v, {})
<1> DEFINE u == [w EXCEPT !.fds = SetTimer(SetConnect(w.fds, f, NULL), f, FALSE)]
           h == w.fds.tab[f].connect
<1>1. /\ Sound(u, {x}) /\ Dialler(u, x, f)
      /\ u.fds.tab[f].connect = NULL /\ u.fds.tab[f].write = w.fds.tab[f].write
  BY CalledSound
<1>2. h = DialHandle(x) /\ x \in Requests \cup Clients
  BY DiallerOwns
<1>3. v \in IF h[1] = "auth_connect_callback" THEN auth_connect_callback(u, h[2], ok)
            ELSE serv_connect_callback(u, h[2], ok)
  BY DEF comm_connect_callback
<1> HIDE DEF u, h
<1>4. CASE x \in Requests
  <2>1. v \in auth_connect_callback(u, x, ok)
    BY <1>2, <1>3, <1>4 DEF DialHandle
  <2>2. u.request[x].fd = f /\ f # -1
    BY <1>1, <1>4, Distinct, FdFacts DEF Dialler
  <2> QED BY <1>1, <1>4, <2>1, <2>2, AuthConnectSound
<1>5. CASE x \in Clients
  <2>1. v \in serv_connect_callback(u, x, ok)
    BY <1>2, <1>3, <1>5, Distinct DEF DialHandle
  <2>2. u.client[x].fd = f /\ u.client[x].status = "connecting"
    BY <1>1, <1>5, Distinct DEF Dialler
  <2> QED BY <1>1, <1>5, <2>1, <2>2, ServConnectSound
<1> QED BY <1>2, <1>4, <1>5

(* comm_connect_tryconnect.                                                *)
LEMMA TryConnectSound ==
  ASSUME NEW w, NEW f \in Fds, NEW x, Sound(w, {x}), Dialler(w, x, f),
         w.fds.tab[f].connect # NULL, w.fds.tab[f].write = TryConnect => ByName,
         NEW v \in comm_connect_tryconnect(w, f)
  PROVE  Sound(v, {})
<1>1. CASE v = [w EXCEPT !.fds = SetWrite(w.fds, f, TryConnect)]
  <2>0. IsWorld(w) /\ w.fds \in Tables
    BY SoundParts DEF Typed
  <2>1. SameBlocks(w, v) /\ v.fds = SetWrite(w.fds, f, TryConnect)
    BY <1>1, <2>0, NewTable
  <2>2. TryConnect \in Handles /\ TryConnect # NULL
    BY Distinct DEF Handles, Callbacks, TryConnect
  <2>3. Touched(w.fds, v.fds, f)
    BY <2>0, <2>1, <2>2, SetWriteTouches
  <2>4. /\ v.fds.tab[f].read = w.fds.tab[f].read /\ v.fds.tab[f].flush = w.fds.tab[f].flush
        /\ v.fds.tab[f].connect = w.fds.tab[f].connect /\ v.fds.tab[f].write = TryConnect
    BY <2>0, <2>1, <2>2, SetWriteTouches
  <2>5. w.fds.tab[f].connect = DialHandle(x)
    BY DiallerOwns
  <2>6. v.fds.tab[f].timer => v.fds.tab[f].connect # NULL
    BY <2>4
  <2> HIDE <1>1
  <2>7. {} \in SUBSET {x}
    OBVIOUS
  <2> QED BY <2>1, <2>2, <2>3, <2>4, <2>5, <2>6, <2>7, RewiredDialler
<1>2. CASE v \in comm_connect_callback(w, f, TRUE)
  BY <1>2, ConnectCallbackSound
<1>3. CASE v \in comm_connect_callback(w, f, FALSE)
  BY <1>3, ConnectCallbackSound
<1> QED BY <1>1, <1>2, <1>3 DEF comm_connect_tryconnect, TryConnect

(* The timeout of a connect may be set and cleared.                        *)
LEMMA TimerSound ==
  ASSUME NEW w, NEW f \in Fds, NEW x, Sound(w, {x}), Dialler(w, x, f),
         w.fds.tab[f].connect # NULL, NEW on \in BOOLEAN
  PROVE  LET v == [w EXCEPT !.fds = SetTimer(w.fds, f, on)]
         IN /\ Sound(v, {x}) /\ Dialler(v, x, f)
            /\ v.fds.tab[f].connect # NULL /\ v.fds.tab[f].write = w.fds.tab[f].write
<1> DEFINE v == [w EXCEPT !.fds = SetTimer(w.fds, f, on)]
<1>0. IsWorld(w) /\ w.fds \in Tables
  BY SoundParts DEF Typed
<1>1. SameBlocks(w, v) /\ v.fds = SetTimer(w.fds, f, on)
  BY <1>0, NewTable
<1> HIDE DEF v
<1>2. Touched(w.fds, v.fds, f)
  BY <1>0, <1>1, SetTimerTouches
<1>3. /\ v.fds.tab[f].read = w.fds.tab[f].read /\ v.fds.tab[f].flush = w.fds.tab[f].flush
      /\ v.fds.tab[f].connect = w.fds.tab[f].connect /\ v.fds.tab[f].write = w.fds.tab[f].write
  BY <1>0, <1>1, SetTimerTouches
<1>4. /\ w.fds.tab[f].connect = DialHandle(x)
      /\ w.fds.tab[f].write = NULL \/ w.fds.tab[f].write = TryConnect
  BY DiallerOwns
<1>5. v.fds.tab[f].timer => v.fds.tab[f].connect # NULL
  BY <1>3
<1>6. {x} \in SUBSET {x} /\ x \in {x}
  OBVIOUS
<1>7. Sound(v, {x}) /\ Dialler(v, x, f)
  BY <1>1, <1>2, <1>3, <1>4, <1>5, <1>6, RewiredDialler
<1> QED BY <1>3, <1>7 DEF v

(* The host name of a connection goes to the resolver.                     *)
LEMMA QueryAdded ==
  ASSUME NEW w, NEW f \in Fds, NEW x, Sound(w, {x}), Dialler(w, x, f),
         w.fds.tab[f].connect # NULL, ByName
  PROVE  Sound([w EXCEPT !.queries = w.queries \cup {DnsQuery(f)}], {})
<1> DEFINE v == [w EXCEPT !.queries = w.queries \cup {DnsQuery(f)}]
<1>0. Typed(w) /\ IsWorld(w)
  BY SoundParts DEF Typed
<1>1. /\ IsWorld(v) /\ v.fds = w.fds /\ v.client = w.client
      /\ v.unknown = w.unknown /\ v.count = w.count
      /\ v.clients = w.clients /\ v.exited = w.exited /\ v.request = w.request
      /\ v.polled = w.polled /\ v.queries = w.queries \cup {DnsQuery(f)} /\ v.listener = w.listener
  BY <1>0 DEF IsWorld
<1> HIDE DEF v
<1>2. /\ DnsQuery(f) \in QueryBlocks /\ DnsQuery(f).owner = NULL /\ DnsQuery(f).ptr = f
      /\ DnsQuery(f).callback = "comm_connect_dns_callback"
  BY DEF DnsQuery, QueryBlocks
<1>3. Typed(v)
  BY <1>0, <1>1, <1>2 DEF Typed
<1>4. /\ FdSound(w.fds, FdOf(w)) /\ QueriesSound(w) /\ IsInjective(w.clients)
      /\ \A g \in Fds : EntrySound(w, g, w.fds.tab[g])
      /\ \A a \in Requests : RequestSound(w, {x}, a)
      /\ \A d \in Clients : ClientSound(w, {x}, d)
      /\ \A d \in Clients \ {x} : Armed(w, d)
      /\ \A l \in Listeners : ListenerSound(w, l)
  BY SoundParts
<1>5. FdOf(v) = FdOf(w)
  BY <1>1 DEF FdOf
<1>6. EntriesSound(v, {})
  <2>1. \A g \in Fds : EntrySound(v, g, v.fds.tab[g])
    <3> TAKE g \in Fds
    <3>1. EntrySound(w, g, w.fds.tab[g]) /\ v.fds.tab[g] = w.fds.tab[g]
      BY <1>1, <1>4
    <3>2. \A d \in Clients : w.client[d].fd = g =>
              /\ v.client[d].fd = g /\ (Released(v, d) <=> Released(w, d))
              /\ \/ v.client[d].status = w.client[d].status
                 \/ /\ Released(w, d)
                    /\ w.client[d].status # "connecting" /\ v.client[d].status # "connecting"
      BY <1>1 DEF Released
    <3>3. \A a \in Requests : w.request[a].fd = g =>
              v.request[a].fd = g /\ v.request[a].ident = w.request[a].ident
      BY <1>1
    <3>4. \A l \in Listeners : w.listener[l].fd = g => v.listener[l].fd = g
      BY <1>1
    <3> QED BY <3>1, <3>2, <3>3, <3>4, EntryKept, Zenon
  <2> QED BY <2>1 DEF EntriesSound, Excused
<1>7. RequestsSound(v, {})
  <2>1. \A a \in Requests : RequestSound(w, {}, a)
    BY <1>4, Distinct DEF RequestSound, Dialler
  <2>2. \A d \in Clients : (Released(v, d) <=> Released(w, d)) /\ (TryAllSet(v, d) <=> TryAllSet(w, d))
    BY <1>1 DEF Released, TryAllSet
  <2>3. \A a \in Requests : w.request[a].client \in Clients \cup {NULL}
    BY <1>0 DEF Typed, RequestBlocks
  <2>4. ASSUME NEW a \in Requests PROVE RequestSound(v, {}, a)
    BY <1>1, <2>1, <2>2, <2>3 DEF RequestSound
  <2> QED BY <2>4 DEF RequestsSound
<1>8. \A d \in Clients : Queried(v, d) <=> Queried(w, d)
  BY <1>1, <1>2, Distinct DEF Queried
<1>9. QueriesSound(v)
  <2>1. \A q \in v.queries : QuerySound(v, q)
    BY <1>1, <1>2, <1>4 DEF QueriesSound, QuerySound, Released, Asked, TryAllSet
  <2>2. \A q, r \in v.queries : q.owner = r.owner /\ q.owner # NULL => q = r
    BY <1>1, <1>2, <1>4 DEF QueriesSound
  <2> QED BY <1>1, <1>4, <1>8, <2>1, <2>2 DEF QueriesSound
<1>10. ClientsSound(v, {})
  <2>1. \A d \in Clients : ClientSound(w, {}, d)
    <3> TAKE d \in Clients
    <3>1. d = x => w.client[d].status = "connecting" /\ w.client[d].fd = f
                   /\ w.fds.tab[f].connect = <<"serv_connect_callback", d>>
      <4> HAVE d = x
      <4>1. d \notin Requests
        BY Distinct
      <4>2. w.client[d].status = "connecting" /\ w.client[d].fd = f
        BY <4>1 DEF Dialler
      <4>3. w.fds.tab[f].connect = DialHandle(x)
        BY DiallerOwns
      <4> QED BY <4>1, <4>2, <4>3 DEF DialHandle
    <3> QED BY <1>4, <3>1 DEF ClientSound
  <2> QED BY <1>1, <1>4, <2>1 DEF ClientsSound, ClientSound, Released
<1>11. AllArmed(v, {})
  <2> SUFFICES ASSUME NEW d \in Clients PROVE Armed(v, d)
    BY DEF AllArmed
  <2>1. CASE d = x
    <3>1. w.client[d].status = "connecting" /\ w.client[d].fd = f
      BY <2>1, Distinct DEF Dialler
    <3> QED BY <1>1, <3>1 DEF Armed
  <2>2. CASE d # x
    BY <1>1, <1>4, <1>8, <2>2 DEF Armed, Released, TryAllSet, Asked
  <2> QED BY <2>1, <2>2
<1>12. ListenersSound(v)
  BY <1>1, <1>4 DEF ListenersSound, ListenerSound, ReferencesOf
<1>13. Sound(v, {})
  BY <1>1, <1>3, <1>4, <1>5, <1>6, <1>7, <1>9, <1>10, <1>11, <1>12 DEF Sound
<1> QED BY <1>13 DEF v

(* comm_connect_tcp, on a descriptor that was just opened.                 *)
LEMMA TcpSound ==
  ASSUME NEW w, NEW f \in Fds, NEW x, Sound(w, {x}), Dialler(w, x, f),
         w.fds.tab[f].write = NULL, NEW byname \in BOOLEAN, byname => ByName,
         NEW v \in comm_connect_tcp(w, f, DialHandle(x), byname)
  PROVE  Sound(v, {})
<1> DEFINE h == DialHandle(x)
           u == [w EXCEPT !.fds = SetConnect(w.fds, f, h)]
           t == [u EXCEPT !.fds = SetTimer(u.fds, f, TRUE)]
<1>0. IsWorld(w) /\ w.fds \in Tables
  BY SoundParts DEF Typed
<1>1. x \in Requests \cup Clients /\ h \in Handles /\ h # NULL
  BY DiallerOwns, DialHandleType
<1>2. \/ v \in comm_connect_callback(u, f, FALSE)
      \/ byname /\ v = [u EXCEPT !.queries = u.queries \cup {DnsQuery(f)}]
      \/ v \in comm_connect_tryconnect(t, f)
  BY DEF comm_connect_tcp, DnsQuery
<1>3. SameBlocks(w, u) /\ u.fds = SetConnect(w.fds, f, h)
  BY <1>0, NewTable
<1> HIDE DEF u, h
<1>4. Touched(w.fds, u.fds, f)
  BY <1>0, <1>1, <1>3, SetConnectTouches
<1>5. /\ u.fds.tab[f].read = w.fds.tab[f].read /\ u.fds.tab[f].flush = w.fds.tab[f].flush
      /\ u.fds.tab[f].connect = h /\ u.fds.tab[f].write = w.fds.tab[f].write
  BY <1>0, <1>1, <1>3, SetConnectTouches
<1>6. Sound(u, {x}) /\ Dialler(u, x, f)
  <2>1. {x} \in SUBSET {x} /\ x \in {x} /\ (u.fds.tab[f].timer => u.fds.tab[f].connect # NULL)
    BY <1>1, <1>5
  <2>2. u.fds.tab[f].connect = DialHandle(x)
    BY <1>5 DEF h
  <2> QED BY <1>3, <1>4, <1>5, <2>1, <2>2, RewiredDialler
<1>7. u.fds.tab[f].connect # NULL /\ u.fds.tab[f].write # TryConnect
  BY <1>1, <1>5, DialHandleType
<1>8. CASE v \in comm_connect_callback(u, f, FALSE)
  BY <1>6, <1>7, <1>8, ConnectCallbackSound
<1>9. CASE byname /\ v = [u EXCEPT !.queries = u.queries \cup {DnsQuery(f)}]
  BY <1>6, <1>7, <1>9, QueryAdded
<1>10. CASE v \in comm_connect_tryconnect(t, f)
  <2>1. /\ Sound(t, {x}) /\ Dialler(t, x, f)
        /\ t.fds.tab[f].connect # NULL /\ t.fds.tab[f].write = u.fds.tab[f].write
    BY <1>6, <1>7, TimerSound
  <2> HIDE DEF t
  <2> QED BY <1>7, <1>10, <2>1, TryConnectSound
<1> QED BY <1>2, <1>8, <1>9, <1>10
=============================================================================
