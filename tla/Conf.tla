-------------------------------- MODULE Conf --------------------------------
(***************************************************************************)
(* Configuration items, connection classes and automatic connections       *)
(* (src/confitem.c, src/class.c, server/s_conf.c, newconf/config.c,        *)
(* server/s_serv.c): blocks of the file become items that clients hold,    *)
(* items point to classes that count their clients, a rehash marks what is *)
(* in use and frees the rest, and try_connections picks one connect block  *)
(* a minute.                                                               *)
(*                                                                         *)
(* Items and classes are allocated from small pools, a generation of each  *)
(* block and of each class number.  Every block has a name of its own and  *)
(* matches every client.  Times are in rounds of the event, of 60 seconds. *)
(***************************************************************************)
EXTENDS Integers, Sequences, FiniteSets

CONSTANTS
  FileOrder,    \* the auth, operator and connect blocks as the file has them
  Kind,         \* CONF_CLIENT, CONF_OPERATOR or CONF_SERVER of a block
  Number,       \* the class number a block names
  MaxLinks,     \* max_connections of a class number
  Freq,         \* connect_frequency of a class number, in rounds
  MAXIMUM_LINKS,       \* defaults.h: 1, max_connections of class 0
  CONNECTFREQUENCY,    \* defaults.h: 600 seconds, connect_frequency of class 0
  HANGONRETRYDELAY,    \* defaults.h: 60 seconds, the hold after a good link
  AutoConn,     \* the connect blocks with CONF_FLAGS_ALLOW_AUTO_CONN
  WithPort,     \* the connect blocks whose port is above 0
  Exempt,       \* the auth blocks exempt from limits
  Persons,      \* blocks of local persons
  Conns,        \* blocks of server connections
  Files,        \* the files a rehash may find: [classes, blocks]
  Gens,         \* 1 .. n, the generations of an item or class
  Nil,
  MaxRehash     \* bound: how often the file is read again

Blocks  == {FileOrder[i] : i \in DOMAIN FileOrder}
Numbers == DOMAIN MaxLinks
Confs   == Blocks \X Gens
Zero    == <<0, 1>>                       \* the class every server has
Classes == (Numbers \X Gens) \cup {Zero}
Clients == Persons \cup Conns

ASSUME ConfAssumption ==
  /\ FileOrder \in Seq(Blocks) /\ Number \in [Blocks -> Numbers]
  /\ Kind \in [Blocks -> {"client", "oper", "server"}]
  /\ 0 \notin Numbers /\ Freq \in [Numbers -> Nat \ {0}]
  /\ MAXIMUM_LINKS \in Nat /\ {CONNECTFREQUENCY, HANGONRETRYDELAY} \subseteq Nat \ {0}
  /\ IsFiniteSet(Persons) /\ IsFiniteSet(Conns) /\ Persons \cap Conns = {}
  /\ Gens \subseteq Nat /\ IsFiniteSet(Gens) /\ 1 \in Gens
  /\ Nil \notin Classes
  /\ \A file \in Files : file.classes \subseteq Numbers /\ file.blocks \subseteq Blocks
  /\ MaxRehash \in Nat

VARIABLES
  GlobalConfItemList,
  item,       \* of an item: status, class, number of clients
  class,      \* of a class: state and links; it is "marked" while
              \* max_connections is -1 and clients still count on it
  confs,      \* the items a client holds, the newest first
  name,       \* the connect block a server connection was made from
  stage,      \* of a server connection
  hold,       \* of an item: how many rounds from now will find it on hold
  rehashes

vars == <<GlobalConfItemList, item, class, confs, name, stage, hold, rehashes>>

World == [item |-> item, class |-> class]
SetWorld(w) == item' = w.item /\ class' = w.class

Counted(f) == Kind[f[1]] \in {"client", "server"}     \* CONF_CLIENT_MASK
Limit(k)   == IF k = Zero THEN MAXIMUM_LINKS ELSE MaxLinks[k[1]]
Period(k)  == IF k = Zero THEN CONNECTFREQUENCY ELSE Freq[k[1]]      \* get_con_freq

ListedOf(b) == {f \in Confs : f[1] = b /\ item[f].status = "listed"}
Listed     == {GlobalConfItemList[i] : i \in DOMAIN GlobalConfItemList}
First(fs)  ==
  LET at == {i \in DOMAIN GlobalConfItemList : GlobalConfItemList[i] \in fs}
  IN  IF at = {} THEN Nil
      ELSE GlobalConfItemList[CHOOSE i \in at : \A j \in at : i <= j]

(* A list without the entries of a set, in its order.                      *)
Kept(list, gone) ==
  LET kept[i \in 0 .. Len(list)] ==
        IF i = 0 THEN << >>
        ELSE IF list[i] \in gone THEN kept[i - 1] ELSE Append(kept[i - 1], list[i])
  IN  kept[Len(list)]

-----------------------------------------------------------------------------
\* Mutant: the client is counted although it holds the item already.
attach_confTwice(w, f) ==
  [item  |-> [w.item EXCEPT ![f].clients = @ + 1],
   class |-> IF Counted(f) THEN [w.class EXCEPT ![w.item[f].class].links = @ + 2]
                           ELSE w.class]

(* attach_conf, past is_attached and IsIllegal.                            *)
attach_conf(w, f) ==
  [item  |-> [w.item EXCEPT ![f].clients = @ + 1],
   class |-> IF Counted(f) THEN [w.class EXCEPT ![w.item[f].class].links = @ + 1]
                           ELSE w.class]

FreeItem  == [status |-> "free", class |-> Nil, clients |-> 0]
FreeClass == [state |-> "free", links |-> 0]

(* free_class in detach_conf: the class was marked and this was its last   *)
(* client.  Only the item at hand forgets the class.                       *)
LeaveClass(w, f) ==
  LET k == w.item[f].class
      n == IF Counted(f) /\ w.class[k].links > 0 THEN w.class[k].links - 1
                                                 ELSE w.class[k].links
  IN  IF w.class[k].state = "marked" /\ n = 0
        THEN [item |-> [w.item EXCEPT ![f].class = Nil],
              class |-> [w.class EXCEPT ![k] = FreeClass]]
        ELSE [item |-> w.item, class |-> [w.class EXCEPT ![k].links = n]]

\* Mutant: an item that is off the list is kept when its last client exits.
detach_confKept(w, f) ==
  LET k == w.item[f].class
      v == IF k = Nil \/ w.class[k].state = "free" THEN w ELSE LeaveClass(w, f)
  IN  [item |-> [v.item EXCEPT ![f].clients = @ - 1], class |-> v.class]

(* detach_conf for an item the client holds.  An operator block does not   *)
(* count on its class, which may have been freed below it: what is read    *)
(* through the stale pointer then is not modelled.                         *)
detach_conf(w, f) ==
  LET k == w.item[f].class
      v == IF k = Nil \/ w.class[k].state = "free" THEN w ELSE LeaveClass(w, f)
  IN  IF v.item[f].clients = 1 /\ v.item[f].status = "illegal"
        THEN [item |-> [v.item EXCEPT ![f] = FreeItem], class |-> v.class]
        ELSE [item |-> [v.item EXCEPT ![f].clients = @ - 1], class |-> v.class]

(* det_confs_butmask: the items of a list are detached in turn.            *)
det_confs(w, fs) ==
  LET step[i \in 0 .. Len(fs)] ==
        IF i = 0 THEN w ELSE detach_conf(step[i - 1], fs[i])
  IN  step[Len(fs)]

-----------------------------------------------------------------------------
(* Reading the file.                                                       *)

NewGen(free(_)) == CHOOSE g \in Gens : free(g) /\ \A h \in Gens : free(h) => g <= h

(* read_conf_files on what is listed: an item in use becomes illegal and   *)
(* is unlinked, an auth block by flush_deleted_I_P; the others are freed.  *)
Retired ==
  [f \in Confs |-> IF item[f].status # "listed" THEN item[f]
                   ELSE IF item[f].clients > 0 THEN [item[f] EXCEPT !.status = "illegal"]
                   ELSE FreeItem]

ClassOf(n, cs) == {k \in Classes : k[1] = n /\ cs[k].state = "listed"}

(* add_class for every class of the file: one that is listed is kept with  *)
(* its links, another is made.                                             *)
MadeClass(n) == <<n, NewGen(LAMBDA g : class[<<n, g>>].state = "free")>>

add_class(nums) ==
  [k \in Classes |->
     IF k[1] \in nums /\ ClassOf(k[1], class) = {} /\ k = MadeClass(k[1])
     THEN [state |-> "listed", links |-> 0] ELSE class[k]]

(* check_class: a class that is not in the file leaves the list, and is    *)
(* freed when nobody counts on it.                                         *)
check_class(nums, cs) ==
  [k \in Classes |->
     IF k = Zero \/ cs[k].state # "listed" \/ k[1] \in nums THEN cs[k]
     ELSE IF cs[k].links <= 0 THEN FreeClass
     ELSE [cs[k] EXCEPT !.state = "marked"]]

(* find_class and conf_add_class_to_conf: class 0 when there is no other.  *)
find_class(n, cs) == IF ClassOf(n, cs) = {} THEN Zero
                     ELSE CHOOSE k \in ClassOf(n, cs) : TRUE

HasRoom(bs, nums) ==
  /\ \A b \in bs : \E g \in Gens : Retired[<<b, g>>].status = "free"
  /\ \A n \in nums : ClassOf(n, class) = {} =>
       \E g \in Gens : class[<<n, g>>].state = "free"

(* rehash with a file of these classes and blocks; no blocks is also what  *)
(* is left when the file cannot be opened the second time.                 *)
rehash(nums, bs) ==
  LET cs   == check_class(nums, add_class(nums))
      made == [b \in bs |-> <<b, NewGen(LAMBDA g : Retired[<<b, g>>].status = "free")>>]
      file == Kept(FileOrder, Blocks \ bs)
  IN  /\ rehashes < MaxRehash
      /\ HasRoom(bs, nums)
      /\ rehashes' = rehashes + 1
      /\ class' = cs
      /\ item' = [f \in Confs |->
                    IF f[1] \in bs /\ f = made[f[1]]
                    THEN [status |-> "listed", class |-> find_class(Number[f[1]], cs),
                          clients |-> 0]
                    ELSE Retired[f]]
      /\ GlobalConfItemList' =
           [i \in 1 .. Len(file) |-> made[file[Len(file) + 1 - i]]]  \* conf_add_conf
      /\ hold' = [f \in Confs |-> 0]
      /\ UNCHANGED <<confs, name, stage>>

-----------------------------------------------------------------------------
(* Clients.                                                                *)

(* attach_Iline and attach_iline for the first auth block.                 *)
attach_Iline(p) ==
  LET f == First({g \in Listed : Kind[g[1]] = "client"})
  IN  /\ confs[p] = << >> /\ f # Nil
      /\ \/ class[item[f].class].links + 1 <= Limit(item[f].class)
         \/ f[1] \in Exempt
      /\ SetWorld(attach_conf(World, f))
      /\ confs' = [confs EXCEPT ![p] = <<f>>]
      /\ UNCHANGED <<GlobalConfItemList, name, stage, hold, rehashes>>

(* OPER: find_conf_exact finds an operator block below its limit.          *)
m_oper(p) ==
  LET f == First({g \in Listed : Kind[g[1]] = "oper" /\ item[g].clients < Limit(item[g].class)})
  IN  /\ Len(confs[p]) = 1 /\ f # Nil
      /\ SetWorld(attach_conf(World, f))
      /\ confs' = [confs EXCEPT ![p] = <<f>> \o @]
      /\ UNCHANGED <<GlobalConfItemList, name, stage, hold, rehashes>>

(* exit_client: det_confs_butmask(exit_ptr, 0).                            *)
exit_person(p) ==
  /\ confs[p] # << >>
  /\ SetWorld(det_confs(World, confs[p]))
  /\ confs' = [confs EXCEPT ![p] = << >>]
  /\ UNCHANGED <<GlobalConfItemList, name, stage, hold, rehashes>>

NewConn == IF \A c \in Conns : stage[c] # "none" THEN Nil
           ELSE CHOOSE c \in Conns : stage[c] = "none"

(* An incoming server, or the answer of one we connect to: check_server    *)
(* attaches the listed block of that name, and server_estab follows.       *)
check_server(c, b) ==
  /\ Kind[b] = "server"
  /\ \E f \in ListedOf(b) :
    /\ c = NewConn \/ (stage[c] = "connecting" /\ name[c] = b)
    /\ \A d \in Conns : ~ (stage[d] = "up" /\ name[d] = b)
    /\ name' = [name EXCEPT ![c] = b]
    /\ stage' = [stage EXCEPT ![c] = "up"]
    /\ IF \E i \in DOMAIN confs[c] : confs[c][i] = f
         THEN UNCHANGED <<item, class, confs>>
         ELSE /\ SetWorld(attach_conf(World, f))
              /\ confs' = [confs EXCEPT ![c] = <<f>> \o @]
    /\ UNCHANGED <<GlobalConfItemList, hold, rehashes>>

(* How many rounds find a hold of so many rounds that begins between two:  *)
(* the last of them comes when it has just ended, or just before.          *)
Skipped(rounds) == {rounds - 1, rounds}

(* exit_client for a server connection.  The block of an established link  *)
(* is held for HANGONRETRYDELAY, or for the period of its class.           *)
exit_server(c) ==
  /\ stage[c] # "none"
  /\ IF stage[c] = "up" /\ ListedOf(name[c]) # {}
       THEN \E f \in ListedOf(name[c]) :
              \E h \in Skipped(HANGONRETRYDELAY) \cup Skipped(Period(item[f].class)) :
                hold' = [hold EXCEPT ![f] = h]
       ELSE UNCHANGED hold
  /\ SetWorld(det_confs(World, confs[c]))
  /\ confs' = [confs EXCEPT ![c] = << >>]
  /\ stage' = [stage EXCEPT ![c] = "none"]
  /\ name' = [name EXCEPT ![c] = Nil]
  /\ UNCHANGED <<GlobalConfItemList, rehashes>>

-----------------------------------------------------------------------------
(* try_connections.                                                        *)

\* Mutant: the block that is picked keeps its place.
RotatedNot(list, f) == list

(* The block that was picked goes to the end of the list.                  *)
Rotated(list, f) == Append(Kept(list, {f}), f)

(* find_server: connections that are not established are not found.        *)
Present(b) == \E c \in Conns : stage[c] = "up" /\ name[c] = b
Due(f)     == Kind[f[1]] = "server" /\ f[1] \in WithPort /\ hold[f] = 0
Room(f)    == class[item[f].class].links < Limit(item[f].class)

(* serv_connect: a connection block, unless there is no descriptor left,   *)
(* with the listed blocks of that name attached (attach_cn_lines).         *)
serv_connect(f) ==
  IF NewConn = Nil
    THEN UNCHANGED <<item, class, confs, name, stage>>
    ELSE /\ SetWorld(attach_conf(World, f))
         /\ confs' = [confs EXCEPT ![NewConn] = <<f>>]
         /\ name' = [name EXCEPT ![NewConn] = f[1]]
         /\ stage' = [stage EXCEPT ![NewConn] = "connecting"]

(* The block that is connected to in this round.                           *)
con_conf == First({g \in Listed : Due(g) /\ ~ Present(g[1]) /\ Room(g)})

(* The event, once a round: every block that is due is put on hold, and    *)
(* the first that is down and has room is picked.                          *)
try_connections ==
  /\ hold' = [g \in Confs |->
                IF item[g].status = "listed" /\ Due(g)
                THEN Period(item[g].class) - 1
                ELSE IF hold[g] > 0 THEN hold[g] - 1 ELSE 0]
  /\ UNCHANGED rehashes
  /\ \E f \in {con_conf} :
      /\ GlobalConfItemList' = IF f = Nil THEN GlobalConfItemList
                               ELSE Rotated(GlobalConfItemList, f)
      /\ IF f # Nil /\ f[1] \in AutoConn
           THEN serv_connect(f)
           ELSE UNCHANGED <<item, class, confs, name, stage>>

-----------------------------------------------------------------------------
(* The first reading of the file, with every class and block in it.        *)
Init ==
  /\ class = [k \in Classes |-> IF k = Zero \/ k[2] = 1
                                THEN [state |-> "listed", links |-> 0] ELSE FreeClass]
  /\ item = [f \in Confs |-> IF f[2] = 1
                             THEN [status |-> "listed", class |-> <<Number[f[1]], 1>>,
                                   clients |-> 0]
                             ELSE FreeItem]
  /\ GlobalConfItemList = [i \in 1 .. Len(FileOrder) |->
                             <<FileOrder[Len(FileOrder) + 1 - i], 1>>]
  /\ confs = [c \in Clients |-> << >>]
  /\ name = [c \in Conns |-> Nil]
  /\ stage = [c \in Conns |-> "none"]
  /\ hold = [f \in Confs |-> 0]
  /\ rehashes = 0

Next ==
  \/ \E p \in Persons : attach_Iline(p) \/ m_oper(p) \/ exit_person(p)
  \/ \E c \in Conns : \/ exit_server(c)
                      \/ \E b \in Blocks : check_server(c, b)
  \/ \E file \in Files : rehash(file.classes, file.blocks)
  \/ try_connections

(* The event of every minute runs.                                         *)
Spec == Init /\ [][Next]_vars /\ WF_vars(try_connections)

-----------------------------------------------------------------------------
Holders(f) == {c \in Clients : \E i \in DOMAIN confs[c] : confs[c][i] = f}
OnClass(k) == {cf \in Clients \X {f \in Confs : item[f].class = k /\ Counted(f)} :
                 cf[1] \in Holders(cf[2])}

(* The counters that decide about admission and about freeing are exact,   *)
(* across any number of rehashes: an item counts its holders, a class the  *)
(* holders of its auth and connect blocks.                                 *)
LinksExact ==
  /\ \A f \in Confs : item[f].clients = Cardinality(Holders(f))
  /\ \A k \in Classes : class[k].links = Cardinality(OnClass(k))

(* No pointer outlives what it points to, and nothing is kept that nobody  *)
(* can reach: a held or listed item is allocated, an auth or connect block *)
(* that is held or listed has its class, an item off the list is held, and *)
(* a class off the list is counted on.                                     *)
PointersLive ==
  /\ \A f \in Confs : Holders(f) # {} => item[f].status # "free"
  /\ \A f \in Confs : item[f].status = "listed" <=> f \in Listed
  /\ \A f \in Confs : item[f].status = "illegal" => Holders(f) # {}
  /\ \A f \in Confs : item[f].status = "listed" \/ (Holders(f) # {} /\ Counted(f)) =>
       item[f].class # Nil /\ class[item[f].class].state # "free"
  /\ \A k \in Classes : class[k].state = "marked" => OnClass(k) # {}

(* The event connects to this block.                                       *)
Tries(b) == con_conf \in ListedOf(b) /\ try_connections

(* Every connect block with a port that stays down while its class has     *)
(* room is picked again and again: each round picks only one and puts all  *)
(* that were due on hold, for periods of different lengths.                *)
ServersTried ==
  \A b \in AutoConn \cap WithPort :
    \/ []<><<Tries(b)>>_vars
    \/ []<>(Present(b) \/ ListedOf(b) = {} \/ \E f \in ListedOf(b) : ~ Room(f))
=============================================================================
