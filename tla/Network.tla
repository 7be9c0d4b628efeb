------------------------------ MODULE Network -------------------------------
(***************************************************************************)
(* The network as one server keeps it (server/s_exit.c, server/s_serv.c,   *)
(* server/s_user.c, protocol/native.c, src/client.c): the list of client   *)
(* blocks, the users and servers of every server, the links, the counters, *)
(* and what every link has been told.  A netsplit is taken apart one exit  *)
(* at a time, as exit_recursion does it.                                   *)
(*                                                                         *)
(* A link is read in order, so what a peer has been told is its view once  *)
(* it has read all of it.  Links negotiate no key (DKEY), and announce the *)
(* capabilities a server of this program announces.                        *)
(***************************************************************************)
EXTENDS Integers, Sequences, FiniteSets

CONSTANTS
  Locals,    \* blocks of local clients: persons, links, unregistered ones
  Remotes,   \* blocks of clients behind a link
  Me,        \* this server
  Nil,       \* the null pointer
  MaxAstray  \* bound: persons refused for coming from the wrong direction

Clients == Locals \cup Remotes

ASSUME NetworkAssumption ==
  /\ IsFiniteSet(Locals) /\ IsFiniteSet(Remotes) /\ Locals \cap Remotes = {}
  /\ Me \notin Clients /\ Nil \notin Clients /\ Me # Nil
  /\ MaxAstray \in Nat

VARIABLES
  status,            \* STAT_* of a block; "free" when it is not allocated
  from,              \* the local client a client is behind
  servptr,           \* the server a client is on
  GlobalClientList,  \* every block, the newest first; Me, the last, left out
  users, servers,    \* the lists of a server
  usercnt, servercnt,
  serv_list,         \* the links
  global_serv_list,  \* every server but this one
  Count,             \* the counters of the same name
  exit_list,         \* local clients that exited and are not yet freed
  stack,             \* the calls of exit_recursion under way, outermost first
  source,            \* source_p of those calls
  told,              \* what a link has been told: client |-> its server
  confused,          \* links told of a client twice, or before its server
  astray             \* persons refused for a server behind another link

tree   == <<status, from, servptr, GlobalClientList, users, servers>>
counts == <<usercnt, servercnt, Count, astray>>
links  == <<serv_list, global_serv_list>>
peers  == <<told, confused>>
vars   == <<tree, counts, links, peers, exit_list, stack, source>>

Nodes    == Clients \cup {Me}

IsServer(x) == status[x] = "server"
(* user is NULL once a person has exited.                                  *)
IsPerson(x) == status[x] = "person" /\ x \notin exit_list
(* A server that has not exited.                                           *)
Known(x)    == x \notin exit_list /\ (IsServer(x) \/ IsPerson(x))
Hosts       == {x \in Clients : IsServer(x) /\ x \notin exit_list}

Idle == stack = << >>

-----------------------------------------------------------------------------
(* What the links are told.                                                *)

Empty == [z \in {} |-> Me]

Topo == INSTANCE Topology WITH up <- Empty, hosts <- {}, told <- Empty

(* A peer takes a new client it does not know, on a server it knows.       *)
Fits(view, x, y) == x \notin DOMAIN view /\ (y = Me \/ y \in DOMAIN view)

Add(view, x, y) == [z \in DOMAIN view \cup {x} |-> IF z = x THEN y ELSE view[z]]

(* One SERVER, CLIENT or NICK line to every link of a set.                 *)
Tell(to, x, y) ==
  /\ told' = [l \in Locals |-> IF l \in to /\ Fits(told[l], x, y)
                               THEN Add(told[l], x, y) ELSE told[l]]
  /\ confused' = confused \cup {l \in to : ~ Fits(told[l], x, y)}

\* Mutant: the peer is told of the client, and keeps what is behind it.
TellGoneOne(to, x) ==
  told' = [l \in Locals |-> IF l \in to THEN Topo!Without(told[l], {x}) ELSE told[l]]

(* One QUIT or SQUIT line: the peer drops the client and all behind it.    *)
TellGone(to, x) ==
  told' = [l \in Locals |-> IF l \in to
                            THEN Topo!Without(told[l], Topo!Behind(told[l], x))
                            ELSE told[l]]

Place(x) == CHOOSE i \in DOMAIN GlobalClientList : GlobalClientList[i] = x

(* do_continue_server_estab: every server on the list from Me upwards,     *)
(* other than what is behind the new link, exited blocks included.         *)
BurstServers(l) == {x \in Clients \ {l} : IsServer(x) /\ from[x] # l}

(* do_sendnick_TS for every person, each once (PFLAGS_NICKISSENT).         *)
BurstNicks(l) == {x \in Clients : IsPerson(x) /\ from[x] # l}

(* The lines of a burst that the peer can not take: a server sent before   *)
(* the server it is on, or a person whose server is not sent.              *)
Misplaced(l) ==
  \/ \E x \in BurstServers(l) :
       /\ servptr[x] # Me
       /\ ~ (servptr[x] \in BurstServers(l) /\ Place(servptr[x]) > Place(x))
  \/ \E x \in BurstNicks(l) : servptr[x] \notin BurstServers(l) \cup {Me}

Burst(l) == [x \in BurstServers(l) \cup BurstNicks(l) |-> servptr[x]]

-----------------------------------------------------------------------------
Init ==
  /\ status = [x \in Clients |-> "free"]
  /\ from = [x \in Clients |-> Nil]
  /\ servptr = [x \in Clients |-> Nil]
  /\ GlobalClientList = << >>
  /\ users = [x \in Nodes |-> {}]
  /\ servers = [x \in Nodes |-> {}]
  /\ usercnt = [x \in Nodes |-> 0]
  /\ servercnt = [x \in Nodes |-> 0]
  /\ serv_list = {}
  /\ global_serv_list = {}
  /\ Count = [total |-> 0, local |-> 0, server |-> 0, myserver |-> 0]
  /\ exit_list = {}
  /\ stack = << >>
  /\ source = Nil
  /\ told = [l \in Locals |-> Empty]
  /\ confused = {}
  /\ astray = [x \in Nodes |-> 0]

(* make_client(NULL) and add_client_to_list, for a connection that came in *)
(* (start_auth) or went out (serv_connect).                                *)
Connect(x) ==
  /\ Idle /\ status[x] = "free"
  /\ status' = [status EXCEPT ![x] = "unknown"]
  /\ from' = [from EXCEPT ![x] = x]
  /\ GlobalClientList' = <<x>> \o GlobalClientList
  /\ UNCHANGED <<servptr, users, servers, counts, links, peers, exit_list,
                 stack, source>>

(* register_local_user, past its refusals, which exit an unknown client.   *)
register_local_user(x) ==
  /\ Idle /\ status[x] = "unknown" /\ x \notin exit_list
  /\ status' = [status EXCEPT ![x] = "person"]
  /\ servptr' = [servptr EXCEPT ![x] = Me]
  /\ users' = [users EXCEPT ![Me] = @ \cup {x}]
  /\ usercnt' = [usercnt EXCEPT ![Me] = @ + 1]
  /\ Count' = [Count EXCEPT !.total = @ + 1, !.local = @ + 1]
  /\ Tell(serv_list, x, Me)
  /\ UNCHANGED <<from, GlobalClientList, servers, servercnt, astray, links,
                 exit_list, stack, source>>

(* server_estab up to the call of continue_server_estab.                   *)
Establish(x) ==
  /\ Idle /\ status[x] = "unknown" /\ x \notin exit_list
  /\ status' = [status EXCEPT ![x] = "server"]
  /\ servptr' = [servptr EXCEPT ![x] = Me]
  /\ servers' = [servers EXCEPT ![Me] = @ \cup {x}]
  /\ servercnt' = [servercnt EXCEPT ![Me] = @ + 1]
  /\ global_serv_list' = global_serv_list \cup {x}
  /\ UNCHANGED <<from, GlobalClientList, users, usercnt, astray, exit_list>>

(* server_estab: the burst goes to the new link, its SERVER line to the    *)
(* others (do_inform_other_servers).                                       *)
server_estab(x) ==
  /\ Establish(x)
  /\ serv_list' = serv_list \cup {x}
  /\ Count' = [Count EXCEPT !.server = @ + 1, !.myserver = @ + 1]
  /\ told' = [l \in Locals |->
                CASE l = x -> Burst(x)
                  [] l \in serv_list /\ Fits(told[l], x, Me) -> Add(told[l], x, Me)
                  [] OTHER -> told[l]]
  /\ confused' = confused \cup {l \in serv_list : ~ Fits(told[l], x, Me)}
                          \cup IF Misplaced(x) THEN {x} ELSE {}
  /\ UNCHANGED <<stack, source>>

(* do_server_estab finds the identity taken: the link exits before the     *)
(* other links were told of it.  exit_client has taken it off serv_list    *)
(* and out of Count.myserver again, and exit_recursion begins.             *)
server_estab_overridden(x) ==
  /\ Hosts # {}
  /\ Establish(x)
  /\ Count' = [Count EXCEPT !.server = @ + 1]
  /\ stack' = <<x>>
  /\ source' = Me
  /\ UNCHANGED <<serv_list, told, confused>>

\* Mutant: the new block goes to the end of the list that bursts begin from.
m_serverLast(x, y) ==
  /\ Idle /\ status[x] = "free" /\ y \in Hosts
  /\ status' = [status EXCEPT ![x] = "server"]
  /\ from' = [from EXCEPT ![x] = from[y]]
  /\ servptr' = [servptr EXCEPT ![x] = y]
  /\ GlobalClientList' = Append(GlobalClientList, x)
  /\ servers' = [servers EXCEPT ![y] = @ \cup {x}]
  /\ servercnt' = [servercnt EXCEPT ![y] = @ + 1]
  /\ global_serv_list' = global_serv_list \cup {x}
  /\ Count' = [Count EXCEPT !.server = @ + 1]
  /\ Tell(serv_list \ {from[y]}, x, y)
  /\ UNCHANGED <<users, usercnt, astray, serv_list, exit_list, stack, source>>

(* A SERVER line of link from[y] for a new server on y: m_server allocates *)
(* and lists the block, do_inform_remote_servers tells the other links.    *)
m_server(x, y) ==
  /\ Idle /\ status[x] = "free" /\ y \in Hosts
  /\ status' = [status EXCEPT ![x] = "server"]
  /\ from' = [from EXCEPT ![x] = from[y]]
  /\ servptr' = [servptr EXCEPT ![x] = y]
  /\ GlobalClientList' = <<x>> \o GlobalClientList
  /\ servers' = [servers EXCEPT ![y] = @ \cup {x}]
  /\ servercnt' = [servercnt EXCEPT ![y] = @ + 1]
  /\ global_serv_list' = global_serv_list \cup {x}
  /\ Count' = [Count EXCEPT !.server = @ + 1]
  /\ Tell(serv_list \ {from[y]}, x, y)
  /\ UNCHANGED <<users, usercnt, astray, serv_list, exit_list, stack, source>>

(* do_remote_user and register_remote_user for a person on y, introduced   *)
(* by the link y is behind.                                                *)
do_remote_user(x, y) ==
  /\ Idle /\ status[x] = "free" /\ y \in Hosts
  /\ status' = [status EXCEPT ![x] = "person"]
  /\ from' = [from EXCEPT ![x] = from[y]]
  /\ servptr' = [servptr EXCEPT ![x] = y]
  /\ GlobalClientList' = <<x>> \o GlobalClientList
  /\ users' = [users EXCEPT ![y] = @ \cup {x}]
  /\ usercnt' = [usercnt EXCEPT ![y] = @ + 1]
  /\ Count' = [Count EXCEPT !.total = @ + 1]
  /\ Tell(serv_list \ {from[y]}, x, y)
  /\ UNCHANGED <<servers, servercnt, astray, links, exit_list, stack, source>>

(* register_remote_user for a person on y introduced by another link: the  *)
(* block is killed and exits before it was put on the list of y, so that   *)
(* exit_one_client takes from usercnt what was never added.                *)
wrong_direction(l, y) ==
  /\ Idle /\ l \in serv_list /\ (y = Me \/ (y \in Hosts /\ from[y] # l))
  /\ \A z \in Nodes : astray[z] < MaxAstray
  /\ usercnt' = [usercnt EXCEPT ![y] = @ - 1]
  /\ astray' = [astray EXCEPT ![y] = @ + 1]
  /\ UNCHANGED <<tree, servercnt, Count, links, peers, exit_list, stack, source>>

-----------------------------------------------------------------------------
(* The list without the blocks of a set, in its order.                     *)
Kept(list, gone) ==
  LET kept[i \in 0 .. Len(list)] ==
        IF i = 0 THEN << >>
        ELSE IF list[i] \in gone THEN kept[i - 1] ELSE Append(kept[i - 1], list[i])
  IN  kept[Len(list)]

(* remove_client_from_list: the blocks are freed.                          *)
Free(gone) ==
  /\ status' = [x \in Clients |-> IF x \in gone THEN "free" ELSE status[x]]
  /\ from' = [x \in Clients |-> IF x \in gone THEN Nil ELSE from[x]]
  /\ servptr' = [x \in Clients |-> IF x \in gone THEN Nil ELSE servptr[x]]
  /\ GlobalClientList' = Kept(GlobalClientList, gone)

(* A local block goes on exit_list, a remote one is freed.                 *)
Dispose(x) ==
  IF x \in Locals
    THEN /\ exit_list' = exit_list \cup {x}
         /\ UNCHANGED <<status, from, servptr, GlobalClientList>>
    ELSE /\ Free({x})
         /\ UNCHANGED exit_list

(* exit_client for a client that has not registered.                       *)
exit_unknown(x) ==
  /\ Idle /\ status[x] = "unknown" /\ x \notin exit_list
  /\ Dispose(x)
  /\ UNCHANGED <<users, servers, counts, links, peers, stack, source>>

\* Mutant: the server keeps counting the person.
ExitPersonCounted(x) ==
  /\ users' = [users EXCEPT ![servptr[x]] = @ \ {x}]
  /\ UNCHANGED <<usercnt, servers, servercnt, astray, links, confused>>

(* exit_one_client for a person: off the list of its server.               *)
ExitPerson(x) ==
  /\ users' = [users EXCEPT ![servptr[x]] = @ \ {x}]
  /\ usercnt' = [usercnt EXCEPT ![servptr[x]] = @ - 1]
  /\ UNCHANGED <<servers, servercnt, astray, links, confused>>

(* exit_client for a person: QUIT, or the KILL its caller has sent, goes   *)
(* to every link but the one the person is behind.                         *)
exit_person(x) ==
  /\ Idle /\ IsPerson(x)
  /\ ExitPerson(x)
  /\ Count' = [Count EXCEPT !.total = @ - 1,
                            !.local = IF x \in Locals THEN @ - 1 ELSE @]
  /\ TellGone(serv_list \ {from[x]}, x)
  /\ Dispose(x)
  /\ UNCHANGED <<stack, source>>

(* exit_client for a server, as far as the call of exit_recursion: a link  *)
(* leaves serv_list at once.  In every call of the repository the source   *)
(* is this server or the connection that exits; SQUIT is an external       *)
(* module, taken to pass the link the server is behind.  Any other source  *)
(* that is no link changes nothing: like this server, it is not on the     *)
(* list from which the source is skipped.  Another link as the source      *)
(* would be left untold of servers it must have removed itself.            *)
exit_server(x, by) ==
  /\ Idle /\ x \in Hosts
  /\ serv_list' = serv_list \ {x}
  /\ Count' = [Count EXCEPT !.myserver = IF x \in Locals THEN @ - 1 ELSE @]
  /\ stack' = <<x>>
  /\ source' = by
  /\ told' = [l \in Locals |-> IF l = x THEN Empty ELSE told[l]]
  /\ UNCHANGED <<tree, usercnt, servercnt, astray, global_serv_list, confused,
                 exit_list>>

Top == stack[Len(stack)]

(* The first loop of exit_recursion: a user of the server exits, and no    *)
(* link is told.                                                           *)
exit_recursion_user ==
  /\ stack # << >>
  /\ \E x \in users[Top] :
       /\ ExitPerson(x)
       /\ Count' = [Count EXCEPT !.total = @ - 1]
       /\ Free({x})
  /\ UNCHANGED <<told, exit_list, stack, source>>

\* Mutant: the servers are taken in one pass over a list that changes.
exit_recursion_serverOnce ==
  /\ stack # << >> /\ users[Top] = {}
  /\ \E x \in servers[Top] : stack' = SubSeq(stack, 1, Len(stack) - 1) \o <<x>>
  /\ UNCHANGED <<tree, counts, links, peers, exit_list, source>>

(* The second loop: the call for a server of the server.                   *)
exit_recursion_server ==
  /\ stack # << >> /\ users[Top] = {}
  /\ \E x \in servers[Top] : stack' = Append(stack, x)
  /\ UNCHANGED <<tree, counts, links, peers, exit_list, source>>

(* exit_one_client past exit_recursion: SQUIT to the links, off the lists. *)
exit_one_client ==
  /\ stack # << >> /\ users[Top] = {} /\ servers[Top] = {}
  /\ TellGone(serv_list \ {Top, source}, Top)
  /\ global_serv_list' = global_serv_list \ {Top}
  /\ servers' = [servers EXCEPT ![servptr[Top]] = @ \ {Top}]
  /\ servercnt' = [servercnt EXCEPT ![servptr[Top]] = @ - 1, ![Top] = 0]
  /\ usercnt' = [usercnt EXCEPT ![Top] = 0]
  /\ astray' = [astray EXCEPT ![Top] = 0]
  /\ Count' = [Count EXCEPT !.server = @ - 1]
  /\ Dispose(Top)
  /\ stack' = SubSeq(stack, 1, Len(stack) - 1)
  /\ source' = IF Len(stack) = 1 THEN Nil ELSE source
  /\ UNCHANGED <<users, serv_list, confused>>

exit_recursion == exit_recursion_user \/ exit_recursion_server \/ exit_one_client

(* remove_exited_clients, by its event or at the end of a read.  A peer    *)
(* that was told of a block after its exit keeps the name, the model       *)
(* forgets it with the block.                                              *)
remove_exited_clients ==
  /\ Idle /\ exit_list # {}
  /\ Free(exit_list)
  /\ exit_list' = {}
  /\ confused' = confused \ exit_list
  /\ told' = [l \in Locals |-> Topo!Without(told[l], exit_list)]
  /\ UNCHANGED <<users, servers, counts, links, stack, source>>

Next ==
  \/ \E x \in Locals : \/ Connect(x) \/ register_local_user(x)
                       \/ server_estab(x) \/ server_estab_overridden(x)
                       \/ exit_unknown(x)
  \/ \E x \in Remotes, y \in Clients : m_server(x, y) \/ do_remote_user(x, y)
  \/ \E l \in Locals, y \in Nodes : wrong_direction(l, y)
  \/ \E x \in Clients : \/ exit_person(x)
                        \/ \E by \in {from[x], Me} : exit_server(x, by)
  \/ exit_recursion
  \/ remove_exited_clients

Spec == Init /\ [][Next]_vars

-----------------------------------------------------------------------------
\* Mutant: ssentalong is not consulted for a member behind a link.
RouteAlways(members, sender, one) ==
  LET step[i \in 0 .. Len(members)] ==
        IF i = 0 THEN [sent |-> << >>, killed |-> {}]
        ELSE LET r == step[i - 1]
             IN  IF from[members[i]] = one THEN r
                 ELSE [r EXCEPT !.sent = Append(@, from[members[i]])]
  IN  step[Len(members)]

(* sendto_channel_butone, for a line of a remote or local person to a      *)
(* channel: which descriptors it is written to, one member at a time in    *)
(* the order of the list.  ssentalong is indexed by the descriptor of the  *)
(* member, or of the link it is behind; "one" is the client whose side is  *)
(* left out.  A member that shares the side of a remote sender is a fake   *)
(* direction (check_fake_direction) and would be killed.                   *)
RouteMember(r, m, sender, one) ==
  IF from[m] = one THEN r
  ELSE IF sender \in Remotes /\ from[m] = from[sender] THEN [r EXCEPT !.killed = @ \cup {m}]
  ELSE IF m \in Locals THEN [r EXCEPT !.sent = Append(@, m)]
  ELSE IF \E k \in DOMAIN r.sent : r.sent[k] = from[m] THEN r
  ELSE [r EXCEPT !.sent = Append(@, from[m])]

Route(members, sender, one) ==
  LET step[i \in 0 .. Len(members)] ==
        IF i = 0 THEN [sent |-> << >>, killed |-> {}]
        ELSE RouteMember(step[i - 1], members[i], sender, one)
  IN  step[Len(members)]

-----------------------------------------------------------------------------
(* The users and servers lists are exactly the inverse of servptr, the     *)
(* list of all blocks and global_serv_list hold what is allocated and what *)
(* is a server, and a client is behind the link its server is behind, in   *)
(* every state.  Nobody stays behind a lost link: the link of a remote     *)
(* client is established, or its split is under way.                       *)
TreeMirrored ==
  /\ \A y \in Nodes :
       /\ users[y] = {x \in Clients : IsPerson(x) /\ servptr[x] = y}
       /\ servers[y] = {x \in Hosts : servptr[x] = y}
  /\ global_serv_list = Hosts
  /\ \A x \in Remotes : status[x] # "free" =>
       /\ servptr[x] \in Hosts
       /\ from[x] = from[servptr[x]]
       /\ from[x] \in serv_list \/ (stack # << >> /\ from[x] = stack[1])
  /\ {GlobalClientList[i] : i \in DOMAIN GlobalClientList}
       = {x \in Clients : status[x] # "free"}

(* The counters that LUSERS and the connection limits read agree with the  *)
(* lists, except for the persons refused for the wrong direction, whom     *)
(* usercnt loses without having counted them.                              *)
CountersAgree ==
  /\ \A y \in Hosts \cup {Me} :
       /\ usercnt[y] + astray[y] = Cardinality(users[y])
       /\ servercnt[y] = Cardinality(servers[y])
  /\ Count.total = Cardinality({x \in Clients : IsPerson(x)})
  /\ Count.local = Cardinality(users[Me])
  /\ Count.server = Cardinality(Hosts)
  /\ Count.myserver = Cardinality(serv_list)

(* No link is told of a client it already has, nor of a client before the  *)
(* server the client is on.                                                *)
ToldInOrder == confused = {}

(* A line to a channel reaches every local member but the side it came     *)
(* from once, crosses every link with members behind it once, goes to no   *)
(* link that is gone, and kills nobody for a fake direction.               *)
RoutedOnce ==
  Idle =>
  \A members \in SUBSET {x \in Clients : IsPerson(x)} :
    \A sender \in members :
      LET list == Kept(GlobalClientList, Clients \ members)
          r    == Route(list, sender, from[sender])
          ends == {r.sent[i] : i \in DOMAIN r.sent}
      IN  /\ r.killed = {}
          /\ ends = {from[m] : m \in members} \ {from[sender]}
          /\ Len(r.sent) = Cardinality(ends)
          /\ ends \cap exit_list = {}

-----------------------------------------------------------------------------
(* The refinement mapping: a server whose split is under way is gone with  *)
(* all that is behind it, here and for every link.  A link that comes up   *)
(* before remove_exited_clients is told of the links that have left: those *)
(* are not part of what it should know.                                    *)
KnownTree == [x \in {z \in Clients : Known(z)} |-> servptr[x]]

Hidden(view) == IF Idle THEN {} ELSE Topo!Behind(view, stack[1])

Abstract == INSTANCE Topology WITH
  up    <- Topo!Without(KnownTree, Hidden(KnownTree)),
  hosts <- Hosts \ Hidden(KnownTree),
  told  <- [l \in serv_list |-> Topo!Without(told[l], exit_list \cup Hidden(told[l]))]

(* Network implements Topology: a split of any size is one step, after     *)
(* which every neighbour has been told exactly what is left.               *)
ImplementsTopology == Abstract!Spec
=============================================================================
