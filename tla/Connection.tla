----------------------------- MODULE Connection ------------------------------
(***************************************************************************)
(* The life of a connection: a listener accepts it (server/s_listener.c,   *)
(* server/s_bsd.c), its host name and ident user are looked up             *)
(* (server/s_auth.c, server/s_servauth.c, src/adns.c), it is released to   *)
(* the reader (server/s_packet.c, server/s_flood.c), it exits              *)
(* (server/s_exit.c) and its block is reaped.  Connections this server     *)
(* opens to other servers (serv_connect in server/s_serv.c) share the      *)
(* descriptor table, the client blocks and the resolver with them.         *)
(*                                                                         *)
(* The server is one thread; its interleaving is the order in which the    *)
(* I/O loop, the resolver and the event table call the handlers below.     *)
(* Each of them may call the next synchronously (a connect() that fails at *)
(* once runs the connect callback before comm_connect_tcp returns), so a   *)
(* handler is written as an operator from a world to the set of worlds it  *)
(* may leave behind, and an action runs one handler.  Elapsed time is not  *)
(* modelled: a timeout may fire whenever its handler would find it armed.  *)
(***************************************************************************)
EXTENDS FdTable, Sequences, SequencesExt

CONSTANTS
  Clients,    \* addresses of the free_local_aClients block heap
  Requests,   \* addresses of struct AuthRequest
  Listeners,  \* addresses of struct Listener
  Kinds,      \* what the listeners of the configuration are for
  ByName,     \* does a connect{} block name its host, or give its address?
  MaxUnknown  \* bound on Count.unknown

Objects == Clients \cup Requests \cup Listeners

(* The names of the handlers that fd_table registers.                       *)
Callbacks ==
  {"accept_connection", "read_auth_reply", "read_client_packet", "read_server_packet",
   "comm_tryall_callback", "comm_connect_tryconnect", "auth_connect_callback",
   "serv_connect_callback", "flood_recalc"}

(* The blocks of the heaps are at different addresses, none of them null.   *)
ASSUME ConnectionAssumption ==
  /\ Kinds \subseteq {"client", "ssl", "server"}
  /\ ByName \in BOOLEAN /\ MaxUnknown \in Nat
  /\ IsFiniteSet(Clients) /\ IsFiniteSet(Requests) /\ IsFiniteSet(Listeners)
  /\ Clients \cap Requests = {} /\ Clients \cap Listeners = {} /\ Requests \cap Listeners = {}
  /\ NULL \notin Objects \cup Kinds
  /\ \A n \in Callbacks, x \in Objects \cup {NULL} : <<n, x>> # NULL

VARIABLES
  fds,       \* fd_table, number_fd, highest_fd
  client,    \* the client blocks
  unknown,   \* unknown_list
  count,     \* Count.unknown
  clients,   \* GlobalClientList above me, newest first
  exited,    \* exit_list
  request,   \* the auth requests
  polled,    \* auth_poll_list
  queries,   \* the queries adns is working on
  listener   \* the listeners

vars == <<fds, client, unknown, count, clients, exited, request, polled, queries, listener>>

(* "exited" stands for FLAGS_CLOSING and FLAGS_EXITED, which no other       *)
(* handler sees apart; "idle" for a DNSQuery whose query is NULL.           *)
FreeClient == [status |-> "free", fd |-> -1, listener |-> NULL, dns |-> "null", dead |-> FALSE]
NewClient == [FreeClient EXCEPT !.status = "unknown"]
FreeRequest == [client |-> NULL, fd |-> -1, dns |-> FALSE, ident |-> "no"]
FreeListener == [kind |-> NULL, fd |-> -1, active |-> FALSE, refs |-> 0]

World == [fds |-> fds, client |-> client, unknown |-> unknown, count |-> count,
          clients |-> clients, exited |-> exited, request |-> request,
          polled |-> polled, queries |-> queries, listener |-> listener]

Become(w) ==
  /\ fds' = w.fds /\ client' = w.client /\ unknown' = w.unknown /\ count' = w.count
  /\ clients' = w.clients /\ exited' = w.exited /\ request' = w.request
  /\ polled' = w.polled /\ queries' = w.queries /\ listener' = w.listener

(* A handler leaves one of these worlds behind.                             *)
Run(worlds) == \E w \in worlds : Become(w)

Init ==
  /\ fds = EmptyTable
  /\ client = [c \in Clients |-> FreeClient] /\ unknown = {} /\ count = 0
  /\ clients = <<>> /\ exited = {}
  /\ request = [a \in Requests |-> FreeRequest] /\ polled = {} /\ queries = {}
  /\ listener = [l \in Listeners |-> FreeListener]

-----------------------------------------------------------------------------
(* Client blocks.                                                           *)

make_client(w, c) ==
  [w EXCEPT !.client[c] = NewClient, !.unknown = @ \cup {c}, !.count = @ + 1]

(* free_client for each client of the set: one that kept a descriptor has   *)
(* it closed.                                                               *)
free_client(w, cs) ==
  [w EXCEPT !.fds = CloseAll(@, {f \in {w.client[c].fd : c \in cs} : f > 2}),
            !.client = [c \in Clients |-> IF c \in cs THEN FreeClient ELSE @[c]]]

(* The failure paths of add_connection and serv_connect drop the client     *)
(* from unknown_list but leave Count.unknown alone.                         *)
discard_client(w, c) == free_client([w EXCEPT !.unknown = @ \ {c}], {c})

add_client_to_list(w, c) == [w EXCEPT !.clients = <<c>> \o @]

(* A list without the blocks of a set, in its order.                        *)
Kept(list, gone) ==
  LET kept[i \in 0 .. Len(list)] ==
        IF i = 0 THEN << >>
        ELSE IF list[i] \in gone THEN kept[i - 1] ELSE Append(kept[i - 1], list[i])
  IN kept[Len(list)]

\* Mutant: the blocks are freed and stay linked.
remove_client_from_listLinked(w, cs) == free_client(w, cs)

(* Unlinks the clients that are on the list, and frees them: a client that  *)
(* was never released has null links and is only freed.                     *)
remove_client_from_list(w, cs) == free_client([w EXCEPT !.clients = Kept(@, cs)], cs)

remove_exited_clients(w) == [remove_client_from_list(w, w.exited) EXCEPT !.exited = {}]

-----------------------------------------------------------------------------
(* Exit of a local client.                                                  *)

\* Mutant: the exit of a client forgets its DNS query.
delete_adns_queriesNever(w, c) == w

delete_adns_queries(w, c) ==
  IF w.client[c].dns = "pending"
  THEN [w EXCEPT !.queries = {q \in @ : q.owner # c}] ELSE w

free_auth_request(w, a) == [w EXCEPT !.request[a] = FreeRequest]

unlink_auth_request(w, a) == [w EXCEPT !.polled = @ \ {a}]

CloseIdent(w, a) ==
  [w EXCEPT !.fds = IF w.request[a].fd >= 0 THEN fd_close(@, w.request[a].fd) ELSE @,
            !.request[a].fd = -1]

RequestsOf(w, c) == {a \in w.polled : w.request[a].client = c}

\* Mutant: the request is freed, its ident descriptor stays open.
delete_identd_queriesOpen(w, c) ==
  [w EXCEPT !.request = [a \in Requests |-> IF a \in RequestsOf(w, c) THEN FreeRequest ELSE @[a]],
            !.polled = @ \ RequestsOf(w, c)]

delete_identd_queries(w, c) ==
  [w EXCEPT !.fds = CloseAll(@, {f \in {w.request[a].fd : a \in RequestsOf(w, c)} : f >= 0}),
            !.request = [a \in Requests |-> IF a \in RequestsOf(w, c) THEN FreeRequest ELSE @[a]],
            !.polled = @ \ RequestsOf(w, c)]

LeaveUnknown(w, c) ==
  IF c \in w.unknown THEN [w EXCEPT !.unknown = @ \ {c}, !.count = @ - 1] ELSE w

CloseClient(w, c) ==
  IF w.client[c].fd >= 0
  THEN [w EXCEPT !.fds = fd_close(@, w.client[c].fd),
                 !.client[c].fd = -1, !.client[c].dead = TRUE]
  ELSE w

(* The last connection of a listener that is no longer in the configuration *)
(* frees it.                                                                *)
LeaveListener(w, c) ==
  LET l == w.client[c].listener
      left == [w.listener[l] EXCEPT !.refs = @ - 1]
  IN IF l = NULL THEN w
     ELSE [w EXCEPT !.client[c].listener = NULL,
                    !.listener[l] = IF left.refs = 0 /\ ~left.active
                                    THEN FreeListener ELSE left]

exit_client(w, c) ==
  IF w.client[c].status \in {"free", "exited"} THEN w
  ELSE LET cut == delete_identd_queries(delete_adns_queries(w, c), c)
           out == LeaveListener(CloseClient(LeaveUnknown(cut, c), c), c)
       IN [out EXCEPT !.client[c].status = "exited", !.exited = @ \cup {c}]

-----------------------------------------------------------------------------
(* Reading from a released client.  The commands are loadable modules; what *)
(* they can do to connections is to register this one, as a user or as a    *)
(* server, to exit it, to find that its socket died when replying, or, once *)
(* it is registered, to exit another one.                                   *)

register_local_user(w, c) == [LeaveUnknown(w, c) EXCEPT !.client[c].status = "client"]

server_estab(w, c) == [LeaveUnknown(w, c) EXCEPT !.client[c].status = "server"]

\* attach_iline and check_server refuse the wrong kind of listener.
Registered(w, c) ==
  LET l == w.client[c].listener
  IN IF l = NULL \/ w.listener[l].kind = "server"
     THEN server_estab(w, c) ELSE register_local_user(w, c)

SurvivedCommand(w, c) ==
  {w, [w EXCEPT !.client[c].dead = TRUE]}
  \cup (IF w.client[c].status \in {"client", "server"}
        THEN {exit_client(w, d) : d \in ToSet(w.clients) \ {c}}
        ELSE {Registered(w, c)})

(* Registers for the next read unless the socket died.                      *)
Rearm(w, c) ==
  LET h == IF w.client[c].status \in {"handshake", "server"}
           THEN "read_server_packet" ELSE "read_client_packet"
  IN IF w.client[c].dead THEN w
     ELSE [w EXCEPT !.fds = SetRead(@, w.client[c].fd, <<h, c>>)]

\* Mutant: no registration for the next read.
parse_client_queuedOnce(w, c) == {exit_client(w, c)} \cup SurvivedCommand(w, c)

parse_client_queued(w, c) ==
  {exit_client(w, c)} \cup {Rearm(v, c) : v \in SurvivedCommand(w, c)}

(* Dead socket, nothing to read yet, end of file or error (dead_link_on_read)*)
(* or data.  Only the last path reaps the exited clients.                   *)
ReadPacket(w, c) ==
  IF w.client[c].dead THEN {exit_client(w, c)}
  ELSE {Rearm(w, c), exit_client(w, c)}
       \cup {remove_exited_clients(v) : v \in parse_client_queued(w, c)}

(* flood_recalc does nothing, and is not set again, before registration and *)
(* for the privileged.                                                      *)
flood_recalc(w, c) ==
  IF w.client[c].fd < 0 \/ w.client[c].status # "client" THEN {w}
  ELSE {w} \cup
       {IF v.client[c].dead THEN v
        ELSE [v EXCEPT !.fds = SetFlush(@, v.client[c].fd, <<"flood_recalc", c>>)]
          : v \in parse_client_queued(w, c)}

release_auth_client(w, c) ==
  LET flushed == [w EXCEPT !.fds = SetFlush(@, w.client[c].fd, <<"flood_recalc", c>>)]
  IN ReadPacket(add_client_to_list(flushed, c), c)

-----------------------------------------------------------------------------
(* Ident and DNS lookups.                                                   *)

(* The ending shared by the DNS and ident callbacks: the second of the two  *)
(* lookups to finish releases the client.                                   *)
FinishAuth(w, a) ==
  LET c == w.request[a].client
  IN IF w.request[a].dns \/ w.request[a].ident # "no" THEN {w}
     ELSE release_auth_client(free_auth_request(unlink_auth_request(w, a), a), c)

(* auth_error, and the end of read_auth_reply: the ident lookup is over.    *)
IdentDone(w, a) == FinishAuth([CloseIdent(w, a) EXCEPT !.request[a].ident = "no"], a)

read_auth_reply(w, a) ==
  {[w EXCEPT !.fds = SetRead(@, w.request[a].fd, <<"read_auth_reply", a>>)]}
  \cup IdentDone(w, a)

auth_connect_callback(w, a, ok) ==
  IF ~ok THEN IdentDone(w, a)
  ELSE IdentDone(w, a) \cup read_auth_reply([w EXCEPT !.request[a].ident = "pending"], a)

(* The link came up: the hook may have found the socket dead, or the        *)
(* connect{} block may be gone, which both exit the client.                 *)
serv_connect_callback(w, c, ok) ==
  {exit_client(w, c)}
  \cup (IF ok THEN {Rearm([w EXCEPT !.client[c].status = "handshake"], c)} ELSE {})

comm_connect_callback(w, f, ok) ==
  LET h == w.fds.tab[f].connect
      called == [w EXCEPT !.fds = SetTimer(SetConnect(@, f, NULL), f, FALSE)]
  IN IF h = NULL THEN {w}
     ELSE IF h[1] = "auth_connect_callback" THEN auth_connect_callback(called, h[2], ok)
     ELSE serv_connect_callback(called, h[2], ok)

(* connect() is still in progress, or it succeeded, or it failed.           *)
comm_connect_tryconnect(w, f) ==
  {[w EXCEPT !.fds = SetWrite(@, f, <<"comm_connect_tryconnect", NULL>>)]}
  \cup comm_connect_callback(w, f, TRUE) \cup comm_connect_callback(w, f, FALSE)

(* bind() may fail at once; a host name goes to the resolver first.         *)
comm_connect_tcp(w, f, h, byname) ==
  LET set == [w EXCEPT !.fds = SetConnect(@, f, h)]
  IN comm_connect_callback(set, f, FALSE)
     \cup (IF byname
           THEN {[set EXCEPT !.queries = @ \cup {[callback |-> "comm_connect_dns_callback",
                                                  ptr |-> f, owner |-> NULL]}]}
           ELSE comm_connect_tryconnect([set EXCEPT !.fds = SetTimer(@, f, TRUE)], f))

\* Mutant: the descriptor above the limit is not closed.
start_auth_queryLeak(w, a) ==
  LET f == CommOpen(w.fds)
      opened == [w EXCEPT !.fds = fd_open(@, f), !.request[a].fd = f,
                          !.request[a].ident = "connecting"]
  IN {w} \cup (IF f = -1 THEN {}
               ELSE IF MaxConnections - ReservedFds < f THEN {[w EXCEPT !.fds = fd_open(@, f)]}
               ELSE comm_connect_tcp(opened, f, <<"auth_connect_callback", a>>, FALSE))

(* No descriptor, or none below the reserve, or an error: no ident lookup.  *)
start_auth_query(w, a) ==
  LET f == CommOpen(w.fds)
      opened == [w EXCEPT !.fds = fd_open(@, f), !.request[a].fd = f,
                          !.request[a].ident = "connecting"]
  IN {w} \cup (IF f = -1 \/ MaxConnections - ReservedFds < f THEN {}
               ELSE comm_connect_tcp(opened, f, <<"auth_connect_callback", a>>, FALSE))

\* Mutant: SetDNSPending after the ident lookup was started.
start_authLateDns(w, c, a) ==
  LET made == [w EXCEPT !.request[a] = [FreeRequest EXCEPT !.client = c]]
      asked == [made EXCEPT !.client[c].dns = "pending",
                            !.queries = @ \cup {[callback |-> "auth_dns_callback",
                                                 ptr |-> a, owner |-> c]}]
  IN {[v EXCEPT !.request[a].dns = TRUE, !.polled = @ \cup {a}]
        : v \in start_auth_query(asked, a)}

\* Mutant: the request is not linked into auth_poll_list.
start_authUnlinked(w, c, a) ==
  LET made == [w EXCEPT !.request[a] = [FreeRequest EXCEPT !.client = c]]
      asked == [made EXCEPT !.client[c].dns = "pending",
                            !.queries = @ \cup {[callback |-> "auth_dns_callback",
                                                 ptr |-> a, owner |-> c]},
                            !.request[a].dns = TRUE]
  IN start_auth_query(asked, a)

start_auth(w, c, a) ==
  LET made == [w EXCEPT !.request[a] = [FreeRequest EXCEPT !.client = c]]
      asked == [made EXCEPT !.client[c].dns = "pending",
                            !.queries = @ \cup {[callback |-> "auth_dns_callback",
                                                 ptr |-> a, owner |-> c]},
                            !.request[a].dns = TRUE]
  IN {[v EXCEPT !.polled = @ \cup {a}] : v \in start_auth_query(asked, a)}

start_lookup(w, c) ==
  {[w EXCEPT !.client[c].dns = "pending",
             !.queries = @ \cup {[callback |-> "lookup_dns_callback", ptr |-> c, owner |-> c]}]}

auth_dns_callback(w, a) ==
  FinishAuth([w EXCEPT !.request[a].dns = FALSE, !.client[w.request[a].client].dns = "null"], a)

lookup_dns_callback(w, c) ==
  release_auth_client([w EXCEPT !.client[c].dns = "null"], c)

(* An answer goes on to connect(); its assertion that a callback is set     *)
(* stops the server otherwise.                                              *)
comm_connect_dns_callback(w, f) ==
  comm_connect_callback(w, f, FALSE)
  \cup (IF w.fds.tab[f].connect = NULL THEN {}
        ELSE comm_connect_tryconnect([w EXCEPT !.fds = SetTimer(@, f, TRUE)], f))

-----------------------------------------------------------------------------
(* Actions: what the I/O loop, the resolver and the event table call.       *)

(* comm_select clears a registration and then calls it.                     *)
FiredRead(f) == [World EXCEPT !.fds = SetRead(@, f, NULL)]
FiredWrite(f) == [World EXCEPT !.fds = SetWrite(@, f, NULL)]

\* add_listener, for one listener.  A rehash opens them one after another in a single
\* call; here other handlers may run in between, which are more behaviours.
AddListener(l) ==
  LET f == CommOpen(fds)
  IN /\ \A m \in Listeners : listener[m].fd = -1
     /\ f # -1
     /\ \E k \in IF listener[l].kind = NULL THEN Kinds ELSE {listener[l].kind} :
          Become([World EXCEPT
            !.fds = SetRead(fd_open(@, f), f, <<"accept_connection", l>>),
            !.listener[l] = [kind |-> k, fd |-> f, active |-> TRUE, refs |-> @.refs]])

\* Mutant: without the test of ref_count.
close_listenerForce(m) == FreeListener

\* The listener is freed now, or by the exit of its last connection.
close_listener(m) ==
  IF m.refs = 0 THEN FreeListener ELSE [m EXCEPT !.fd = -1, !.active = FALSE]

CloseListeners ==
  LET set == {l \in Listeners : listener[l].kind # NULL}
  IN /\ set # {}
     /\ Become([World EXCEPT
          !.fds = CloseAll(@, {f \in {listener[l].fd : l \in set} : f >= 0}),
          !.listener = [l \in Listeners |-> IF l \in set THEN close_listener(@[l]) ELSE @[l]]])

(* An SSL connection that fails at once discards the client.                *)
add_connection(w, l, c, f) ==
  LET known == [make_client(w, c) EXCEPT
                  !.client[c].fd = f, !.client[c].listener = l, !.listener[l].refs = @ + 1]
  IN {[known EXCEPT !.fds = SetWrite(@, f, <<"comm_tryall_callback", c>>)]}
     \cup (IF w.listener[l].kind = "ssl" THEN {discard_client(known, c)} ELSE {})

(* accept_connection, with a connection it does not refuse.                 *)
AcceptConnection(l, c) ==
  LET f == CommOpen(fds)
  IN /\ listener[l].fd # -1 /\ fds.tab[listener[l].fd].read = <<"accept_connection", l>>
     /\ client[c].status = "free" /\ count < MaxUnknown
     /\ f # -1 /\ f <= MaxConnections - ReservedFds
     /\ Run(add_connection([World EXCEPT !.fds = fd_open(@, f)], l, c, f))

(* comm_tryall_callback; an SSL client may fail its handshake here, too.    *)
TryAll(c) ==
  LET f == client[c].fd
      l == client[c].listener
  IN /\ f # -1 /\ fds.tab[f].write = <<"comm_tryall_callback", c>>
     /\ \/ /\ listener[l].kind \in {"client", "ssl"}
           /\ \E a \in Requests : /\ request[a] = FreeRequest
                                  /\ Run(start_auth(FiredWrite(f), c, a))
        \/ listener[l].kind = "server" /\ Run(start_lookup(FiredWrite(f), c))
        \/ listener[l].kind = "ssl" /\ Run({exit_client(FiredWrite(f), c)})

(* try_connections or CONNECT: serv_connect, which discards the client when *)
(* no connect{} block fits.                                                 *)
ServConnect(c) ==
  LET f == CommOpen(fds)
      made == make_client([World EXCEPT !.fds = fd_open(@, f)], c)
      owner == [made EXCEPT !.client[c].fd = f]
      ready == add_client_to_list([owner EXCEPT !.client[c].status = "connecting"], c)
  IN /\ client[c].status = "free" /\ count < MaxUnknown /\ f # -1
     /\ \/ Become(discard_client(owner, c))
        \/ Run(comm_connect_tcp(ready, f, <<"serv_connect_callback", c>>, ByName))

(* adns has an answer, or gives up: the query is gone before the callback.  *)
DnsAnswer(q) ==
  LET w == [World EXCEPT !.queries = @ \ {q}]
  IN Run(CASE q.callback = "auth_dns_callback" -> auth_dns_callback(w, q.ptr)
           [] q.callback = "lookup_dns_callback" -> lookup_dns_callback(w, q.ptr)
           [] OTHER -> comm_connect_dns_callback(w, q.ptr))

WriteConnect(f) ==
  /\ fds.tab[f].write = <<"comm_connect_tryconnect", NULL>>
  /\ Run(comm_connect_tryconnect(FiredWrite(f), f))

ReadIdent(a) ==
  LET f == request[a].fd
  IN /\ f # -1 /\ fds.tab[f].read = <<"read_auth_reply", a>>
     /\ Run(read_auth_reply(FiredRead(f), a))

(* comm_checktimeouts, its two halves.                                      *)
CheckTimeout(f) ==
  /\ fds.tab[f].timer
  /\ Run(comm_connect_callback([World EXCEPT !.fds = SetTimer(@, f, FALSE)], f, FALSE))

CheckFlush(f) ==
  /\ fds.tab[f].flush # NULL
  /\ Run(flood_recalc([World EXCEPT !.fds = SetFlush(@, f, NULL)], fds.tab[f].flush[2]))

(* timeout_auth_queries_event for one request that has expired.             *)
TimeoutAuth(a) ==
  LET w == CloseIdent(World, a)
      c == request[a].client
      cut == IF request[a].dns
             THEN [delete_adns_queries(w, c) EXCEPT !.client[c].dns = "idle"] ELSE w
  IN /\ a \in polled
     /\ Run(release_auth_client(free_auth_request(unlink_auth_request(cut, a), a), c))

ReadClient(c) ==
  LET f == client[c].fd
  IN /\ f # -1
     /\ fds.tab[f].read \in {<<"read_client_packet", c>>, <<"read_server_packet", c>>}
     /\ Run(ReadPacket(FiredRead(f), c))

(* A write to a released client failed (dead_link_on_write).                *)
DeadLink(c) ==
  /\ client[c].status \in {"client", "server", "handshake"} /\ ~client[c].dead
  /\ Become([World EXCEPT !.client[c].dead = TRUE])

(* check_pings: the unknown_list, and the lists of the registered.          *)
\* Mutant: only accepted connections are timed out.
CheckUnknownsOften(c) ==
  c \in unknown /\ c \notin ToSet(clients) /\ Run({exit_client(World, c)})
CheckUnknowns(c) == c \in unknown /\ Run({exit_client(World, c)})
\* Mutant: check_pings_list without its first test, of dead sockets.
CheckPingsAlive(c) ==
  client[c].status \in {"client", "server"} /\ ~client[c].dead /\ Run({exit_client(World, c)})
CheckPings(c) == client[c].status \in {"client", "server"} /\ Run({exit_client(World, c)})

RemoveExited == exited # {} /\ Run({remove_exited_clients(World)})

Next ==
  \/ \E l \in Listeners : AddListener(l)
  \/ CloseListeners
  \/ \E l \in Listeners, c \in Clients : AcceptConnection(l, c)
  \/ \E c \in Clients : TryAll(c) \/ ServConnect(c) \/ ReadClient(c) \/ DeadLink(c)
                        \/ CheckUnknowns(c) \/ CheckPings(c)
  \/ \E q \in queries : DnsAnswer(q)
  \/ \E a \in Requests : ReadIdent(a) \/ TimeoutAuth(a)
  \/ \E f \in Fds : WriteConnect(f) \/ CheckTimeout(f) \/ CheckFlush(f)
  \/ RemoveExited

Spec == Init /\ [][Next]_vars

(* The event table runs timeout_auth_queries_event every second, check_pings *)
(* every ten and remove_exited_clients every thirty, and the clock passes   *)
(* every deadline: a request that stays on auth_poll_list expires, a client *)
(* that stays on unknown_list or dead is exited, and exit_list is emptied.  *)
(* The fairness of TimeoutAuth is WF with its enabling condition written    *)
(* out.                                                                     *)
FairSpec ==
  /\ Spec
  /\ \A a \in Requests : []<>(a \notin polled) \/ []<><<TimeoutAuth(a)>>_vars
  /\ \A c \in Clients : /\ WF_vars(CheckUnknowns(c))
                        /\ WF_vars(client[c].dead /\ CheckPings(c))
  /\ WF_vars(RemoveExited)

-----------------------------------------------------------------------------
(* Properties.                                                              *)

(* Every registration in fd_table names an object that owns the descriptor  *)
(* it is registered on: no handler can run on a block that was freed, or    *)
(* given to another connection, since it was set.  A descriptor waiting to  *)
(* connect() has its callback set, which comm_connect_tryconnect asserts.   *)
HandlerOwns(f, h) ==
  CASE h[1] = "comm_connect_tryconnect" -> fds.tab[f].connect # NULL
    [] h[1] = "accept_connection" -> listener[h[2]].fd = f
    [] h[1] = "auth_connect_callback" -> request[h[2]].fd = f /\ request[h[2]].ident = "connecting"
    [] h[1] = "read_auth_reply" -> request[h[2]].fd = f /\ request[h[2]].ident = "pending"
    [] OTHER -> client[h[2]].fd = f

CallbacksLive ==
  \A f \in Fds :
    LET e == fds.tab[f]
    IN /\ \A h \in {e.read, e.write, e.connect, e.flush} \ {NULL} : e.open /\ HandlerOwns(f, h)
       /\ e.timer => e.connect # NULL

(* Every open descriptor has exactly one owner and every owner's descriptor *)
(* is open (nothing is closed twice, nothing leaks on an error path), and   *)
(* number_fd and highest_fd say what fd_table holds.                        *)
Owners(f) ==
  {c \in Clients : client[c].fd = f} \cup {a \in Requests : request[a].fd = f}
  \cup {l \in Listeners : listener[l].fd = f}

DescriptorsOwned ==
  /\ \A f \in Fds : Cardinality(Owners(f)) = IF fds.tab[f].open THEN 1 ELSE 0
  /\ fds.number = Cardinality(OpenFds(fds))
  /\ fds.highest = IF OpenFds(fds) = {} THEN -1 ELSE Max(OpenFds(fds))

(* A query adns still works on for a client belongs to a client that still  *)
(* waits for it, and its callback argument is live: exits and timeouts      *)
(* cancel exactly the queries that are in flight.                           *)
QueriesLive ==
  /\ \A q \in queries :
       /\ q.callback = "auth_dns_callback" =>
            request[q.ptr].client = q.owner /\ request[q.ptr].dns
       /\ q.callback = "lookup_dns_callback" => q.ptr = q.owner
       /\ q.owner # NULL => client[q.owner].status = "unknown"
  /\ \A c \in Clients : Cardinality({q \in queries : q.owner = c})
                       = IF client[c].dns = "pending" /\ c \notin exited THEN 1 ELSE 0

(* A request is on auth_poll_list for as long as it exists, where the       *)
(* timeout event and the exit of its client find it; it has a lookup left   *)
(* to wait for; and its client, which has no other request, is not yet      *)
(* released.                                                                *)
RequestsPolled ==
  /\ polled = {a \in Requests : request[a].client # NULL}
  /\ \A a \in polled :
       /\ request[a].dns \/ request[a].ident # "no"
       /\ client[request[a].client].status = "unknown"
       /\ request[a].client \notin ToSet(clients)
       /\ \A b \in polled \ {a} : request[b].client # request[a].client

(* GlobalClientList holds no freed block and no block twice, a released     *)
(* connection leaves it only when it is reaped, and unknown_list holds the  *)
(* clients that neither registered nor exited.                              *)
ClientListSound ==
  /\ IsInjective(clients)
  /\ \A c \in ToSet(clients) : client[c].status # "free"
  /\ \A c \in Clients :
       /\ client[c].status \in {"client", "server", "connecting", "handshake"} => c \in ToSet(clients)
       /\ c \in unknown <=> client[c].status \in {"unknown", "connecting", "handshake"}

(* A connection that is not dead has something armed that will look at it   *)
(* again: a read, a write, a lookup or a connect.                           *)
NobodyStranded ==
  \A c \in Clients :
    client[c].status \in {"unknown", "connecting", "handshake", "client", "server"}
      /\ ~client[c].dead =>
      LET e == fds.tab[client[c].fd]
      IN \/ e.read # NULL \/ e.write # NULL
         \/ \E a \in polled : request[a].client = c
         \/ \E q \in queries : q.owner = c \/ q.ptr = client[c].fd

(* A listener is not freed while a connection points to it, however the     *)
(* configuration changes in between.                                        *)
References(l) == {c \in Clients : client[c].listener = l}

ListenersOutliveClients ==
  \A l \in Listeners : /\ listener[l].refs >= Cardinality(References(l))
                       /\ References(l) # {} => listener[l].kind # NULL
                       /\ listener[l].active <=> listener[l].fd # -1

(* Every lookup ends: by its answers, by the timeout, or with its client.   *)
LookupsEnd == \A a \in Requests : request[a].client # NULL ~> request[a].client = NULL

(* A connection does not stay unregistered: it registers or it is exited,   *)
(* whether it was accepted or opened by this server.                        *)
UnknownsLeave == \A c \in Clients : c \in unknown ~> c \notin unknown

(* A connection whose socket died is exited and its block freed, also when  *)
(* the death was noticed while its own data were parsed, which leaves no    *)
(* registration on its descriptor.                                          *)
DeadReaped == \A c \in Clients : client[c].dead ~> client[c].status = "free"
=============================================================================
