--------------------------- MODULE ConnectionProofs ---------------------------
(***************************************************************************)
(* Connection keeps its invariants, for every number of clients, requests, *)
(* listeners and descriptors.  One lemma per handler says that it leaves a *)
(* world that is Sound(v, {}) (see ConnectionSound); the actions run one   *)
(* handler each.                                                           *)
(***************************************************************************)
EXTENDS ConnectionSound

-----------------------------------------------------------------------------
(* The resolver answers, or gives up.                                      *)

(* A world without the query q is otherwise the same.                      *)
LEMMA QueryTaken ==
  ASSUME NEW w, IsWorld(w), NEW Q
  PROVE  LET v == [w EXCEPT !.queries = Q]
         IN /\ IsWorld(v) /\ v.fds = w.fds /\ v.client = w.client
            /\ v.unknown = w.unknown /\ v.count = w.count
            /\ v.clients = w.clients /\ v.exited = w.exited /\ v.request = w.request
            /\ v.polled = w.polled /\ v.queries = Q /\ v.listener = w.listener
BY DEF IsWorld

(* The query of an outgoing connection is answered: only a client that     *)
(* still connects on its descriptor may have waited for it.                *)
LEMMA ConnectQueryGone ==
  ASSUME NEW w, NEW X \in SUBSET Objects, Sound(w, X), NEW q \in w.queries,
         q.callback = "comm_connect_dns_callback", NEW f \in Fds, q.ptr = f,
         \A d \in Clients \ X : w.client[d].status = "connecting" => w.client[d].fd # f
  PROVE  Sound([w EXCEPT !.queries = w.queries \ {q}], X)
<1> DEFINE v == [w EXCEPT !.queries = w.queries \ {q}]
<1>0. Typed(w) /\ IsWorld(w)
  BY SoundParts DEF Typed
<1>1. /\ IsWorld(v) /\ v.fds = w.fds /\ v.client = w.client
      /\ v.unknown = w.unknown /\ v.count = w.count
      /\ v.clients = w.clients /\ v.exited = w.exited /\ v.request = w.request
      /\ v.polled = w.polled /\ v.queries = w.queries \ {q} /\ v.listener = w.listener
  BY <1>0, QueryTaken
<1> HIDE DEF v
<1>2. Typed(v)
  BY <1>0, <1>1 DEF Typed
<1>3. /\ FdSound(w.fds, FdOf(w)) /\ QueriesSound(w) /\ IsInjective(w.clients)
      /\ \A g \in Fds : EntrySound(w, g, w.fds.tab[g])
      /\ \A a \in Requests : RequestSound(w, X, a)
      /\ \A d \in Clients : ClientSound(w, X, d)
      /\ \A d \in Clients \ X : Armed(w, d)
      /\ \A l \in Listeners : ListenerSound(w, l)
      /\ \A g \in Fds : w.fds.tab[g].write = TryConnect /\ w.fds.tab[g].connect = NULL =>
           Excused(w, X, g)
  BY SoundParts
<1>4. q.owner = NULL
  BY <1>3 DEF QueriesSound, QuerySound
<1>5. FdOf(v) = FdOf(w)
  BY <1>1 DEF FdOf
<1>6. EntriesSound(v, X)
  <2>1. \A g \in Fds : EntrySound(v, g, v.fds.tab[g])
    <3> TAKE g \in Fds
    <3>1. EntrySound(w, g, w.fds.tab[g]) /\ v.fds.tab[g] = w.fds.tab[g]
      BY <1>1, <1>3
    <3>2. \A d \in Clients : w.client[d].fd = g =>
              /\ v.client[d].fd = g /\ (Released(v, d) <=> Released(w, d))
              /\ \/ v.client[d].status = w.client[d].status
                 \/ /\ Released(w, d)
                    /\ w.client[d].status # "connecting" /\ v.client[d].status # "connecting"
      BY <1>1 DEF Released
    <3>3. \A a \in Requests : w.request[a].fd = g =>
              v.request[a].fd = g /\ v.request[a].ident = w.request[a].ident
      BY <1>1
    <3>4. \A l \in Listeners : w.listener[l].fd = g => v.listener[l].fd = g
      BY <1>1
    <3> QED BY <3>1, <3>2, <3>3, <3>4, EntryKept, Zenon
  <2>2. \A g \in Fds : Excused(v, X, g) <=> Excused(w, X, g)
    BY <1>1, <1>5 DEF Excused
  <2> QED BY <1>1, <1>3, <2>1, <2>2 DEF EntriesSound
<1>7. RequestsSound(v, X)
  <2>1. \A d \in Clients : (Released(v, d) <=> Released(w, d)) /\ (TryAllSet(v, d) <=> TryAllSet(w, d))
    BY <1>1 DEF Released, TryAllSet
  <2>2. \A a \in Requests : w.request[a].client \in Clients \cup {NULL}
    BY <1>0 DEF Typed, RequestBlocks
  <2>3. ASSUME NEW a \in Requests PROVE RequestSound(v, X, a)
    BY <1>1, <1>3, <2>1, <2>2 DEF RequestSound
  <2> QED BY <2>3 DEF RequestsSound
<1>8. \A d \in Clients : Queried(v, d) <=> Queried(w, d)
  BY <1>1, <1>4, Distinct DEF Queried
<1>9. QueriesSound(v)
  <2>a. \A d \in Clients : /\ Released(v, d) <=> Released(w, d)
                           /\ Asked(v, d) <=> Asked(w, d)
                           /\ TryAllSet(v, d) <=> TryAllSet(w, d)
    BY <1>1 DEF Released, Asked, TryAllSet
  <2>1. ASSUME NEW r \in v.queries PROVE QuerySound(v, r)
    <3>1. r \in w.queries /\ QuerySound(w, r)
      BY <1>1, <1>3 DEF QueriesSound
    <3> QED BY <1>1, <2>a, <3>1 DEF QuerySound
  <2>2. \A r, s \in v.queries : r.owner = s.owner /\ r.owner # NULL => r = s
    BY <1>1, <1>3 DEF QueriesSound
  <2> QED BY <1>1, <1>3, <1>8, <2>1, <2>2 DEF QueriesSound
<1>10. ClientsSound(v, X)
  BY <1>1, <1>3 DEF ClientsSound, ClientSound, Released
<1>11. AllArmed(v, X)
  <2> SUFFICES ASSUME NEW d \in Clients \ X PROVE Armed(v, d)
    BY DEF AllArmed
  <2>1. \A g \in Fds : g # f /\ DnsQuery(g) \in w.queries => DnsQuery(g) \in v.queries
    BY <1>1 DEF DnsQuery
  <2>2. w.client[d].status = "connecting" => w.client[d].fd \in Fds
    BY <1>0, <1>3 DEF ClientSound, Live, Typed, ClientBlocks
  <2> QED BY <1>1, <1>3, <1>8, <2>1, <2>2 DEF Armed, Released, TryAllSet, Asked
<1>12. ListenersSound(v)
  BY <1>1, <1>3 DEF ListenersSound, ListenerSound, ReferencesOf
<1>13. Sound(v, X)
  BY <1>1, <1>2, <1>3, <1>5, <1>6, <1>7, <1>9, <1>10, <1>11, <1>12 DEF Sound
<1> QED BY <1>13 DEF v

(* comm_connect_dns_callback.                                              *)
LEMMA ConnectAnswerSound ==
  ASSUME NEW w, Sound(w, {}), NEW q \in w.queries, q.callback = "comm_connect_dns_callback",
         NEW v \in comm_connect_dns_callback([w EXCEPT !.queries = w.queries \ {q}], q.ptr)
  PROVE  Sound(v, {})
<1> DEFINE u == [w EXCEPT !.queries = w.queries \ {q}]
           f == q.ptr
<1>0. /\ Typed(w) /\ IsWorld(w) /\ QueriesSound(w)
      /\ \A d \in Clients : ClientSound(w, {}, d)
  BY SoundParts DEF Typed
<1>1. f \in Fds /\ ByName
  BY <1>0 DEF QueriesSound, QuerySound
<1>2. u.fds = w.fds /\ u.client = w.client /\ u.request = w.request
  BY <1>0, QueryTaken
<1>3. v \in comm_connect_dns_callback(u, f)
  OBVIOUS
<1>4. {} \in SUBSET Objects
  OBVIOUS
<1> HIDE DEF f
<1>5. CASE w.fds.tab[f].connect = NULL
  <2>1. \A d \in Clients \ {} : w.client[d].status = "connecting" => w.client[d].fd # f
    <3> TAKE d \in Clients \ {}
    <3> HAVE w.client[d].status = "connecting"
    <3>1. w.fds.tab[w.client[d].fd].connect = <<"serv_connect_callback", d>>
      BY <1>0 DEF ClientSound
    <3>2. <<"serv_connect_callback", d>> # NULL
      BY Distinct DEF Callbacks, Objects
    <3> QED BY <1>5, <3>1, <3>2
  <2>2. Sound(u, {})
    BY <1>1, <1>4, <2>1, ConnectQueryGone DEF f
  <2> HIDE DEF u
  <2>3. v = u
    BY <1>2, <1>3, <1>5 DEF comm_connect_dns_callback, comm_connect_callback
  <2> QED BY <2>2, <2>3
<1>6. CASE w.fds.tab[f].connect # NULL
  <2>1. PICK x : Dialler(w, x, f)
    BY <1>1, <1>6, HasDialler
  <2>2. {x} \in SUBSET Objects /\ \A d \in Clients : w.client[d].fd = f => d = x
    BY <1>1, <2>1, DiallerOwns
  <2>3. Sound(w, {x})
    BY Weaken
  <2>4. \A d \in Clients \ {x} : w.client[d].status = "connecting" => w.client[d].fd # f
    BY <2>2
  <2>5. Sound(u, {x})
    BY <1>1, <2>2, <2>3, <2>4, ConnectQueryGone DEF f
  <2> HIDE DEF u
  <2>6. Dialler(u, x, f) /\ u.fds.tab[f].connect # NULL
    BY <1>2, <1>6, <2>1 DEF Dialler
  <2> DEFINE t == [u EXCEPT !.fds = SetTimer(u.fds, f, TRUE)]
  <2>7. v \in comm_connect_callback(u, f, FALSE) \/ v \in comm_connect_tryconnect(t, f)
    BY <1>3, <2>6 DEF comm_connect_dns_callback
  <2>8. CASE v \in comm_connect_callback(u, f, FALSE)
    BY <1>1, <2>5, <2>6, <2>8, ConnectCallbackSound
  <2>9. CASE v \in comm_connect_tryconnect(t, f)
    <3>1. Sound(t, {x}) /\ Dialler(t, x, f) /\ t.fds.tab[f].connect # NULL
      BY <1>1, <2>5, <2>6, TimerSound
    <3> HIDE DEF t
    <3> QED BY <1>1, <2>9, <3>1, TryConnectSound
  <2> QED BY <2>7, <2>8, <2>9
<1> QED BY <1>5, <1>6

(* u is w with the answer of q noted in its request and in its client.     *)
Noted(w, u, q) ==
  /\ IsWorld(u) /\ u.fds = w.fds /\ u.unknown = w.unknown /\ u.count = w.count
  /\ u.clients = w.clients /\ u.exited = w.exited /\ u.polled = w.polled
  /\ u.queries = w.queries \ {q} /\ u.listener = w.listener
  /\ u.client = [w.client EXCEPT ![q.owner].dns = "null"]
  /\ u.request = [w.request EXCEPT ![q.ptr].dns = FALSE]

NoDns(R, E, a) ==
  /\ E \in [Requests -> RequestBlocks]
  /\ E[a].client = R[a].client /\ E[a].fd = R[a].fd /\ E[a].ident = R[a].ident
  /\ \A b \in Requests : b # a => E[b] = R[b]

(* The answer of the resolver changes nothing else of a request.           *)
LEMMA RequestNoDns ==
  ASSUME NEW R \in [Requests -> RequestBlocks], NEW a \in Requests
  PROVE  NoDns(R, [R EXCEPT ![a].dns = FALSE], a)
BY DEF RequestBlocks, NoDns

(* A request whose query was answered is sound, if it still waits for the  *)
(* ident user, or excused.                                                 *)
LEMMA AuthAnswered ==
  ASSUME NEW w, Sound(w, {}), NEW q \in w.queries, q.callback = "auth_dns_callback",
         NEW a, a = q.ptr, NEW u, Noted(w, u, q),
         NEW Y \in SUBSET {a}, a \notin Y => w.request[a].ident # "no"
  PROVE  Sound(u, Y) /\ a \in Requests /\ u.request[a].client # NULL
         /\ u.request[a].ident = w.request[a].ident
<1> DEFINE c == q.owner
<1>n. /\ IsWorld(u) /\ u.fds = w.fds /\ u.unknown = w.unknown /\ u.count = w.count
      /\ u.clients = w.clients /\ u.exited = w.exited /\ u.polled = w.polled
      /\ u.queries = w.queries \ {q} /\ u.listener = w.listener
      /\ u.client = [w.client EXCEPT ![c].dns = "null"]
      /\ u.request = [w.request EXCEPT ![a].dns = FALSE]
  BY DEF Noted
<1> USE <1>n
<1>0. /\ Typed(w) /\ FdSound(w.fds, FdOf(w)) /\ QueriesSound(w) /\ IsInjective(w.clients)
      /\ w.client \in [Clients -> ClientBlocks] /\ w.request \in [Requests -> RequestBlocks]
      /\ w.queries \in SUBSET QueryBlocks
      /\ \A d \in Clients : ClientSound(w, {}, d)
      /\ \A b \in Requests : RequestSound(w, {}, b)
  BY SoundParts
<1>1. a \in Requests /\ c \in Clients /\ w.request[a].client = c /\ c # NULL
  BY <1>0, Distinct DEF QueriesSound, QuerySound
<1>2. {} \in SUBSET Objects /\ Y \in SUBSET Objects /\ {c} \in SUBSET Clients
      /\ {a} \in SUBSET Requests /\ {} \in SUBSET Listeners /\ {} \in SUBSET Fds
  BY <1>1 DEF Objects
<1>3. Waiting(w, c, {a}) /\ w.client[c].status \in Live /\ ~w.client[c].dead /\ c \notin w.exited
      /\ a \in w.polled
  BY <1>1, <1>2, RequestOf
<1>4. /\ u.client \in [Clients -> ClientBlocks] /\ u.client[c].dns = "null"
      /\ u.client[c].status = w.client[c].status /\ u.client[c].fd = w.client[c].fd
      /\ u.client[c].listener = w.client[c].listener
      /\ \A d \in Clients : d # c => u.client[d] = w.client[d]
  BY <1>0, <1>1 DEF ClientBlocks
<1>5. u.client[c].dead = w.client[c].dead
  BY <1>0, <1>1 DEF ClientBlocks
<1>6. /\ u.request \in [Requests -> RequestBlocks]
      /\ u.request[a].client = c /\ u.request[a].fd = w.request[a].fd
      /\ u.request[a].ident = w.request[a].ident
      /\ \A b \in Requests : b # a => u.request[b] = w.request[b]
  <2> HIDE <1>n
  <2>1. u.request = [w.request EXCEPT ![a].dns = FALSE]
    BY <1>n
  <2>2. /\ u.request \in [Requests -> RequestBlocks]
        /\ u.request[a].client = w.request[a].client /\ u.request[a].fd = w.request[a].fd
        /\ u.request[a].ident = w.request[a].ident
        /\ \A b \in Requests : b # a => u.request[b] = w.request[b]
    <3>1. w.request \in [Requests -> RequestBlocks] /\ a \in Requests
      BY <1>0, <1>1
    <3>2. NoDns(w.request, [w.request EXCEPT ![a].dns = FALSE], a)
      BY <3>1, RequestNoDns
    <3> QED BY <2>1, <3>2 DEF NoDns
  <2> QED BY <1>1, <2>2
<1>7. Typed(u)
  BY <1>0, <1>4, <1>6 DEF Typed
<1>8. FdOf(u) = FdOf(w)
  <2>1. \A d \in Clients : u.client[d].fd = w.client[d].fd
    BY <1>4
  <2>2. \A b \in Requests : u.request[b].fd = w.request[b].fd
    BY <1>6
  <2> QED BY <2>1, <2>2 DEF FdOf
<1>9. \A d \in Clients : Released(u, d) <=> Released(w, d)
  BY DEF Released
<1>10. \A d \in Clients : TryAllSet(u, d) <=> TryAllSet(w, d)
  BY <1>4 DEF TryAllSet
<1>11. \A r \in u.queries : r \in w.queries /\ r.owner # c
  <2> TAKE r \in u.queries
  <2>1. r \in w.queries /\ r # q
    OBVIOUS
  <2>2. \A s, t \in w.queries : s.owner = t.owner /\ s.owner # NULL => s = t
    BY <1>0 DEF QueriesSound
  <2> QED BY <1>1, <2>1, <2>2
<1>12. Frame(w, u, {c}, {a}, {}, {})
  <2>1. \A d \in Clients \ {c} :
       /\ u.client[d] = w.client[d] /\ (Released(u, d) <=> Released(w, d))
       /\ (d \in u.unknown <=> d \in w.unknown) /\ (d \in u.exited <=> d \in w.exited)
    BY <1>4, <1>9
  <2>2. \A b \in Requests \ {a} :
       /\ u.request[b] = w.request[b] /\ (b \in u.polled <=> b \in w.polled)
       /\ w.request[b].client \notin {c}
    BY <1>3, <1>6 DEF Waiting
  <2>3. \A r : r.owner \in Clients \ {c} => (r \in u.queries <=> r \in w.queries)
    OBVIOUS
  <2>4. \A g \in Fds : DnsQuery(g) \in w.queries => DnsQuery(g) \in u.queries
    BY DEF DnsQuery
  <2>5. /\ u.client[c].fd = w.client[c].fd /\ u.client[c].status = w.client[c].status
        /\ (Released(u, c) <=> Released(w, c))
    BY <1>1, <1>4, <1>9
  <2>6. /\ w.request[a].client \in {c} \cup {NULL} /\ u.request[a].client \in {c} \cup {NULL}
        /\ u.request[a].fd = w.request[a].fd /\ u.request[a].ident = w.request[a].ident
    BY <1>1, <1>6
  <2>7. \A l \in Listeners : u.listener[l] = w.listener[l]
         /\ (u.client[c].listener = l <=> w.client[c].listener = l)
    BY <1>4
  <2>8. \A d \in {c} : \/ w.client[d].fd \in {} \cup {-1}
                       \/ /\ u.client[d].fd = w.client[d].fd /\ u.client[d].status = w.client[d].status
                          /\ Released(u, d) <=> Released(w, d)
    BY <2>5
  <2>9. \A b \in {a} : /\ w.request[b].client \in {c} \cup {NULL} /\ u.request[b].client \in {c} \cup {NULL}
                       /\ \/ w.request[b].fd \in {} \cup {-1}
                          \/ /\ u.request[b].fd = w.request[b].fd
                             /\ u.request[b].ident = w.request[b].ident
    BY <2>6
  <2>10. \A l \in Listeners \ {} :
           /\ u.listener[l] = w.listener[l] /\ w.listener[l].fd \notin {}
           /\ \A d \in {c} : u.client[d].listener = l <=> w.client[d].listener = l
    BY <2>7
  <2>11. \A g \in Fds \ {} : /\ u.fds.tab[g] = w.fds.tab[g]
                             /\ DnsQuery(g) \in w.queries => DnsQuery(g) \in u.queries
    BY <2>4
  <2> QED BY <2>1, <2>2, <2>3, <2>8, <2>9, <2>10, <2>11, Zenon DEF Frame
<1>13. RequestSound(u, Y, a)
  <2>1. RequestSound(w, {}, a)
    BY <1>0, <1>1
  <2>2. u.client[c].status = "unknown" /\ ~Released(u, c) /\ ~TryAllSet(u, c)
    BY <1>1, <1>3, <1>4, <1>9, <1>10 DEF Waiting
  <2>3. \A b \in Requests : u.request[b].client = c => b = a
    BY <1>3, <1>6 DEF Waiting
  <2>4. a \in Y \/ u.request[a].ident # "no"
    BY <1>6
  <2>5. (a \in u.polled <=> u.request[a].client # NULL)
        /\ (u.request[a].ident = "no" <=> u.request[a].fd = -1)
    BY <1>1, <1>3, <1>6, <2>1 DEF RequestSound
  <2> QED BY <1>1, <1>6, <2>2, <2>3, <2>4, <2>5 DEF RequestSound
<1>14. \A r \in u.queries : r.owner \in {c} \cup {NULL} => QuerySound(u, r)
  <2> TAKE r \in u.queries
  <2> HAVE r.owner \in {c} \cup {NULL}
  <2>1. r.owner = NULL /\ QuerySound(w, r)
    BY <1>0, <1>11 DEF QueriesSound
  <2> QED BY <2>1, Distinct DEF QuerySound
<1>15. ~Queried(u, c)
  BY <1>11 DEF Queried
<1>16. ClientSound(u, Y, c)
  <2>1. ClientSound(w, {}, c) /\ w.client[c].status = "unknown"
    BY <1>0, <1>1, <1>3 DEF Waiting
  <2> QED BY <1>1, <1>3, <1>4, <1>5, <1>9, <2>1 DEF ClientSound, Live
<1>17. Armed(u, c)
  <2>1. Asked(u, c)
    BY <1>1, <1>6 DEF Asked
  <2>2. u.client[c].status = "unknown" /\ ~Released(u, c)
    BY <1>1, <1>3, <1>4, <1>9 DEF Waiting
  <2> QED BY <2>1, <2>2 DEF Armed
<1>18. Patched(w, u, {}, Y, {c}, {a}, {}, {})
  BY <1>0, <1>4, <1>7, <1>8, <1>11, <1>13, <1>14, <1>15, <1>16, <1>17 DEF Patched
<1>19. Sound(u, Y)
  BY <1>2, <1>12, <1>18, Local
<1> QED BY <1>1, <1>6, <1>19

(* auth_dns_callback.                                                      *)
LEMMA AuthAnswerSound ==
  ASSUME NEW w, Sound(w, {}), NEW q \in w.queries, q.callback = "auth_dns_callback",
         NEW v \in auth_dns_callback([w EXCEPT !.queries = w.queries \ {q}], q.ptr)
  PROVE  Sound(v, {})
<1> DEFINE x == [w EXCEPT !.queries = w.queries \ {q}]
           a == q.ptr
           c == x.request[a].client
           u == [x EXCEPT !.request[a].dns = FALSE, !.client[c].dns = "null"]
<1>0. IsWorld(w) /\ QueriesSound(w)
  BY SoundParts DEF Typed
<1>1. /\ IsWorld(x) /\ x.fds = w.fds /\ x.client = w.client
      /\ x.unknown = w.unknown /\ x.count = w.count
      /\ x.clients = w.clients /\ x.exited = w.exited /\ x.request = w.request
      /\ x.polled = w.polled /\ x.queries = w.queries \ {q} /\ x.listener = w.listener
  BY <1>0, QueryTaken
<1>2. c = q.owner
  BY <1>0, <1>1 DEF QueriesSound, QuerySound
<1>3. v \in FinishAuth(u, a)
  BY DEF auth_dns_callback
<1> HIDE DEF x, c
<1>4. /\ IsWorld(u) /\ u.fds = x.fds /\ u.unknown = x.unknown /\ u.count = x.count
      /\ u.clients = x.clients /\ u.exited = x.exited /\ u.polled = x.polled
      /\ u.queries = x.queries /\ u.listener = x.listener
      /\ u.client = [x.client EXCEPT ![c].dns = "null"]
      /\ u.request = [x.request EXCEPT ![a].dns = FALSE]
  BY <1>1 DEF IsWorld
<1> HIDE DEF u, a
<1>5. Noted(w, u, q)
  BY <1>1, <1>2, <1>4 DEF Noted, a
<1>6. a = q.ptr /\ {a} \in SUBSET {a} /\ {} \in SUBSET {a} /\ a \in {a}
  BY DEF a
<1>7. Sound(u, {a}) /\ a \in Requests /\ u.request[a].client # NULL
      /\ u.request[a].ident = w.request[a].ident
  BY <1>5, <1>6, AuthAnswered
<1>8. u.request[a].ident # "no" => Sound(u, {})
  BY <1>5, <1>6, <1>7, AuthAnswered
<1> QED BY <1>3, <1>7, <1>8, FinishSound

(* lookup_dns_callback.                                                    *)
LEMMA LookupAnswerSound ==
  ASSUME NEW w, Sound(w, {}), NEW q \in w.queries, q.callback = "lookup_dns_callback",
         NEW v \in lookup_dns_callback([w EXCEPT !.queries = w.queries \ {q}], q.ptr)
  PROVE  Sound(v, {})
<1> DEFINE x == [w EXCEPT !.queries = w.queries \ {q}]
           c == q.ptr
           u == [x EXCEPT !.client[c].dns = "null"]
<1>0. /\ IsWorld(w) /\ QueriesSound(w) /\ FdSound(w.fds, FdOf(w)) /\ w.fds \in Tables
      /\ w.client \in [Clients -> ClientBlocks] /\ w.request \in [Requests -> RequestBlocks]
  BY SoundParts DEF Typed
<1>1. /\ IsWorld(x) /\ x.fds = w.fds /\ x.client = w.client
      /\ x.unknown = w.unknown /\ x.count = w.count
      /\ x.clients = w.clients /\ x.exited = w.exited /\ x.request = w.request
      /\ x.polled = w.polled /\ x.queries = w.queries \ {q} /\ x.listener = w.listener
  BY <1>0, QueryTaken
<1>2. /\ c \in Clients /\ c = q.owner /\ w.client[c].status = "unknown" /\ ~Released(w, c)
      /\ ~Asked(w, c) /\ ~TryAllSet(w, c)
  BY <1>0 DEF QueriesSound, QuerySound
<1>3. v \in release_auth_client(u, c)
  BY DEF lookup_dns_callback
<1> HIDE DEF x, c
<1>4. /\ IsWorld(u) /\ u.fds = x.fds /\ u.unknown = x.unknown /\ u.count = x.count
      /\ u.clients = x.clients /\ u.exited = x.exited /\ u.polled = x.polled
      /\ u.queries = x.queries /\ u.listener = x.listener /\ u.request = x.request
      /\ u.client = [x.client EXCEPT ![c].dns = "null"]
  BY <1>1 DEF IsWorld
<1> HIDE DEF u
<1>5. /\ u.client \in [Clients -> ClientBlocks] /\ u.client[c].dns = "null"
      /\ u.client[c].status = w.client[c].status /\ u.client[c].fd = w.client[c].fd
      /\ u.client[c].listener = w.client[c].listener
      /\ \A d \in Clients : d # c => u.client[d] = w.client[d]
  BY <1>0, <1>1, <1>2, <1>4 DEF ClientBlocks
<1>6. u.client[c].dead = w.client[c].dead
  BY <1>0, <1>1, <1>2, <1>4 DEF ClientBlocks
<1>7. FdOf(u) = FdOf(w)
  BY <1>1, <1>4, <1>5 DEF FdOf
<1>8. u.queries = {r \in w.queries : r.owner # c}
  <2>1. \A s, t \in w.queries : s.owner = t.owner /\ s.owner # NULL => s = t
    BY <1>0 DEF QueriesSound
  <2>2. c # NULL
    BY <1>2, Distinct
  <2> QED BY <1>1, <1>2, <1>4, <2>1, <2>2
<1>9. u.request = [a \in Requests |-> IF a \in {} THEN FreeRequest ELSE w.request[a]]
      /\ u.polled = w.polled \ {}
  BY <1>0, <1>1, <1>4
<1>10. Answered(w, u, c, {})
  BY <1>0, <1>1, <1>4, <1>5, <1>6, <1>7, <1>8, <1>9 DEF Answered
<1>11. Waiting(w, c, {})
  BY <1>2 DEF Waiting, Asked
<1>12. {} \in SUBSET Objects /\ {} \in SUBSET Requests /\ {} \subseteq {} \cup {c}
  OBVIOUS
<1> QED BY <1>2, <1>3, <1>10, <1>11, <1>12, ReleaseSound

-----------------------------------------------------------------------------
(* A registration fires: comm_select clears it and calls the handler.      *)

(* What changes when a read or a write registration is cleared.            *)
LEMMA ReadCleared ==
  ASSUME NEW w, IsWorld(w), w.fds \in Tables, NEW f \in Fds
  PROVE  LET u == [w EXCEPT !.fds = SetRead(w.fds, f, NULL)]
         IN /\ SameBlocks(w, u) /\ Touched(w.fds, u.fds, f)
            /\ u.fds.tab[f].read = NULL /\ u.fds.tab[f].write = w.fds.tab[f].write
            /\ u.fds.tab[f].connect = w.fds.tab[f].connect
            /\ u.fds.tab[f].flush = w.fds.tab[f].flush
            /\ u.fds.tab[f].timer = w.fds.tab[f].timer
<1> DEFINE u == [w EXCEPT !.fds = SetRead(w.fds, f, NULL)]
<1>1. NULL \in Handles
  BY DEF Handles
<1>2. SameBlocks(w, u) /\ u.fds = SetRead(w.fds, f, NULL)
  BY NewTable
<1> HIDE DEF u
<1>3. Touched(w.fds, u.fds, f)
  BY <1>1, <1>2, SetReadTouches
<1>4. /\ u.fds.tab[f].read = NULL /\ u.fds.tab[f].write = w.fds.tab[f].write
      /\ u.fds.tab[f].connect = w.fds.tab[f].connect /\ u.fds.tab[f].flush = w.fds.tab[f].flush
  BY <1>1, <1>2, SetReadTouches
<1>5. u.fds.tab[f].timer = w.fds.tab[f].timer
  BY <1>1, <1>2, SetReadTouches
<1> QED BY <1>2, <1>3, <1>4, <1>5 DEF u

(* What clearing a write registration leaves.                              *)
LEMMA WriteCleared ==
  ASSUME NEW w, IsWorld(w), w.fds \in Tables, NEW f \in Fds
  PROVE  LET u == [w EXCEPT !.fds = SetWrite(w.fds, f, NULL)]
         IN /\ SameBlocks(w, u) /\ Touched(w.fds, u.fds, f)
            /\ u.fds.tab[f].write = NULL /\ u.fds.tab[f].read = w.fds.tab[f].read
            /\ u.fds.tab[f].connect = w.fds.tab[f].connect
            /\ u.fds.tab[f].flush = w.fds.tab[f].flush
            /\ u.fds.tab[f].timer = w.fds.tab[f].timer
<1> DEFINE u == [w EXCEPT !.fds = SetWrite(w.fds, f, NULL)]
<1>1. NULL \in Handles
  BY DEF Handles
<1>2. SameBlocks(w, u) /\ u.fds = SetWrite(w.fds, f, NULL)
  BY NewTable
<1> HIDE DEF u
<1>3. Touched(w.fds, u.fds, f)
  BY <1>1, <1>2, SetWriteTouches
<1>4. /\ u.fds.tab[f].write = NULL /\ u.fds.tab[f].read = w.fds.tab[f].read
      /\ u.fds.tab[f].connect = w.fds.tab[f].connect /\ u.fds.tab[f].flush = w.fds.tab[f].flush
  BY <1>1, <1>2, SetWriteTouches
<1>5. u.fds.tab[f].timer = w.fds.tab[f].timer
  BY <1>1, <1>2, SetWriteTouches
<1> QED BY <1>2, <1>3, <1>4, <1>5 DEF u

(* read_client_packet and read_server_packet.                              *)
LEMMA ReadClientSound ==
  ASSUME NEW w, Sound(w, {}), NEW c \in Clients, w.client[c].fd # -1,
         w.fds.tab[w.client[c].fd].read \in {<<"read_client_packet", c>>, <<"read_server_packet", c>>},
         NEW v \in ReadPacket([w EXCEPT !.fds = SetRead(w.fds, w.client[c].fd, NULL)], c)
  PROVE  Sound(v, {})
<1> DEFINE f == w.client[c].fd
           u == [w EXCEPT !.fds = SetRead(w.fds, f, NULL)]
           r == w.fds.tab[f].read
<1>r. r[1] \in {"read_client_packet", "read_server_packet"} /\ r[2] = c /\ r # NULL
  <2>1. r = <<"read_client_packet", c>> \/ r = <<"read_server_packet", c>>
    OBVIOUS
  <2> HIDE DEF r
  <2>2. {"read_client_packet", "read_server_packet"} \subseteq Callbacks /\ c \in Objects
    BY DEF Callbacks, Objects
  <2>3. r # NULL
    BY <2>1, <2>2, Distinct
  <2> QED BY <2>1, <2>3
<1>0. Typed(w) /\ IsWorld(w) /\ w.fds \in Tables /\ ClientSound(w, {}, c)
  BY SoundParts DEF Typed
<1>1. w.client[c].status \in Live
  BY <1>0 DEF ClientSound
<1>2. f \in Fds /\ w.fds.tab[f].open /\ EntrySound(w, f, w.fds.tab[f])
  BY <1>1, OwnFd
<1>3. Reading(w, c)
  <2>2. ReadSound(w, f, r)
    BY <1>2, <1>r DEF EntrySound
  <2> HIDE DEF r
  <2>3. Released(w, c) /\ w.client[c].status # "connecting"
    BY <1>r, <2>2 DEF ReadSound
  <2> QED BY <1>1, <2>3 DEF Reading, Live
<1>4. w.fds.tab[f].write = TryConnect /\ w.fds.tab[f].connect = NULL => Excused(w, {}, f)
  <2> HIDE DEF f
  <2> QED BY <1>2, SoundEntry
<1>5. v \in ReadPacket(u, c) /\ f = w.client[c].fd
  OBVIOUS
<1> HIDE DEF f, r
<1>6. SameBlocks(w, u) /\ Touched(w.fds, u.fds, f)
  BY <1>0, <1>2, ReadCleared
<1>7. Touched(w.fds, u.fds, f)
  BY <1>6
<1>8. /\ u.fds.tab[f].read = NULL /\ u.fds.tab[f].write = w.fds.tab[f].write
      /\ u.fds.tab[f].connect = w.fds.tab[f].connect /\ u.fds.tab[f].flush = w.fds.tab[f].flush
  BY <1>0, <1>2, ReadCleared
<1>9. u.fds.tab[f].timer = w.fds.tab[f].timer
  BY <1>0, <1>2, ReadCleared
<1> HIDE DEF u
<1>10. u.fds.tab[f].open
  BY <1>2, <1>7 DEF Touched
<1>11. /\ u.client = w.client /\ u.clients = w.clients
  BY <1>6 DEF SameBlocks
<1>12. EntrySound(u, f, u.fds.tab[f])
  <2>1. w.fds.tab[f].write # NULL => WriteSound(u, f, w.fds.tab[f].write)
    BY <1>2, <1>8, <1>11 DEF EntrySound, WriteSound, Released
  <2>2. w.fds.tab[f].connect # NULL => ConnectSound(u, f, w.fds.tab[f].connect)
    BY <1>2, <1>6, SameHandlers DEF EntrySound
  <2>3. w.fds.tab[f].flush # NULL => FlushSound(u, f, w.fds.tab[f].flush)
    BY <1>2, <1>6, SameHandlers DEF EntrySound
  <2>4. w.fds.tab[f].timer => w.fds.tab[f].connect # NULL
    BY <1>2 DEF EntrySound
  <2> QED BY <1>8, <1>9, <1>10, <2>1, <2>2, <2>3, <2>4 DEF EntrySound
<1>13. Sound(u, {c})
  <2>1. {} \in SUBSET {c} /\ {c} \in SUBSET {c} /\ c \in {c}
    OBVIOUS
  <2>2. u.fds.tab[f].write = TryConnect /\ u.fds.tab[f].connect = NULL => Excused(w, {c}, f)
    BY <1>4, <1>8 DEF Excused
  <2> QED BY <1>1, <1>5, <1>6, <1>7, <1>8, <1>12, <2>1, <2>2, RewiredClient
<1>14. Reading(u, c)
  BY <1>3, <1>11 DEF Reading, Released
<1> QED BY <1>5, <1>13, <1>14, ReadPacketSound

(* read_auth_reply.                                                        *)
LEMMA ReadIdentSound ==
  ASSUME NEW w, Sound(w, {}), NEW a \in Requests, w.request[a].fd # -1,
         w.fds.tab[w.request[a].fd].read = <<"read_auth_reply", a>>,
         NEW v \in read_auth_reply([w EXCEPT !.fds = SetRead(w.fds, w.request[a].fd, NULL)], a)
  PROVE  Sound(v, {})
<1> DEFINE f == w.request[a].fd
           u == [w EXCEPT !.fds = SetRead(w.fds, f, NULL)]
<1>1. f = w.request[a].fd /\ w.fds.tab[f].read # NULL
  BY Distinct DEF Callbacks, Objects
<1>2. w.request[a].ident = "pending"
  <2> HIDE DEF f
  <2>1. w.fds.tab[f].read # NULL => w.request[a].ident = "pending"
    BY <1>1, IdentFd, Zenon
  <2> QED BY <1>1, <2>1
<1>3. Sound(u, {}) /\ u.request = w.request
  BY SetReadRequest
<1>4. v \in read_auth_reply(u, a)
  OBVIOUS
<1> HIDE DEF u
<1> QED BY <1>2, <1>3, <1>4, ReadReplySound

(* comm_tryall_callback fires: the client is looked at.                    *)
LEMMA FiredTryAll ==
  ASSUME NEW w, Sound(w, {}), NEW c \in Clients, w.client[c].fd # -1, TryAllSet(w, c),
         NEW u, u = [w EXCEPT !.fds = SetWrite(w.fds, w.client[c].fd, NULL)]
  PROVE  /\ Sound(u, {c}) /\ u.client[c].status = "unknown" /\ ~Released(u, c)
         /\ ~TryAllSet(u, c) /\ u.client = w.client /\ u.listener = w.listener
         /\ u.request = w.request /\ ~Asked(u, c) /\ ~Queried(u, c)
<1> DEFINE f == w.client[c].fd
           h == w.fds.tab[f].write
<1>f. f # -1 /\ f = w.client[c].fd /\ h = <<"comm_tryall_callback", c>>
  BY DEF TryAllSet
<1>0. Typed(w) /\ IsWorld(w) /\ w.fds \in Tables /\ ClientSound(w, {}, c) /\ QueriesSound(w)
      /\ \A a \in Requests : RequestSound(w, {}, a)
  BY SoundParts DEF Typed
<1>1. w.client[c].status \in Live
  BY <1>0 DEF ClientSound
<1>2. f \in Fds /\ w.fds.tab[f].open /\ EntrySound(w, f, w.fds.tab[f])
  BY <1>1, OwnFd
<1>3. <<"comm_tryall_callback", c>> # NULL /\ <<"comm_tryall_callback", c>> # TryConnect
  BY Distinct DEF Callbacks, Objects, TryConnect
<1>4. w.client[c].status = "unknown" /\ ~Released(w, c) /\ w.fds.tab[f].connect = NULL
  <2>1. WriteSound(w, f, h) /\ h # TryConnect
    BY <1>f, <1>2, <1>3 DEF EntrySound
  <2>2. h[2] = c
    BY <1>f
  <2> HIDE DEF h
  <2> QED BY <2>1, <2>2 DEF WriteSound
<1> HIDE DEF f, h
<1>6. SameBlocks(w, u) /\ Touched(w.fds, u.fds, f)
  BY <1>0, <1>2, WriteCleared DEF f
<1>7. Touched(w.fds, u.fds, f)
  BY <1>6
<1>8. /\ u.fds.tab[f].write = NULL /\ u.fds.tab[f].read = w.fds.tab[f].read
      /\ u.fds.tab[f].connect = w.fds.tab[f].connect /\ u.fds.tab[f].flush = w.fds.tab[f].flush
  BY <1>0, <1>2, WriteCleared DEF f
<1>9. u.fds.tab[f].timer = w.fds.tab[f].timer
  BY <1>0, <1>2, WriteCleared DEF f
<1>10. u.fds.tab[f].open
  BY <1>2, <1>7 DEF Touched
<1>11. /\ u.client = w.client /\ u.clients = w.clients /\ u.listener = w.listener
       /\ u.request = w.request /\ u.queries = w.queries
  BY <1>6 DEF SameBlocks
<1>12. EntrySound(u, f, u.fds.tab[f])
  <2>1. w.fds.tab[f].read # NULL => ReadSound(u, f, w.fds.tab[f].read)
    BY <1>2, <1>6, SameHandlers DEF EntrySound
  <2>2. w.fds.tab[f].connect # NULL => ConnectSound(u, f, w.fds.tab[f].connect)
    BY <1>2, <1>6, SameHandlers DEF EntrySound
  <2>3. w.fds.tab[f].flush # NULL => FlushSound(u, f, w.fds.tab[f].flush)
    BY <1>2, <1>6, SameHandlers DEF EntrySound
  <2>4. w.fds.tab[f].timer => w.fds.tab[f].connect # NULL
    BY <1>2 DEF EntrySound
  <2> QED BY <1>8, <1>9, <1>10, <2>1, <2>2, <2>3, <2>4 DEF EntrySound
<1>13. Sound(u, {c})
  <2>1. {} \in SUBSET {c} /\ {c} \in SUBSET {c} /\ c \in {c}
    OBVIOUS
  <2>2. NULL # TryConnect
    BY Distinct DEF Callbacks, TryConnect
  <2> QED BY <1>f, <1>1, <1>3, <1>6, <1>7, <1>8, <1>12, <2>1, <2>2, RewiredClient
<1>14. ~TryAllSet(u, c)
  BY <1>f, <1>3, <1>8, <1>11 DEF TryAllSet
<1>15. TryAllSet(w, c) /\ c # NULL
  BY Distinct
<1>16. ~Asked(w, c)
  BY <1>0, <1>15 DEF Asked, RequestSound
<1>17. ~Queried(w, c)
  <2> SUFFICES ASSUME NEW q \in w.queries, q.owner = c PROVE FALSE
    BY DEF Queried
  <2>1. QuerySound(w, q)
    BY <1>0 DEF QueriesSound
  <2> QED BY <1>15, <1>16, <2>1 DEF QuerySound, Asked
<1> QED BY <1>4, <1>11, <1>13, <1>14, <1>16, <1>17 DEF Released, Asked, Queried

(* A registration for connect() that outlived its connection, which only   *)
(* a lookup of the host name can leave behind, comes and goes.             *)
LEMMA StaleWrite ==
  ASSUME NEW w, Sound(w, {}), NEW f \in Fds, ByName, w.fds.tab[f].open,
         w.fds.tab[f].connect = NULL,
         w.fds.tab[f].write = NULL \/ w.fds.tab[f].write = TryConnect,
         NEW h, h = NULL \/ h = TryConnect
  PROVE  LET u == [w EXCEPT !.fds = SetWrite(w.fds, f, h)]
         IN /\ Sound(u, {}) /\ u.fds.tab[f].open /\ u.fds.tab[f].connect = NULL
            /\ u.fds.tab[f].write = h
<1> DEFINE u == [w EXCEPT !.fds = SetWrite(w.fds, f, h)]
<1>0. Typed(w) /\ IsWorld(w) /\ w.fds \in Tables /\ EntrySound(w, f, w.fds.tab[f])
      /\ \A d \in Clients : ClientSound(w, {}, d)
  BY SoundParts DEF Typed
<1>1. \A d \in Clients : Armed(w, d)
  BY SoundParts
<1>2. h \in Handles
  BY DEF Handles, TryConnect, Callbacks
<1>3. SameBlocks(w, u) /\ u.fds = SetWrite(w.fds, f, h)
  BY <1>0, NewTable
<1> HIDE DEF u
<1>4. Touched(w.fds, u.fds, f)
  BY <1>0, <1>2, <1>3, SetWriteTouches
<1>5. /\ u.fds.tab[f].write = h /\ u.fds.tab[f].read = w.fds.tab[f].read
      /\ u.fds.tab[f].connect = w.fds.tab[f].connect /\ u.fds.tab[f].flush = w.fds.tab[f].flush
  BY <1>0, <1>2, <1>3, SetWriteTouches
<1>6. u.fds.tab[f].timer = w.fds.tab[f].timer
  BY <1>0, <1>2, <1>3, SetWriteTouches
<1>7. u.fds.tab[f].open
  BY <1>4 DEF Touched
<1>8. /\ u.client = w.client /\ u.clients = w.clients
      /\ u.request = w.request /\ u.queries = w.queries
  BY <1>3 DEF SameBlocks
<1>9. EntrySound(u, f, u.fds.tab[f])
  <2>1. w.fds.tab[f].read # NULL => ReadSound(u, f, w.fds.tab[f].read)
    BY <1>0, <1>3, SameHandlers DEF EntrySound
  <2>2. w.fds.tab[f].flush # NULL => FlushSound(u, f, w.fds.tab[f].flush)
    BY <1>0, <1>3, SameHandlers DEF EntrySound
  <2>3. ~w.fds.tab[f].timer
    BY <1>0 DEF EntrySound
  <2>4. h # NULL => WriteSound(u, f, h)
    BY DEF WriteSound
  <2> QED BY <1>5, <1>6, <1>7, <2>1, <2>2, <2>3, <2>4 DEF EntrySound
<1>10. \A d \in Clients : /\ <<"comm_tryall_callback", d>> # NULL
                          /\ <<"comm_tryall_callback", d>> # TryConnect
                          /\ <<"serv_connect_callback", d>> # NULL
  BY Distinct DEF Callbacks, Objects, TryConnect
<1>11. ASSUME NEW d \in Clients, w.client[d].fd = f
       PROVE  Armed(u, d) /\ w.client[d].status # "connecting"
  <2>1. w.client[d].status # "connecting"
    BY <1>0, <1>10, <1>11 DEF ClientSound
  <2>2. ~TryAllSet(w, d)
    BY <1>10, <1>11 DEF TryAllSet
  <2> QED BY <1>1, <1>5, <1>8, <1>11, <2>1, <2>2 DEF Armed, Released, Asked, Queried
<1>12. Rewires(w, u, {}, {}, f)
  BY <1>3, <1>4, <1>5, <1>9, <1>10, <1>11 DEF Rewires, Excused
<1>13. {} \in SUBSET Objects
  OBVIOUS
<1>14. Sound(u, {})
  BY <1>12, <1>13, Rewired
<1> QED BY <1>5, <1>7, <1>14 DEF u

(* comm_connect_tryconnect, called by comm_select.                         *)
LEMMA WriteConnectSound ==
  ASSUME NEW w, Sound(w, {}), NEW f \in Fds, w.fds.tab[f].write = TryConnect,
         NEW v \in comm_connect_tryconnect([w EXCEPT !.fds = SetWrite(w.fds, f, NULL)], f)
  PROVE  Sound(v, {})
<1> DEFINE u == [w EXCEPT !.fds = SetWrite(w.fds, f, NULL)]
<1>0. IsWorld(w) /\ w.fds \in Tables /\ EntrySound(w, f, w.fds.tab[f])
      /\ (w.fds.tab[f].write = TryConnect /\ w.fds.tab[f].connect = NULL => Excused(w, {}, f))
  BY SoundParts DEF Typed
<1>1. TryConnect # NULL /\ NULL \in Handles
  BY Distinct DEF TryConnect, Callbacks, Handles
<1>2. w.fds.tab[f].open
  BY <1>0, <1>1 DEF EntrySound, ClosedEntry
<1>3. v \in comm_connect_tryconnect(u, f)
  OBVIOUS
<1>4. SameBlocks(w, u) /\ u.fds = SetWrite(w.fds, f, NULL)
  BY <1>0, NewTable
<1>5. u = [w EXCEPT !.fds = SetWrite(w.fds, f, NULL)]
  OBVIOUS
<1> HIDE DEF u
<1>6. CASE w.fds.tab[f].connect = NULL
  <2>1. ByName
    BY <1>0, <1>6 DEF Excused
  <2>2. /\ Sound(u, {}) /\ u.fds.tab[f].open /\ u.fds.tab[f].connect = NULL
        /\ u.fds.tab[f].write = NULL
    BY <1>2, <1>6, <2>1, StaleWrite DEF u
  <2>3. v = u \/ v = [u EXCEPT !.fds = SetWrite(u.fds, f, TryConnect)]
    BY <1>3, <2>2 DEF comm_connect_tryconnect, comm_connect_callback, TryConnect
  <2> HIDE <1>5
  <2>4. CASE v = [u EXCEPT !.fds = SetWrite(u.fds, f, TryConnect)]
    BY <2>1, <2>2, <2>4, StaleWrite
  <2> QED BY <2>2, <2>3, <2>4
<1>7. CASE w.fds.tab[f].connect # NULL
  <2>1. PICK x : Dialler(w, x, f)
    BY <1>7, HasDialler
  <2>2. Sound(w, {x})
    BY Weaken
  <2>3. w.fds.tab[f].connect = DialHandle(x)
    BY <1>7, <2>1, DiallerOwns
  <2>4. Touched(w.fds, u.fds, f)
    BY <1>0, <1>1, <1>4, SetWriteTouches
  <2>5. /\ u.fds.tab[f].write = NULL /\ u.fds.tab[f].read = w.fds.tab[f].read
        /\ u.fds.tab[f].connect = w.fds.tab[f].connect /\ u.fds.tab[f].flush = w.fds.tab[f].flush
    BY <1>0, <1>1, <1>4, SetWriteTouches
  <2>6. {x} \in SUBSET {x} /\ x \in {x} /\ (u.fds.tab[f].timer => u.fds.tab[f].connect # NULL)
    BY <1>7, <2>5
  <2> HIDE <1>5
  <2>7. Sound(u, {x}) /\ Dialler(u, x, f)
    BY <1>4, <2>1, <2>2, <2>3, <2>4, <2>5, <2>6, RewiredDialler
  <2> QED BY <1>1, <1>3, <1>7, <2>5, <2>7, TryConnectSound
<1> QED BY <1>6, <1>7

(* comm_checktimeouts: the connection timed out.                           *)
LEMMA CheckTimeoutSound ==
  ASSUME NEW w, Sound(w, {}), NEW f \in Fds, w.fds.tab[f].timer,
         NEW v \in comm_connect_callback([w EXCEPT !.fds = SetTimer(w.fds, f, FALSE)], f, FALSE)
  PROVE  Sound(v, {})
<1> DEFINE u == [w EXCEPT !.fds = SetTimer(w.fds, f, FALSE)]
<1>0. EntrySound(w, f, w.fds.tab[f])
  BY SoundParts
<1>1. w.fds.tab[f].connect # NULL
  BY <1>0 DEF EntrySound
<1>2. PICK x : Dialler(w, x, f)
  BY <1>1, HasDialler
<1>3. Sound(w, {x}) /\ FALSE \in BOOLEAN
  BY Weaken
<1>4. Sound(u, {x}) /\ Dialler(u, x, f) /\ u.fds.tab[f].connect # NULL
  BY <1>1, <1>2, <1>3, TimerSound
<1>5. v \in comm_connect_callback(u, f, FALSE)
  OBVIOUS
<1> HIDE DEF u
<1> QED BY <1>3, <1>4, <1>5, ConnectCallbackSound

(* comm_checktimeouts: flood_recalc is called for the client it was set for.*)
LEMMA CheckFlushSound ==
  ASSUME NEW w, Sound(w, {}), NEW f \in Fds, w.fds.tab[f].flush # NULL,
         NEW v \in flood_recalc([w EXCEPT !.fds = SetFlush(w.fds, f, NULL)], w.fds.tab[f].flush[2])
  PROVE  Sound(v, {})
<1> DEFINE c == w.fds.tab[f].flush[2]
           u == [w EXCEPT !.fds = SetFlush(w.fds, f, NULL)]
<1>0. /\ IsWorld(w) /\ EntrySound(w, f, w.fds.tab[f])
      /\ \A d \in Clients : ClientSound(w, {}, d)
  BY SoundParts DEF Typed
<1>1. c \in Clients /\ w.client[c].fd = f /\ Released(w, c)
  BY <1>0 DEF EntrySound, FlushSound
<1>2. w.client[c].status \in Live
  BY <1>0, <1>1, FdFacts DEF ClientSound
<1>3. v \in flood_recalc(u, c) /\ u.clients = w.clients
  BY <1>0 DEF IsWorld
<1> HIDE DEF c
<1>4. Sound(u, {})
  BY <1>1, <1>2, ReflushSound
<1> HIDE DEF u
<1>5. Released(u, c)
  BY <1>1, <1>3 DEF Released
<1> QED BY <1>1, <1>3, <1>4, <1>5, FloodRecalcSound

-----------------------------------------------------------------------------
(* timeout_auth_queries_event: a request is given up.                      *)

(* What CloseIdent leaves, whether the request had a descriptor or not.    *)
WithoutIdent(w, x, a) ==
  /\ IsWorld(x) /\ x.client = w.client /\ x.unknown = w.unknown /\ x.count = w.count
  /\ x.clients = w.clients /\ x.exited = w.exited
  /\ x.request = [w.request EXCEPT ![a].fd = -1]
  /\ x.polled = w.polled /\ x.queries = w.queries /\ x.listener = w.listener
  /\ x.fds \in Tables
  /\ \A g \in Fds : x.fds.tab[g] = IF w.request[a].fd = g THEN ClosedEntry ELSE w.fds.tab[g]
  /\ FdSound(x.fds, [FdOf(w) EXCEPT ![a] = -1])

(* The effect of CloseIdent.                                               *)
LEMMA IdentGone ==
  ASSUME NEW w, NEW X, Sound(w, X), NEW a \in Requests
  PROVE  WithoutIdent(w, CloseIdent(w, a), a)
<1> DEFINE x == CloseIdent(w, a)
           g == w.request[a].fd
           k == [FdOf(w) EXCEPT ![a] = -1]
<1>0. /\ Typed(w) /\ IsWorld(w) /\ FdSound(w.fds, FdOf(w)) /\ OwnFds(w) /\ w.fds \in Tables
      /\ w.request \in [Requests -> RequestBlocks]
  BY SoundParts DEF Typed
<1>1. FdOf(w) \in [Objects -> Fds \cup {-1}] /\ FdOf(w)[a] = g /\ a \in Objects
  BY <1>0, FdOfObjects DEF Objects
<1>2. g \in Fds \cup {-1}
  BY <1>0 DEF RequestBlocks
<1>3. x = [w EXCEPT !.fds = IF g >= 0 THEN fd_close(w.fds, g) ELSE w.fds, !.request[a].fd = -1]
  BY DEF CloseIdent
<1> DEFINE F == IF g >= 0 THEN fd_close(w.fds, g) ELSE w.fds
<1>4. x = [w EXCEPT !.fds = F, !.request[a].fd = -1]
  BY <1>3
<1> HIDE DEF F, g, k, x
<1>5. /\ IsWorld(x) /\ x.client = w.client /\ x.unknown = w.unknown /\ x.count = w.count
      /\ x.clients = w.clients /\ x.exited = w.exited /\ x.fds = F
      /\ x.request = [w.request EXCEPT ![a].fd = -1]
      /\ x.polled = w.polled /\ x.queries = w.queries /\ x.listener = w.listener
  BY <1>0, <1>4 DEF IsWorld
<1>6. /\ F \in Tables /\ FdSound(F, k)
      /\ \A f \in Fds : F.tab[f] = IF g = f THEN ClosedEntry ELSE w.fds.tab[f]
  <2>1. CASE g = -1
    <3>1. F = w.fds
      BY <2>1 DEF F
    <3>2. k = FdOf(w)
      BY <1>1, <2>1 DEF k
    <3> QED BY <1>0, <2>1, <3>1, <3>2, FdFacts
  <2>2. CASE g \in Fds
    <3>1. g >= 0 /\ g # -1
      BY <2>2, FdFacts
    <3>2. w.fds.tab[g].open
      BY <1>0, <3>1 DEF OwnFds, g
    <3>3. F = fd_close(w.fds, g)
      BY <3>1 DEF F
    <3>4. /\ fd_close(w.fds, g) \in Tables
          /\ fd_close(w.fds, g).tab = [w.fds.tab EXCEPT ![g] = ClosedEntry]
          /\ FdSound(fd_close(w.fds, g), Without(FdOf(w), {g}))
      BY <1>0, <1>1, <2>2, <3>2, FdClose
    <3>5. Without(FdOf(w), {g}) = k
      <4>1. \A y \in Objects : FdOf(w)[y] = g => y = a
        BY <1>0, <1>1, <3>1 DEF FdSound
      <4> QED BY <1>1, <4>1 DEF Without, k
    <3>6. w.fds.tab \in [Fds -> Entries]
      BY <1>0 DEF Tables
    <3> QED BY <2>2, <3>3, <3>4, <3>5, <3>6
  <2> QED BY <1>2, <2>1, <2>2
<1>7. WithoutIdent(w, x, a)
  BY <1>5, <1>6 DEF k, g, WithoutIdent
<1> QED BY <1>7 DEF x

(* What delete_adns_queries leaves.                                        *)
WithoutQueries(w, y, c) ==
  /\ IsWorld(y) /\ y.fds = w.fds /\ y.client = w.client
  /\ y.unknown = w.unknown /\ y.count = w.count
  /\ y.clients = w.clients /\ y.exited = w.exited /\ y.request = w.request
  /\ y.polled = w.polled /\ y.listener = w.listener
  /\ y.queries = IF w.client[c].dns = "pending" THEN {q \in w.queries : q.owner # c}
                 ELSE w.queries

(* The effect of delete_adns_queries.                                      *)
LEMMA QueriesCut ==
  ASSUME NEW w, IsWorld(w), NEW c
  PROVE  WithoutQueries(w, delete_adns_queries(w, c), c)
BY DEF delete_adns_queries, IsWorld, WithoutQueries

(* The state of a client's query is one field of its block.                *)
LEMMA DnsSet ==
  ASSUME NEW C \in [Clients -> ClientBlocks], NEW c \in Clients, NEW s \in {"null", "pending", "idle"},
         NEW E, E = [C EXCEPT ![c].dns = s]
  PROVE  /\ E \in [Clients -> ClientBlocks] /\ E[c].dns = s
         /\ E[c].status = C[c].status /\ E[c].fd = C[c].fd /\ E[c].listener = C[c].listener
         /\ (E[c].dead <=> C[c].dead)
         /\ \A d \in Clients : d # c => E[d] = C[d]
BY DEF ClientBlocks

(* The request is taken off auth_poll_list and freed.                      *)
WithoutRequest(w, u, a) ==
  /\ IsWorld(u) /\ u.fds = w.fds /\ u.client = w.client
  /\ u.unknown = w.unknown /\ u.count = w.count
  /\ u.clients = w.clients /\ u.exited = w.exited
  /\ u.request = [w.request EXCEPT ![a] = FreeRequest]
  /\ u.polled = w.polled \ {a} /\ u.queries = w.queries /\ u.listener = w.listener

(* The effect of unlinking and freeing a request.                          *)
LEMMA RequestFreed ==
  ASSUME NEW w, IsWorld(w), NEW a
  PROVE  WithoutRequest(w, free_auth_request(unlink_auth_request(w, a), a), a)
<1> DEFINE x == unlink_auth_request(w, a)
           u == free_auth_request(x, a)
<1>1. /\ IsWorld(x) /\ x.fds = w.fds /\ x.client = w.client
      /\ x.unknown = w.unknown /\ x.count = w.count
      /\ x.clients = w.clients /\ x.exited = w.exited /\ x.request = w.request
      /\ x.polled = w.polled \ {a} /\ x.queries = w.queries /\ x.listener = w.listener
  BY DEF unlink_auth_request, IsWorld
<1> HIDE DEF x
<1>2. /\ IsWorld(u) /\ u.fds = x.fds /\ u.client = x.client
      /\ u.unknown = x.unknown /\ u.count = x.count
      /\ u.clients = x.clients /\ u.exited = x.exited
      /\ u.request = [x.request EXCEPT ![a] = FreeRequest]
      /\ u.polled = x.polled /\ u.queries = x.queries /\ u.listener = x.listener
  BY <1>1 DEF free_auth_request, IsWorld
<1> HIDE DEF u
<1>3. WithoutRequest(w, u, a)
  BY <1>1, <1>2 DEF WithoutRequest
<1> QED BY <1>3 DEF u, x

(* timeout_auth_queries_event, for one request.                            *)
LEMMA TimeoutAuthSound ==
  ASSUME NEW w, Sound(w, {}), NEW a \in w.polled
  PROVE  LET x == CloseIdent(w, a)
             c == w.request[a].client
             y == IF w.request[a].dns
                  THEN [delete_adns_queries(x, c) EXCEPT !.client[c].dns = "idle"] ELSE x
             u == free_auth_request(unlink_auth_request(y, a), a)
         IN \A v \in release_auth_client(u, c) : Sound(v, {})
<1> DEFINE x == CloseIdent(w, a)
           c == w.request[a].client
           y == IF w.request[a].dns
                THEN [delete_adns_queries(x, c) EXCEPT !.client[c].dns = "idle"] ELSE x
           u == free_auth_request(unlink_auth_request(y, a), a)
<1>c. c = w.request[a].client
  OBVIOUS
<1> HIDE DEF x, c, y, u
<1>0. /\ Typed(w) /\ IsWorld(w) /\ OwnFds(w) /\ w.polled \in SUBSET Requests
      /\ w.client \in [Clients -> ClientBlocks] /\ w.request \in [Requests -> RequestBlocks]
      /\ QueriesSound(w) /\ \A b \in Requests : RequestSound(w, {}, b)
  BY SoundParts DEF Typed
<1>1. a \in Requests /\ c # NULL
  BY <1>0, <1>c DEF RequestSound
<1>2. {} \in SUBSET Objects /\ {a} \in SUBSET Requests /\ {} \subseteq {a} \cup {c}
  BY <1>1
<1>3. /\ c \in Clients /\ Waiting(w, c, {a}) /\ c \notin w.exited
      /\ ~w.request[a].dns => ~Queried(w, c) /\ w.client[c].dns # "pending"
  BY <1>1, <1>2, <1>c, RequestOf
<1>4. /\ IsWorld(x) /\ x.client = w.client /\ x.unknown = w.unknown /\ x.count = w.count
      /\ x.clients = w.clients /\ x.exited = w.exited
      /\ x.request = [w.request EXCEPT ![a].fd = -1]
      /\ x.polled = w.polled /\ x.queries = w.queries /\ x.listener = w.listener
      /\ x.fds \in Tables
      /\ \A g \in Fds : x.fds.tab[g] = IF w.request[a].fd = g THEN ClosedEntry ELSE w.fds.tab[g]
      /\ FdSound(x.fds, [FdOf(w) EXCEPT ![a] = -1])
  <2>1. WithoutIdent(w, x, a)
    BY <1>1, IdentGone DEF x
  <2> QED BY <2>1 DEF WithoutIdent
<1>5. /\ IsWorld(y) /\ y.fds = x.fds /\ y.unknown = w.unknown /\ y.count = w.count
      /\ y.clients = w.clients /\ y.exited = w.exited /\ y.request = x.request
      /\ y.polled = w.polled /\ y.listener = w.listener
      /\ y.queries = {q \in w.queries : q.owner # c}
      /\ y.client \in [Clients -> ClientBlocks] /\ y.client[c].dns # "pending"
      /\ y.client[c].status = w.client[c].status /\ y.client[c].fd = w.client[c].fd
      /\ y.client[c].listener = w.client[c].listener
      /\ (y.client[c].dead <=> w.client[c].dead)
      /\ \A d \in Clients : d # c => y.client[d] = w.client[d]
  <2>1. Queried(w, c) <=> w.client[c].dns = "pending"
    BY <1>0, <1>3 DEF QueriesSound
  <2>2. ~Queried(w, c) => w.queries = {q \in w.queries : q.owner # c}
    BY DEF Queried
  <2>3. CASE w.request[a].dns
    <3> DEFINE z == delete_adns_queries(x, c)
    <3>1. /\ IsWorld(z) /\ z.fds = x.fds /\ z.client = x.client
          /\ z.unknown = x.unknown /\ z.count = x.count
          /\ z.clients = x.clients /\ z.exited = x.exited /\ z.request = x.request
          /\ z.polled = x.polled /\ z.listener = x.listener
          /\ z.queries = IF x.client[c].dns = "pending" THEN {q \in x.queries : q.owner # c}
                         ELSE x.queries
      <4>1. WithoutQueries(x, z, c)
        BY <1>4, QueriesCut
      <4> QED BY <4>1 DEF WithoutQueries
    <3>2. y = [z EXCEPT !.client[c].dns = "idle"]
      BY <2>3 DEF y
    <3> HIDE DEF z
    <3>3. /\ IsWorld(y) /\ y.fds = z.fds /\ y.client = [z.client EXCEPT ![c].dns = "idle"]
          /\ y.unknown = z.unknown /\ y.count = z.count
          /\ y.clients = z.clients /\ y.exited = z.exited /\ y.request = z.request
          /\ y.polled = z.polled /\ y.listener = z.listener /\ y.queries = z.queries
      <4>1. /\ IsWorld([z EXCEPT !.client[c].dns = "idle"])
            /\ [z EXCEPT !.client[c].dns = "idle"].fds = z.fds
            /\ [z EXCEPT !.client[c].dns = "idle"].client = [z.client EXCEPT ![c].dns = "idle"]
            /\ [z EXCEPT !.client[c].dns = "idle"].unknown = z.unknown
            /\ [z EXCEPT !.client[c].dns = "idle"].count = z.count
            /\ [z EXCEPT !.client[c].dns = "idle"].clients = z.clients
            /\ [z EXCEPT !.client[c].dns = "idle"].exited = z.exited
            /\ [z EXCEPT !.client[c].dns = "idle"].request = z.request
            /\ [z EXCEPT !.client[c].dns = "idle"].polled = z.polled
            /\ [z EXCEPT !.client[c].dns = "idle"].listener = z.listener
            /\ [z EXCEPT !.client[c].dns = "idle"].queries = z.queries
        BY <3>1 DEF IsWorld
      <4> QED BY <3>2, <4>1
    <3> HIDE <3>2
    <3>4. z.queries = {q \in w.queries : q.owner # c}
      BY <1>4, <2>1, <2>2, <3>1
    <3>5. y.client = [w.client EXCEPT ![c].dns = "idle"] /\ "idle" \in {"null", "pending", "idle"}
      BY <1>4, <3>1, <3>3
    <3>6. /\ y.client \in [Clients -> ClientBlocks] /\ y.client[c].dns = "idle"
          /\ y.client[c].status = w.client[c].status /\ y.client[c].fd = w.client[c].fd
          /\ y.client[c].listener = w.client[c].listener
          /\ (y.client[c].dead <=> w.client[c].dead)
          /\ \A d \in Clients : d # c => y.client[d] = w.client[d]
      <4>1. w.client \in [Clients -> ClientBlocks] /\ c \in Clients
        BY <1>0, <1>3
      <4> QED BY <3>5, <4>1, DnsSet
    <3> QED BY <1>4, <3>1, <3>3, <3>4, <3>6
  <2>4. CASE ~w.request[a].dns
    <3>1. y = x
      BY <2>4 DEF y
    <3>2. x.queries = {q \in w.queries : q.owner # c} /\ x.client[c].dns # "pending"
      BY <1>3, <1>4, <2>2, <2>4
    <3> QED BY <1>0, <1>4, <3>1, <3>2
  <2> QED BY <2>3, <2>4
<1>6. /\ IsWorld(u) /\ u.fds = y.fds /\ u.client = y.client
      /\ u.unknown = y.unknown /\ u.count = y.count
      /\ u.clients = y.clients /\ u.exited = y.exited
      /\ u.request = [y.request EXCEPT ![a] = FreeRequest]
      /\ u.polled = y.polled \ {a} /\ u.queries = y.queries /\ u.listener = y.listener
  <2>1. WithoutRequest(y, u, a)
    BY <1>5, RequestFreed DEF u
  <2> QED BY <2>1 DEF WithoutRequest
<1>7. u.request = [b \in Requests |-> IF b \in {a} THEN FreeRequest ELSE w.request[b]]
  BY <1>0, <1>1, <1>4, <1>5, <1>6
<1>8. FdOf(u) = [FdOf(w) EXCEPT ![a] = -1]
  <2> DEFINE k == [FdOf(w) EXCEPT ![a] = -1]
  <2>1. /\ FdOf(w) \in [Objects -> Fds \cup {-1}] /\ a \in Objects
        /\ \A d \in Clients : FdOf(w)[d] = w.client[d].fd /\ d \in Objects
        /\ \A b \in Requests : FdOf(w)[b] = w.request[b].fd /\ b \in Objects
        /\ \A l \in Listeners : FdOf(w)[l] = w.listener[l].fd /\ l \in Objects
    BY <1>0, <1>1, FdOfObjects DEF Objects
  <2>2. /\ k \in [Objects -> Fds \cup {-1}] /\ k[a] = -1
        /\ \A z \in Objects : z # a => k[z] = FdOf(w)[z]
    BY <2>1
  <2> HIDE DEF k
  <2>3. \A d \in Clients : u.client[d].fd = k[d]
    <3>1. \A d \in Clients : u.client[d].fd = w.client[d].fd
      BY <1>3, <1>5, <1>6
    <3> QED BY <1>1, <2>1, <2>2, <3>1, Distinct
  <2>4. \A b \in Requests : u.request[b].fd = k[b]
    BY <1>7, <2>1, <2>2 DEF FreeRequest
  <2>5. \A l \in Listeners : u.listener[l].fd = k[l]
    BY <1>1, <1>5, <1>6, <2>1, <2>2, Distinct
  <2>6. FdOf(u) = k
    BY <2>2, <2>3, <2>4, <2>5, FdOfIs
  <2> QED BY <2>6 DEF k
<1>9. \A g \in Fds : u.fds.tab[g] = IF \E b \in {a} : w.request[b].fd = g THEN ClosedEntry
                                    ELSE w.fds.tab[g]
  BY <1>4, <1>5, <1>6
<1>10. Answered(w, u, c, {a})
  BY <1>4, <1>5, <1>6, <1>7, <1>8, <1>9 DEF Answered
<1>11. \A v \in release_auth_client(u, c) : Sound(v, {})
  BY <1>2, <1>3, <1>10, ReleaseSound
<1> QED BY <1>11 DEF u, y, x, c

-----------------------------------------------------------------------------
(* New descriptors, and the listeners.                                     *)

(* The descriptor that comm_open or comm_accept hands out was closed.      *)
LEMMA CommOpenFree ==
  ASSUME NEW F \in Tables, CommOpen(F) # -1
  PROVE  CommOpen(F) \in Fds /\ ~F.tab[CommOpen(F)].open
<1> DEFINE S == Fds \ OpenFds(F)
<1>1. S # {} /\ CommOpen(F) = Min(S)
  BY DEF CommOpen, LowestClosed
<1>2. S \in SUBSET Nat
  BY FdsFinite
<1>3. \E x \in S : \A y \in S : x <= y
  BY <1>1, <1>2, LeastNat
<1>4. Min(S) \in S
  BY <1>3 DEF Min
<1>5. CommOpen(F) \in S
  BY <1>1, <1>4
<1> QED BY <1>5 DEF OpenFds

(* A closed descriptor has no owner, and nothing is registered on it.      *)
LEMMA Unowned ==
  ASSUME NEW w, NEW X, Sound(w, X), NEW f \in Fds, ~w.fds.tab[f].open
  PROVE  /\ \A d \in Clients : w.client[d].fd # f
         /\ \A a \in Requests : w.request[a].fd # f
         /\ \A l \in Listeners : w.listener[l].fd # f
         /\ w.fds.tab[f] = ClosedEntry
<1>1. OwnFds(w) /\ EntrySound(w, f, w.fds.tab[f])
  BY SoundParts
<1> QED BY <1>1, FdFacts DEF OwnFds, EntrySound

(* The registrations of an entry that was just opened.                     *)
LEMMA OpenEntryFields ==
  /\ OpenEntry.open /\ OpenEntry.read = NULL /\ OpenEntry.write = NULL
  /\ OpenEntry.connect = NULL /\ ~OpenEntry.timer /\ OpenEntry.flush = NULL
BY DEF OpenEntry, ClosedEntry

(* FdOf when one object gets a descriptor.                                 *)
LEMMA FdOfWith ==
  ASSUME NEW w, Typed(w), NEW x \in Objects, NEW f \in Fds \cup {-1}, NEW v,
         \A c \in Clients : v.client[c].fd = IF c = x THEN f ELSE w.client[c].fd,
         \A a \in Requests : v.request[a].fd = IF a = x THEN f ELSE w.request[a].fd,
         \A l \in Listeners : v.listener[l].fd = IF l = x THEN f ELSE w.listener[l].fd
  PROVE  FdOf(v) = [FdOf(w) EXCEPT ![x] = f]
<1> DEFINE k == [FdOf(w) EXCEPT ![x] = f]
<1>1. /\ FdOf(w) \in [Objects -> Fds \cup {-1}]
      /\ \A d \in Clients : FdOf(w)[d] = w.client[d].fd /\ d \in Objects
      /\ \A b \in Requests : FdOf(w)[b] = w.request[b].fd /\ b \in Objects
      /\ \A l \in Listeners : FdOf(w)[l] = w.listener[l].fd /\ l \in Objects
  BY FdOfObjects DEF Objects
<1>2. /\ k \in [Objects -> Fds \cup {-1}] /\ k[x] = f
      /\ \A z \in Objects : z # x => k[z] = FdOf(w)[z]
  BY <1>1
<1> HIDE DEF k
<1>3. \A c \in Clients : v.client[c].fd = k[c]
  BY <1>1, <1>2
<1>4. \A a \in Requests : v.request[a].fd = k[a]
  BY <1>1, <1>2
<1>5. \A l \in Listeners : v.listener[l].fd = k[l]
  BY <1>1, <1>2
<1>6. FdOf(v) = k
  BY <1>2, <1>3, <1>4, <1>5, FdOfIs
<1> QED BY <1>6 DEF k

(* The table with f opened for the object x.                               *)
LEMMA OpenedFor ==
  ASSUME NEW w, NEW X, Sound(w, X), NEW f \in Fds, ~w.fds.tab[f].open,
         NEW x \in Objects, FdOf(w)[x] = -1
  PROVE  /\ fd_open(w.fds, f) \in Tables
         /\ fd_open(w.fds, f).tab[f] = OpenEntry
         /\ \A g \in Fds : g # f => fd_open(w.fds, f).tab[g] = w.fds.tab[g]
         /\ FdSound(fd_open(w.fds, f), [FdOf(w) EXCEPT ![x] = f])
<1>1. Typed(w) /\ w.fds \in Tables /\ FdSound(w.fds, FdOf(w))
  BY SoundParts
<1>2. FdOf(w) \in [Objects -> Fds \cup {-1}] /\ w.fds.tab \in [Fds -> Entries]
  BY <1>1, FdOfObjects DEF Tables
<1>3. /\ fd_open(w.fds, f) \in Tables
      /\ fd_open(w.fds, f).tab = [w.fds.tab EXCEPT ![f] = OpenEntry]
      /\ FdSound(fd_open(w.fds, f), [FdOf(w) EXCEPT ![x] = f])
  BY <1>1, <1>2, FdOpen
<1> QED BY <1>2, <1>3

(* inetport: a listener is bound, and read for connections.                *)
LEMMA AddListenerSound ==
  ASSUME NEW w, Sound(w, {}), NEW l \in Listeners, w.listener[l].fd = -1,
         NEW f \in Fds, ~w.fds.tab[f].open, NEW k \in Kinds
  PROVE  Sound([w EXCEPT
            !.fds = SetRead(fd_open(w.fds, f), f, <<"accept_connection", l>>),
            !.listener[l] = [kind |-> k, fd |-> f, active |-> TRUE, refs |-> w.listener[l].refs]], {})
<1> DEFINE F == fd_open(w.fds, f)
           h == <<"accept_connection", l>>
           m == [kind |-> k, fd |-> f, active |-> TRUE, refs |-> w.listener[l].refs]
           v == [w EXCEPT !.fds = SetRead(F, f, h), !.listener[l] = m]
<1>0. /\ Typed(w) /\ IsWorld(w) /\ FdSound(w.fds, FdOf(w)) /\ w.fds \in Tables
      /\ w.listener \in [Listeners -> ListenerBlocks] /\ QueriesSound(w)
      /\ IsInjective(w.clients) /\ \A n \in Listeners : ListenerSound(w, n)
  BY SoundParts DEF Typed
<1>1. l \in Objects /\ FdOf(w)[l] = -1
  BY <1>0, FdOfObjects DEF Objects
<1>2. /\ F \in Tables /\ F.tab[f] = OpenEntry /\ \A g \in Fds : g # f => F.tab[g] = w.fds.tab[g]
      /\ FdSound(F, [FdOf(w) EXCEPT ![l] = f])
  BY <1>1, OpenedFor
<1>3. h \in Handles
  BY DEF Handles, Callbacks, Objects
<1>4. m \in ListenerBlocks /\ m.kind = k /\ m.fd = f /\ m.refs = w.listener[l].refs
  BY <1>0 DEF ListenerBlocks
<1>5. m.active
  OBVIOUS
<1> HIDE DEF F, m
<1>6. /\ IsWorld(v) /\ v.fds = SetRead(F, f, h) /\ v.client = w.client
      /\ v.unknown = w.unknown /\ v.count = w.count
      /\ v.clients = w.clients /\ v.exited = w.exited /\ v.request = w.request
      /\ v.polled = w.polled /\ v.queries = w.queries
      /\ v.listener = [w.listener EXCEPT ![l] = m]
  BY <1>0 DEF IsWorld
<1> HIDE DEF v
<1>7. Touched(F, v.fds, f)
  BY <1>2, <1>3, <1>6, SetReadTouches
<1>8. /\ v.fds.tab[f].read = h /\ v.fds.tab[f].write = F.tab[f].write
      /\ v.fds.tab[f].connect = F.tab[f].connect /\ v.fds.tab[f].flush = F.tab[f].flush
  BY <1>2, <1>3, <1>6, SetReadTouches
<1>9. v.fds.tab[f].timer = F.tab[f].timer
  BY <1>2, <1>3, <1>6, SetReadTouches
<1>10. v.listener \in [Listeners -> ListenerBlocks] /\ v.listener[l] = m
       /\ \A n \in Listeners : n # l => v.listener[n] = w.listener[n]
  BY <1>0, <1>4, <1>6
<1>11. v.fds \in Tables
  BY <1>7 DEF Touched
<1>12. Typed(v)
  BY <1>0, <1>6, <1>10, <1>11 DEF Typed
<1>13. FdOf(v) = [FdOf(w) EXCEPT ![l] = f]
  <2>1. \A c \in Clients : v.client[c].fd = IF c = l THEN f ELSE w.client[c].fd
    BY <1>6, Distinct
  <2>2. \A a \in Requests : v.request[a].fd = IF a = l THEN f ELSE w.request[a].fd
    BY <1>6, Distinct
  <2>3. \A n \in Listeners : v.listener[n].fd = IF n = l THEN f ELSE w.listener[n].fd
    BY <1>4, <1>10
  <2> QED BY <1>0, <1>1, <2>1, <2>2, <2>3, FdOfWith
<1>14. FdSound(v.fds, FdOf(v))
  <2>1. \A g \in Fds : v.fds.tab[g].open = F.tab[g].open
    BY <1>7 DEF Touched
  <2>2. v.fds.number = F.number /\ v.fds.highest = F.highest
    BY <1>7 DEF Touched
  <2> QED BY <1>2, <1>11, <1>13, <2>1, <2>2, FdSame
<1>15. /\ \A d \in Clients : w.client[d].fd # f
       /\ \A a \in Requests : w.request[a].fd # f
       /\ \A n \in Listeners : w.listener[n].fd # f
  BY Unowned
<1>16. \A d \in Clients : Released(v, d) <=> Released(w, d)
  BY <1>6 DEF Released
<1>17. Frame(w, v, {}, {}, {l}, {f})
  <2>1. \A g \in Fds \ {f} : v.fds.tab[g] = w.fds.tab[g]
    BY <1>2, <1>7 DEF Touched
  <2> QED BY <1>6, <1>10, <1>15, <1>16, <2>1 DEF Frame
<1>18. EntrySound(v, f, v.fds.tab[f])
  <2>1. ReadSound(v, f, h)
    BY <1>4, <1>10 DEF ReadSound
  <2>2. v.fds.tab[f].open
    <3>1. F.tab[f].open
      BY <1>2, OpenEntryFields
    <3> QED BY <1>7, <3>1 DEF Touched
  <2>3. ~v.fds.tab[f].timer
    BY <1>2, <1>9, OpenEntryFields
  <2> QED BY <1>2, <1>8, <2>1, <2>2, <2>3, OpenEntryFields DEF EntrySound
<1>19. v.fds.tab[f].write # TryConnect
  <2>1. NULL # TryConnect
    BY Distinct DEF Callbacks, TryConnect
  <2> QED BY <1>2, <1>8, <2>1, OpenEntryFields
<1>20. ListenerSound(v, l)
  <2>1. ReferencesOf(v, l) = ReferencesOf(w, l)
    BY <1>6 DEF ReferencesOf
  <2>2. w.listener[l].refs >= Cardinality(ReferencesOf(w, l))
    BY <1>0 DEF ListenerSound
  <2>3. m.kind # NULL /\ m.fd # -1
    BY <1>4, Distinct, FdFacts
  <2> QED BY <1>4, <1>5, <1>10, <2>1, <2>2, <2>3 DEF ListenerSound
<1>21. \A q \in v.queries : q.owner \in {} \cup {NULL} => QuerySound(v, q)
  <2> TAKE q \in v.queries
  <2> HAVE q.owner \in {} \cup {NULL}
  <2>1. QuerySound(w, q)
    BY <1>0, <1>6 DEF QueriesSound
  <2> QED BY <2>1, Distinct DEF QuerySound
<1>22. Patched(w, v, {}, {}, {}, {}, {l}, {f})
  BY <1>0, <1>6, <1>12, <1>14, <1>18, <1>19, <1>20, <1>21 DEF Patched
<1>23. {} \in SUBSET Objects /\ {} \in SUBSET Clients /\ {} \in SUBSET Requests
       /\ {l} \in SUBSET Listeners /\ {f} \in SUBSET Fds
  OBVIOUS
<1>24. Sound(v, {})
  BY <1>17, <1>22, <1>23, Local
<1> QED BY <1>24 DEF v, F, m

(* What close_listener leaves of a block.                                  *)
LEMMA CloseListenerBlock ==
  ASSUME NEW m \in ListenerBlocks
  PROVE  /\ close_listener(m) \in ListenerBlocks /\ close_listener(m).fd = -1
         /\ ~close_listener(m).active /\ close_listener(m).refs = m.refs
         /\ m.refs # 0 => close_listener(m).kind = m.kind
BY DEF close_listener, FreeListener, ListenerBlocks

(* close_listeners: every listener of the configuration is closed, and     *)
(* freed unless a connection still points to it.                           *)
LEMMA CloseListenersSound ==
  ASSUME NEW w, Sound(w, {})
  PROVE  LET set == {l \in Listeners : w.listener[l].kind # NULL}
         IN Sound([w EXCEPT
              !.fds = CloseAll(w.fds, {f \in {w.listener[l].fd : l \in set} : f >= 0}),
              !.listener = [l \in Listeners |-> IF l \in set THEN close_listener(w.listener[l])
                                                ELSE w.listener[l]]], {})
<1> DEFINE set == {l \in Listeners : w.listener[l].kind # NULL}
           S == {f \in {w.listener[l].fd : l \in set} : f >= 0}
           M == [l \in Listeners |-> IF l \in set THEN close_listener(w.listener[l])
                                     ELSE w.listener[l]]
           v == [w EXCEPT !.fds = CloseAll(w.fds, S), !.listener = M]
<1>0. /\ Typed(w) /\ IsWorld(w) /\ FdSound(w.fds, FdOf(w)) /\ w.fds \in Tables /\ OwnFds(w)
      /\ w.listener \in [Listeners -> ListenerBlocks] /\ QueriesSound(w)
      /\ IsInjective(w.clients) /\ \A n \in Listeners : ListenerSound(w, n)
  BY SoundParts DEF Typed
<1>1. \A l \in Listeners : w.listener[l].fd \in Fds \cup {-1} /\ w.listener[l] \in ListenerBlocks
  BY <1>0 DEF ListenerBlocks
<1>2. S \subseteq OpenFds(w.fds)
  BY <1>0, <1>1 DEF OwnFds, OpenFds
<1>3. \A l \in Listeners : w.listener[l].fd \in S <=> w.listener[l].fd # -1
  BY <1>0, <1>1, FdFacts DEF ListenerSound
<1>4. S \in SUBSET Fds
  BY <1>2 DEF OpenFds
<1>5. /\ \A d \in Clients : w.client[d].fd \notin S
      /\ \A a \in Requests : w.request[a].fd \notin S
  <2>1. -1 \notin S
    BY <1>4, FdFacts
  <2>2. \A f \in S : \E l \in Listeners : f = w.listener[l].fd
    OBVIOUS
  <2> HIDE DEF S
  <2> QED BY <1>0, <2>1, <2>2 DEF OwnFds
<1>6. /\ M \in [Listeners -> ListenerBlocks]
      /\ \A l \in Listeners : M[l].fd = -1
  <2>1. \A l \in set : close_listener(w.listener[l]) \in ListenerBlocks
                       /\ close_listener(w.listener[l]).fd = -1
    BY <1>1, CloseListenerBlock
  <2>2. \A l \in Listeners \ set : w.listener[l].fd = -1
    BY <1>0 DEF ListenerSound
  <2> QED BY <1>1, <2>1, <2>2
<1>7. \A l \in Listeners : ListenerSound(w, l) =>
        /\ M[l].refs = w.listener[l].refs /\ ~M[l].active
        /\ ReferencesOf(w, l) # {} => M[l].kind # NULL
  <2> TAKE l \in Listeners
  <2> HAVE ListenerSound(w, l)
  <2>1. CASE l \notin set
    <3>1. M[l] = w.listener[l] /\ w.listener[l].kind = NULL
      BY <2>1
    <3> QED BY <3>1 DEF ListenerSound
  <2>2. CASE l \in set
    <3>1. M[l] = close_listener(w.listener[l]) /\ w.listener[l].kind # NULL
      BY <2>2
    <3>2. /\ ~M[l].active /\ M[l].refs = w.listener[l].refs
          /\ w.listener[l].refs # 0 => M[l].kind = w.listener[l].kind
      BY <1>1, <3>1, CloseListenerBlock
    <3>3. w.listener[l].refs = 0 => ReferencesOf(w, l) = {}
      <4>1. IsFiniteSet(ReferencesOf(w, l)) /\ Cardinality(ReferencesOf(w, l)) \in Nat
        BY ReferencesFinite
      <4>2. w.listener[l].refs >= Cardinality(ReferencesOf(w, l)) /\ w.listener[l].refs \in Nat
        BY <1>1 DEF ListenerSound, ListenerBlocks
      <4>3. w.listener[l].refs = 0 => Cardinality(ReferencesOf(w, l)) = 0
        BY <4>1, <4>2
      <4> QED BY <4>1, <4>3, FS_EmptySet
    <3> QED BY <3>1, <3>2, <3>3
  <2> QED BY <2>1, <2>2
<1>8. FdOf(w) \in [Objects -> Fds \cup {-1}]
  BY <1>0, FdOfObjects
<1>9. /\ CloseAll(w.fds, S) \in Tables
      /\ CloseAll(w.fds, S).tab = [f \in Fds |-> IF f \in S THEN ClosedEntry ELSE w.fds.tab[f]]
      /\ FdSound(CloseAll(w.fds, S), Without(FdOf(w), S))
  <2> HIDE DEF S
  <2> QED BY <1>0, <1>2, <1>8, FdCloseAll
<1> HIDE DEF S, M, set
<1>10. /\ IsWorld(v) /\ v.fds = CloseAll(w.fds, S) /\ v.client = w.client
       /\ v.unknown = w.unknown /\ v.count = w.count
       /\ v.clients = w.clients /\ v.exited = w.exited /\ v.request = w.request
       /\ v.polled = w.polled /\ v.queries = w.queries /\ v.listener = M
  BY <1>0 DEF IsWorld
<1> HIDE DEF v
<1>11. Typed(v)
  BY <1>0, <1>6, <1>9, <1>10 DEF Typed
<1>12. FdOf(v) = Without(FdOf(w), S)
  <2> DEFINE k == Without(FdOf(w), S)
  <2>1. /\ k \in [Objects -> Fds \cup {-1}]
        /\ \A y \in Objects : k[y] = IF FdOf(w)[y] \in S THEN -1 ELSE FdOf(w)[y]
    BY <1>8 DEF Without
  <2>2. /\ \A d \in Clients : FdOf(w)[d] = w.client[d].fd /\ d \in Objects
        /\ \A b \in Requests : FdOf(w)[b] = w.request[b].fd /\ b \in Objects
        /\ \A l \in Listeners : FdOf(w)[l] = w.listener[l].fd /\ l \in Objects
    BY <1>0, FdOfObjects DEF Objects
  <2> HIDE DEF k
  <2>3. \A d \in Clients : v.client[d].fd = k[d]
    BY <1>5, <1>10, <2>1, <2>2
  <2>4. \A b \in Requests : v.request[b].fd = k[b]
    BY <1>5, <1>10, <2>1, <2>2
  <2>5. \A l \in Listeners : v.listener[l].fd = k[l]
    BY <1>3, <1>6, <1>10, <2>1, <2>2
  <2>6. FdOf(v) = k
    BY <2>1, <2>3, <2>4, <2>5, FdOfIs
  <2> QED BY <2>6 DEF k
<1>13. FdSound(v.fds, FdOf(v))
  BY <1>9, <1>10, <1>12
<1>14. \A d \in Clients : Released(v, d) <=> Released(w, d)
  BY <1>10 DEF Released
<1>15. Frame(w, v, {}, {}, Listeners, S)
  <2>1. \A g \in Fds \ S : v.fds.tab[g] = w.fds.tab[g]
    BY <1>9, <1>10
  <2>2. \A l \in Listeners : w.listener[l].fd \in S \cup {-1}
    BY <1>3
  <2> QED BY <1>5, <1>10, <1>14, <2>1, <2>2 DEF Frame
<1>16. \A l \in Listeners : ListenerSound(v, l)
  <2> TAKE l \in Listeners
  <2>1. ReferencesOf(v, l) = ReferencesOf(w, l)
    BY <1>10 DEF ReferencesOf
  <2>2. ListenerSound(w, l)
    BY <1>0
  <2>3. w.listener[l].refs >= Cardinality(ReferencesOf(w, l))
    BY <2>2 DEF ListenerSound
  <2> QED BY <1>6, <1>7, <1>10, <2>1, <2>2, <2>3 DEF ListenerSound
<1>17. \A q \in v.queries : q.owner \in {} \cup {NULL} => QuerySound(v, q)
  <2> TAKE q \in v.queries
  <2> HAVE q.owner \in {} \cup {NULL}
  <2>1. QuerySound(w, q)
    BY <1>0, <1>10 DEF QueriesSound
  <2> QED BY <2>1, Distinct DEF QuerySound
<1>18. \A g \in S : EntrySound(v, g, v.fds.tab[g]) /\ v.fds.tab[g].write # TryConnect
  <2> TAKE g \in S
  <2>1. v.fds.tab[g] = ClosedEntry
    BY <1>4, <1>9, <1>10
  <2>2. ClosedEntry.write # TryConnect
    BY Distinct DEF ClosedEntry, TryConnect, Callbacks
  <2> QED BY <2>1, <2>2, ClosedSound
<1>19. Patched(w, v, {}, {}, {}, {}, Listeners, S)
  BY <1>0, <1>10, <1>11, <1>13, <1>16, <1>17, <1>18 DEF Patched
<1>20. {} \in SUBSET Objects /\ {} \in SUBSET Clients /\ {} \in SUBSET Requests
       /\ Listeners \in SUBSET Listeners
  OBVIOUS
<1>21. Sound(v, {})
  BY <1>4, <1>15, <1>19, <1>20, Local
<1> QED BY <1>21 DEF v, S, M, set

-----------------------------------------------------------------------------
(* New clients.                                                            *)

(* Nothing refers to a block that is free.                                 *)
LEMMA FreeBlock ==
  ASSUME NEW w, Sound(w, {}), NEW c \in Clients, w.client[c].status = "free"
  PROVE  /\ w.client[c] = FreeClient /\ w.client[c].fd = -1 /\ w.client[c].listener = NULL
         /\ FdOf(w)[c] = -1 /\ ~Released(w, c) /\ c \notin w.unknown /\ c \notin w.exited
         /\ \A a \in Requests : w.request[a].client # c
         /\ \A q \in w.queries : q.owner # c
<1>0. /\ Typed(w) /\ QueriesSound(w) /\ ClientSound(w, {}, c)
      /\ \A a \in Requests : RequestSound(w, {}, a)
  BY SoundParts
<1>1. /\ w.client[c] = FreeClient /\ ~Released(w, c) /\ c \notin w.unknown /\ c \notin w.exited
  BY <1>0 DEF ClientSound
<1>2. w.client[c].fd = -1 /\ w.client[c].listener = NULL /\ w.client[c].dns = "null"
  BY <1>1 DEF FreeClient
<1>3. \A a \in Requests : w.request[a].client # c
  BY <1>0, Distinct DEF RequestSound
<1>4. \A q \in w.queries : q.owner # c
  BY <1>0, <1>2 DEF QueriesSound, Queried
<1>5. FdOf(w)[c] = -1
  BY <1>0, <1>2, FdOfObjects
<1> QED BY <1>1, <1>2, <1>3, <1>4, <1>5

(* What make_client leaves, with the descriptor of the new client opened.  *)
Made(w, m, c, f) ==
  /\ IsWorld(m) /\ m.fds = fd_open(w.fds, f) /\ m.client = [w.client EXCEPT ![c] = NewClient]
  /\ m.unknown = w.unknown \cup {c} /\ m.count = w.count + 1
  /\ m.clients = w.clients /\ m.exited = w.exited /\ m.request = w.request
  /\ m.polled = w.polled /\ m.queries = w.queries /\ m.listener = w.listener

(* make_client does that.                                                  *)
LEMMA MadeClient ==
  ASSUME NEW w, IsWorld(w), NEW c, NEW f
  PROVE  Made(w, make_client([w EXCEPT !.fds = fd_open(w.fds, f)], c), c, f)
<1> DEFINE x == [w EXCEPT !.fds = fd_open(w.fds, f)]
           m == make_client(x, c)
<1>1. SameBlocks(w, x) /\ x.fds = fd_open(w.fds, f)
  BY NewTable
<1> HIDE DEF x
<1>2. IsWorld(x)
  BY <1>1 DEF SameBlocks
<1>3. /\ IsWorld(m) /\ m.fds = x.fds /\ m.client = [x.client EXCEPT ![c] = NewClient]
      /\ m.unknown = x.unknown \cup {c} /\ m.count = x.count + 1
      /\ m.clients = x.clients /\ m.exited = x.exited /\ m.request = x.request
      /\ m.polled = x.polled /\ m.queries = x.queries /\ m.listener = x.listener
  BY <1>2 DEF make_client, IsWorld
<1> HIDE DEF m
<1>4. Made(w, m, c, f)
  BY <1>1, <1>3 DEF Made, SameBlocks
<1> QED BY <1>4 DEF m, x

(* k is w with f opened for c, and more references of listeners.           *)
Fresh(w, k, c, f) ==
  /\ IsWorld(k) /\ k.fds = fd_open(w.fds, f)
  /\ k.client[c].fd = f /\ \A d \in Clients : d # c => k.client[d] = w.client[d]
  /\ k.unknown = w.unknown \cup {c} /\ k.count \in Int /\ k.clients = w.clients
  /\ k.exited = w.exited /\ k.request = w.request /\ k.polled = w.polled /\ k.queries = w.queries
  /\ k.listener \in [Listeners -> ListenerBlocks]
  /\ \A l \in Listeners : /\ k.listener[l].fd = w.listener[l].fd
                          /\ k.listener[l].kind = w.listener[l].kind
                          /\ k.listener[l].active <=> w.listener[l].active
                          /\ k.listener[l].refs >= w.listener[l].refs

(* A client that got its descriptor is discarded: what is left is what was *)
(* there, but for Count.unknown and the references of its listener.        *)
LEMMA DiscardSound ==
  ASSUME NEW w, Sound(w, {}), NEW c \in Clients, w.client[c].status = "free",
         NEW f \in Fds, ~w.fds.tab[f].open, NEW k, Fresh(w, k, c, f)
  PROVE  Sound(discard_client(k, c), {})
<1> DEFINE x == [k EXCEPT !.unknown = k.unknown \ {c}]
           S == {g \in {x.client[b].fd : b \in {c}} : g > 2}
           C == [d \in Clients |-> IF d \in {c} THEN FreeClient ELSE x.client[d]]
           v == [x EXCEPT !.fds = CloseAll(x.fds, S), !.client = C]
<1>k. /\ IsWorld(k) /\ k.fds = fd_open(w.fds, f)
      /\ k.client[c].fd = f /\ \A d \in Clients : d # c => k.client[d] = w.client[d]
      /\ k.unknown = w.unknown \cup {c} /\ k.count \in Int /\ k.clients = w.clients
      /\ k.exited = w.exited /\ k.request = w.request /\ k.polled = w.polled
      /\ k.queries = w.queries
  BY DEF Fresh
<1>l. /\ k.listener \in [Listeners -> ListenerBlocks]
      /\ \A n \in Listeners : /\ k.listener[n].fd = w.listener[n].fd
                              /\ k.listener[n].kind = w.listener[n].kind
  BY DEF Fresh
<1>r. \A n \in Listeners : k.listener[n].refs >= w.listener[n].refs
  BY DEF Fresh
<1>a. \A n \in Listeners : k.listener[n].active <=> w.listener[n].active
  BY DEF Fresh
<1>0. /\ Typed(w) /\ IsWorld(w) /\ FdSound(w.fds, FdOf(w)) /\ w.fds \in Tables /\ OwnFds(w)
      /\ w.listener \in [Listeners -> ListenerBlocks] /\ QueriesSound(w)
      /\ w.client \in [Clients -> ClientBlocks]
      /\ IsInjective(w.clients) /\ \A n \in Listeners : ListenerSound(w, n)
  BY SoundParts DEF Typed
<1>1. /\ w.client[c] = FreeClient /\ w.client[c].fd = -1 /\ FdOf(w)[c] = -1 /\ c \notin w.unknown
  BY FreeBlock
<1>2. discard_client(k, c) = v
  BY DEF discard_client, free_client
<1>3. /\ IsWorld(x) /\ x.fds = k.fds /\ x.client = k.client
      /\ x.unknown = k.unknown \ {c} /\ x.count = k.count
      /\ x.clients = k.clients /\ x.exited = k.exited /\ x.request = k.request
      /\ x.polled = k.polled /\ x.queries = k.queries /\ x.listener = k.listener
  BY <1>k DEF IsWorld
<1> HIDE DEF x
<1>4. S = {f}
  BY <1>k, <1>3, FdFacts
<1>5. C = w.client
  BY <1>k, <1>0, <1>1, <1>3
<1> HIDE DEF S, C
<1>6. /\ IsWorld(v) /\ v.fds = CloseAll(x.fds, S) /\ v.client = C
      /\ v.unknown = x.unknown /\ v.count = x.count
      /\ v.clients = x.clients /\ v.exited = x.exited /\ v.request = x.request
      /\ v.polled = x.polled /\ v.queries = x.queries /\ v.listener = x.listener
  BY <1>3 DEF IsWorld
<1> HIDE DEF v
<1>7. /\ v.fds = CloseAll(fd_open(w.fds, f), {f}) /\ v.client = w.client
      /\ v.unknown = w.unknown /\ v.count = k.count
      /\ v.clients = w.clients /\ v.exited = w.exited /\ v.request = w.request
      /\ v.polled = w.polled /\ v.queries = w.queries /\ v.listener = k.listener
  BY <1>k, <1>1, <1>3, <1>4, <1>5, <1>6
<1>8. /\ v.fds \in Tables /\ FdSound(v.fds, FdOf(w))
      /\ \A g \in Fds : v.fds.tab[g] = w.fds.tab[g]
  <2> DEFINE F == fd_open(w.fds, f)
             h == [FdOf(w) EXCEPT ![c] = f]
  <2>0. c \in Objects /\ FdOf(w) \in [Objects -> Fds \cup {-1}]
    BY <1>0, FdOfObjects DEF Objects
  <2>1. /\ F \in Tables /\ F.tab[f] = OpenEntry /\ \A g \in Fds : g # f => F.tab[g] = w.fds.tab[g]
        /\ FdSound(F, h)
    BY <1>1, <2>0, OpenedFor
  <2>2. h \in [Objects -> Fds \cup {-1}]
    BY <2>0
  <2>3. Without(h, {f}) = FdOf(w)
    <3>1. \A y \in Objects : FdOf(w)[y] # f
      <4>1. \A y \in Objects : FdOf(w)[y] # -1 => w.fds.tab[FdOf(w)[y]].open
        BY <1>0 DEF FdSound
      <4> QED BY <4>1, FdFacts
    <3> QED BY <1>1, <2>0, <3>1 DEF Without
  <2> HIDE DEF F, h
  <2>4. {f} \subseteq OpenFds(F)
    BY <2>1, OpenEntryFields DEF OpenFds
  <2>5. /\ CloseAll(F, {f}) \in Tables
        /\ CloseAll(F, {f}).tab = [g \in Fds |-> IF g \in {f} THEN ClosedEntry ELSE F.tab[g]]
        /\ FdSound(CloseAll(F, {f}), Without(h, {f}))
    BY <2>1, <2>2, <2>4, FdCloseAll
  <2>6. v.fds = CloseAll(F, {f})
    BY <1>7 DEF F
  <2>7. w.fds.tab[f] = ClosedEntry
    BY Unowned
  <2>8. \A g \in Fds : v.fds.tab[g] = w.fds.tab[g]
    BY <2>1, <2>5, <2>6, <2>7
  <2>9. v.fds \in Tables /\ FdSound(v.fds, FdOf(w))
    BY <2>3, <2>5, <2>6
  <2> QED BY <2>8, <2>9
<1>9. Typed(v)
  BY <1>k, <1>l, <1>0, <1>6, <1>7, <1>8 DEF Typed
<1>10. FdOf(v) = FdOf(w)
  <2>1. \A l \in Listeners : v.listener[l].fd = w.listener[l].fd
    BY <1>l, <1>7
  <2> QED BY <1>7, <2>1 DEF FdOf, Objects
<1>11. \A d \in Clients : Released(v, d) <=> Released(w, d)
  BY <1>7 DEF Released
<1>12. Frame(w, v, {}, {}, Listeners, {})
  BY <1>l, <1>7, <1>8, <1>11 DEF Frame
<1>13. \A l \in Listeners : ListenerSound(v, l)
  <2> TAKE l \in Listeners
  <2>1. ReferencesOf(v, l) = ReferencesOf(w, l)
    BY <1>7 DEF ReferencesOf
  <2>2. ListenerSound(w, l) /\ Cardinality(ReferencesOf(w, l)) \in Nat
    BY <1>0, ReferencesFinite
  <2>3. w.listener[l].refs \in Nat /\ k.listener[l].refs \in Nat
    BY <1>l, <1>0 DEF ListenerBlocks
  <2>4. k.listener[l].refs >= Cardinality(ReferencesOf(w, l))
    BY <1>r, <2>2, <2>3 DEF ListenerSound
  <2>5. v.listener[l].active <=> w.listener[l].active
    BY <1>a, <1>7
  <2> QED BY <1>l, <1>7, <2>1, <2>2, <2>4, <2>5 DEF ListenerSound
<1>14. \A q \in v.queries : q.owner \in {} \cup {NULL} => QuerySound(v, q)
  <2> TAKE q \in v.queries
  <2> HAVE q.owner \in {} \cup {NULL}
  <2>1. QuerySound(w, q)
    BY <1>0, <1>7 DEF QueriesSound
  <2> QED BY <2>1, Distinct DEF QuerySound
<1>15. Patched(w, v, {}, {}, {}, {}, Listeners, {})
  BY <1>0, <1>7, <1>8, <1>9, <1>10, <1>13, <1>14 DEF Patched
<1>16. {} \in SUBSET Objects /\ {} \in SUBSET Clients /\ {} \in SUBSET Requests
       /\ Listeners \in SUBSET Listeners /\ {} \in SUBSET Fds
  OBVIOUS
<1>17. Sound(v, {})
  BY <1>12, <1>15, <1>16, Local
<1> QED BY <1>2, <1>17

(* v is w with c made from a free block and given the descriptor f.        *)
Takes(w, v, c, f) ==
  /\ IsWorld(v) /\ Touched(fd_open(w.fds, f), v.fds, f)
  /\ v.client \in [Clients -> ClientBlocks] /\ v.client[c].fd = f /\ v.client[c].dns = "null"
  /\ ~v.client[c].dead /\ \A d \in Clients : d # c => v.client[d] = w.client[d]
  /\ v.unknown = w.unknown \cup {c} /\ v.count \in Int /\ v.exited = w.exited
  /\ v.request = w.request /\ v.polled = w.polled /\ v.queries = w.queries
  /\ v.listener \in [Listeners -> ListenerBlocks]
  /\ \A l \in Listeners : v.listener[l].fd = w.listener[l].fd

(* It is sound if what is said of c, of its descriptor and of its listener *)
(* is.                                                                     *)
Settled(w, v, Y, c, f, L) ==
  /\ v.clients \in Seq(Clients) /\ IsInjective(v.clients)
  /\ \A d \in Clients : d # c => (Released(v, d) <=> Released(w, d))
  /\ EntrySound(v, f, v.fds.tab[f]) /\ v.fds.tab[f].write # TryConnect
  /\ ClientSound(v, Y, c) /\ (c \notin Y => Armed(v, c))
  /\ \A l \in L : ListenerSound(v, l)
  /\ \A l \in Listeners \ L : v.listener[l] = w.listener[l] /\ v.client[c].listener # l

(* A world with a new client is sound, up to the client itself when it     *)
(* still has to be armed.                                                  *)
LEMMA TakesSound ==
  ASSUME NEW w, Sound(w, {}), NEW c \in Clients, w.client[c].status = "free",
         NEW f \in Fds, ~w.fds.tab[f].open, NEW v, Takes(w, v, c, f),
         NEW Y \in SUBSET {c}, NEW L \in SUBSET Listeners, Settled(w, v, Y, c, f, L)
  PROVE  Sound(v, Y)
<1> DEFINE F == fd_open(w.fds, f)
<1>k. /\ IsWorld(v) /\ Touched(F, v.fds, f)
      /\ v.client \in [Clients -> ClientBlocks] /\ v.client[c].fd = f /\ v.client[c].dns = "null"
      /\ \A d \in Clients : d # c => v.client[d] = w.client[d]
      /\ v.unknown = w.unknown \cup {c} /\ v.count \in Int /\ v.exited = w.exited
      /\ v.request = w.request /\ v.polled = w.polled /\ v.queries = w.queries
      /\ v.listener \in [Listeners -> ListenerBlocks]
      /\ \A l \in Listeners : v.listener[l].fd = w.listener[l].fd
  BY DEF Takes
<1>s. /\ v.clients \in Seq(Clients) /\ IsInjective(v.clients)
      /\ \A d \in Clients : d # c => (Released(v, d) <=> Released(w, d))
      /\ EntrySound(v, f, v.fds.tab[f]) /\ v.fds.tab[f].write # TryConnect
      /\ ClientSound(v, Y, c) /\ (c \notin Y => Armed(v, c))
      /\ \A l \in L : ListenerSound(v, l)
      /\ \A l \in Listeners \ L : v.listener[l] = w.listener[l] /\ v.client[c].listener # l
  BY DEF Settled
<1>0. /\ Typed(w) /\ IsWorld(w) /\ FdSound(w.fds, FdOf(w)) /\ w.fds \in Tables /\ OwnFds(w)
      /\ QueriesSound(w) /\ w.client \in [Clients -> ClientBlocks]
  BY SoundParts DEF Typed
<1>1. /\ w.client[c].fd = -1 /\ w.client[c].listener = NULL /\ FdOf(w)[c] = -1
      /\ \A a \in Requests : w.request[a].client # c
      /\ \A q \in w.queries : q.owner # c
      /\ c \notin w.exited
  BY FreeBlock
<1>2. c \in Objects
  BY DEF Objects
<1>3. /\ F \in Tables /\ F.tab[f] = OpenEntry /\ \A g \in Fds : g # f => F.tab[g] = w.fds.tab[g]
      /\ FdSound(F, [FdOf(w) EXCEPT ![c] = f])
  <2> HIDE <1>k, <1>s
  <2> QED BY <1>1, <1>2, OpenedFor
<1> HIDE DEF F
<1>4. v.fds \in Tables
  BY <1>k DEF Touched
<1>5. Typed(v)
  BY <1>k, <1>s, <1>0, <1>4 DEF Typed
<1>6. FdOf(v) = [FdOf(w) EXCEPT ![c] = f]
  <2>1. \A d \in Clients : v.client[d].fd = IF d = c THEN f ELSE w.client[d].fd
    BY <1>k
  <2>2. \A a \in Requests : v.request[a].fd = IF a = c THEN f ELSE w.request[a].fd
    BY <1>k, Distinct
  <2>3. \A n \in Listeners : v.listener[n].fd = IF n = c THEN f ELSE w.listener[n].fd
    BY <1>k, Distinct
  <2> QED BY <1>0, <1>2, <2>1, <2>2, <2>3, FdOfWith
<1>7. FdSound(v.fds, FdOf(v))
  <2>1. \A g \in Fds : v.fds.tab[g].open = F.tab[g].open
    BY <1>k DEF Touched
  <2>2. v.fds.number = F.number /\ v.fds.highest = F.highest
    BY <1>k DEF Touched
  <2> QED BY <1>3, <1>4, <1>6, <2>1, <2>2, FdSame
<1>8. /\ \A d \in Clients : w.client[d].fd # f
      /\ \A a \in Requests : w.request[a].fd # f
      /\ \A n \in Listeners : w.listener[n].fd # f
  BY Unowned
<1>9. Frame(w, v, {c}, {}, L, {f})
  <2>1. \A g \in Fds \ {f} : v.fds.tab[g] = w.fds.tab[g]
    BY <1>k, <1>3 DEF Touched
  <2>2. \A d \in Clients \ {c} :
       /\ v.client[d] = w.client[d] /\ (Released(v, d) <=> Released(w, d))
       /\ (d \in v.unknown <=> d \in w.unknown) /\ (d \in v.exited <=> d \in w.exited)
       /\ w.client[d].fd \notin {f}
    BY <1>k, <1>s, <1>8
  <2>3. \A a \in Requests :
       /\ v.request[a] = w.request[a] /\ (a \in v.polled <=> a \in w.polled)
       /\ w.request[a].fd \notin {f} /\ w.request[a].client \notin {c}
    BY <1>k, <1>1, <1>8
  <2>4. \A l \in Listeners \ L :
       /\ v.listener[l] = w.listener[l] /\ w.listener[l].fd \notin {f}
       /\ \A d \in {c} : v.client[d].listener = l <=> w.client[d].listener = l
    BY <1>s, <1>1, <1>8, Distinct
  <2>5. \A l \in L : v.listener[l].fd = w.listener[l].fd
    BY <1>k
  <2>6. v.queries = w.queries /\ w.client[c].fd \in {f} \cup {-1}
    BY <1>k, <1>1
  <2> QED BY <2>1, <2>2, <2>3, <2>4, <2>5, <2>6 DEF Frame
<1>10. \A q \in v.queries : q.owner \in {c} \cup {NULL} => QuerySound(v, q)
  <2> TAKE q \in v.queries
  <2> HAVE q.owner \in {c} \cup {NULL}
  <2>1. QuerySound(w, q) /\ q.owner = NULL
    BY <1>k, <1>0, <1>1 DEF QueriesSound
  <2> QED BY <2>1, Distinct DEF QuerySound
<1>11. \A q \in v.queries : q.owner # c
  BY <1>k, <1>1
<1>12. ~Queried(v, c) /\ v.client[c].dns # "pending"
  BY <1>k, <1>11 DEF Queried
<1>13. Patched(w, v, {}, Y, {c}, {}, L, {f})
  BY <1>s, <1>5, <1>7, <1>10, <1>11, <1>12 DEF Patched
<1>14. {} \in SUBSET Objects /\ Y \in SUBSET Objects /\ {c} \in SUBSET Clients
       /\ {} \in SUBSET Requests /\ {f} \in SUBSET Fds
  BY <1>2
<1> QED BY <1>9, <1>13, <1>14, Local

(* The fields of the block of a new client.                                *)
LEMMA NewClientIs ==
  /\ NewClient \in ClientBlocks /\ NewClient.status = "unknown" /\ NewClient.fd = -1
  /\ NewClient.listener = NULL /\ NewClient.dns = "null" /\ ~NewClient.dead
<1>1. /\ FreeClient \in ClientBlocks /\ FreeClient.fd = -1 /\ FreeClient.listener = NULL
      /\ FreeClient.dns = "null" /\ ~FreeClient.dead
  BY DEF FreeClient, ClientBlocks, Statuses
<1> QED BY <1>1 DEF NewClient, ClientBlocks, Statuses

(* A descriptor and a listener change nothing else of a block.             *)
AttachedTo(M, E, c, f, l) ==
  /\ E \in [Clients -> ClientBlocks] /\ E[c].fd = f /\ E[c].listener = l
  /\ E[c].status = M[c].status /\ E[c].dns = M[c].dns /\ ~E[c].dead
  /\ \A d \in Clients : d # c => E[d] = M[d]

(* A block that gets both is attached to them.                             *)
LEMMA Attached ==
  ASSUME NEW M \in [Clients -> ClientBlocks], NEW c \in Clients, NEW f \in Fds,
         NEW l \in Listeners \cup {NULL}, NEW E, E = [M EXCEPT ![c].fd = f, ![c].listener = l],
         ~M[c].dead
  PROVE  AttachedTo(M, E, c, f, l)
<1>1. ~E[c].dead
  BY DEF ClientBlocks
<1>2. /\ E \in [Clients -> ClientBlocks] /\ E[c].fd = f /\ E[c].listener = l
      /\ E[c].status = M[c].status /\ E[c].dns = M[c].dns
      /\ \A d \in Clients : d # c => E[d] = M[d]
  BY DEF ClientBlocks
<1> QED BY <1>1, <1>2 DEF AttachedTo

(* The block of the new client, once it has its descriptor.                *)
NewBlockOf(C, E, c, f, l) ==
  /\ E \in [Clients -> ClientBlocks] /\ E[c].fd = f /\ E[c].listener = l
  /\ E[c].status = "unknown" /\ E[c].dns = "null" /\ ~E[c].dead
  /\ \A d \in Clients : d # c => E[d] = C[d]

(* It has that block whatever its number had before.                       *)
LEMMA NewBlock ==
  ASSUME NEW C \in [Clients -> ClientBlocks], NEW c \in Clients, NEW f \in Fds,
         NEW l \in Listeners \cup {NULL}
  PROVE  NewBlockOf(C, [[C EXCEPT ![c] = NewClient] EXCEPT ![c].fd = f, ![c].listener = l],
                    c, f, l)
<1> DEFINE M == [C EXCEPT ![c] = NewClient]
           E == [M EXCEPT ![c].fd = f, ![c].listener = l]
<1>1. /\ M \in [Clients -> ClientBlocks] /\ M[c] = NewClient
      /\ \A d \in Clients : d # c => M[d] = C[d]
  BY NewClientIs
<1> HIDE DEF M
<1>2. ~M[c].dead /\ M[c].status = "unknown" /\ M[c].dns = "null"
  BY <1>1, NewClientIs
<1>3. /\ E \in [Clients -> ClientBlocks] /\ E[c].fd = f /\ E[c].listener = l
      /\ E[c].status = M[c].status /\ E[c].dns = M[c].dns /\ ~E[c].dead
      /\ \A d \in Clients : d # c => E[d] = M[d]
  <2>1. E = [M EXCEPT ![c].fd = f, ![c].listener = l]
    OBVIOUS
  <2> HIDE DEF E
  <2>2. AttachedTo(M, E, c, f, l)
    BY <1>1, <1>2, <2>1, Attached, Zenon
  <2> QED BY <2>2 DEF AttachedTo
<1> HIDE DEF E
<1>4. NewBlockOf(C, E, c, f, l)
  BY <1>1, <1>2, <1>3 DEF NewBlockOf
<1> QED BY <1>4 DEF E, M

(* One reference more changes nothing else of a listener.                  *)
MoreRefs(M, l) ==
  LET E == [M EXCEPT ![l].refs = M[l].refs + 1]
  IN /\ E \in [Listeners -> ListenerBlocks] /\ E[l].refs = M[l].refs + 1
     /\ \A n \in Listeners : n # l => E[n] = M[n]
     /\ \A n \in Listeners : E[n].fd = M[n].fd /\ E[n].kind = M[n].kind
     /\ \A n \in Listeners : E[n].active <=> M[n].active
     /\ \A n \in Listeners : E[n].refs >= M[n].refs

(* The reference of a new connection.                                      *)
LEMMA MoreReferences ==
  ASSUME NEW M \in [Listeners -> ListenerBlocks], NEW l \in Listeners
  PROVE  MoreRefs(M, l)
<1> DEFINE r == M[l].refs + 1
           E == [M EXCEPT ![l].refs = r]
<1>1. M[l].refs \in Nat /\ r \in Nat /\ r >= M[l].refs
  BY DEF ListenerBlocks
<1> HIDE DEF r
<1>2. /\ E \in [Listeners -> ListenerBlocks] /\ E[l].refs = r
      /\ \A n \in Listeners : n # l => E[n] = M[n]
      /\ \A n \in Listeners : E[n].fd = M[n].fd /\ E[n].kind = M[n].kind
  BY <1>1 DEF ListenerBlocks
<1>3. \A n \in Listeners : E[n].active <=> M[n].active
  BY <1>1 DEF ListenerBlocks
<1>4. \A n \in Listeners : M[n].refs \in Nat
  BY DEF ListenerBlocks
<1> HIDE DEF E
<1>5. \A n \in Listeners : E[n].refs >= M[n].refs
  BY <1>1, <1>2, <1>4
<1> QED BY <1>2, <1>3, <1>5 DEF MoreRefs, E, r

(* accept_connection and add_connection.                                   *)
LEMMA AcceptSound ==
  ASSUME NEW w, Sound(w, {}), NEW l \in Listeners, w.listener[l].fd # -1,
         NEW c \in Clients, w.client[c].status = "free", NEW f \in Fds, ~w.fds.tab[f].open,
         NEW v \in add_connection([w EXCEPT !.fds = fd_open(w.fds, f)], l, c, f)
  PROVE  Sound(v, {})
<1> DEFINE x == [w EXCEPT !.fds = fd_open(w.fds, f)]
           m == make_client(x, c)
           k == [m EXCEPT !.client[c].fd = f, !.client[c].listener = l,
                          !.listener[l].refs = m.listener[l].refs + 1]
           h == <<"comm_tryall_callback", c>>
           u == [k EXCEPT !.fds = SetWrite(k.fds, f, h)]
<1>0. /\ Typed(w) /\ IsWorld(w) /\ w.fds \in Tables
      /\ w.client \in [Clients -> ClientBlocks] /\ w.count \in Int
      /\ w.clients \in Seq(Clients) /\ IsInjective(w.clients)
      /\ w.listener \in [Listeners -> ListenerBlocks] /\ ListenerSound(w, l)
  BY SoundParts DEF Typed
<1>1. v = u \/ v = discard_client(k, c)
  BY DEF add_connection
<1>2. Made(w, m, c, f)
  BY <1>0, MadeClient
<1> HIDE DEF x, m
<1>3. /\ IsWorld(m) /\ m.fds = fd_open(w.fds, f) /\ m.client = [w.client EXCEPT ![c] = NewClient]
      /\ m.unknown = w.unknown \cup {c} /\ m.count = w.count + 1
      /\ m.clients = w.clients /\ m.exited = w.exited /\ m.request = w.request
      /\ m.polled = w.polled /\ m.queries = w.queries /\ m.listener = w.listener
  BY <1>2 DEF Made
<1>4. /\ IsWorld(k) /\ k.fds = m.fds
      /\ k.client = [m.client EXCEPT ![c].fd = f, ![c].listener = l]
      /\ k.unknown = m.unknown /\ k.count = m.count
      /\ k.clients = m.clients /\ k.exited = m.exited /\ k.request = m.request
      /\ k.polled = m.polled /\ k.queries = m.queries
      /\ k.listener = [m.listener EXCEPT ![l].refs = m.listener[l].refs + 1]
  BY <1>3 DEF IsWorld
<1> HIDE DEF k
<1>5. k.client = [[w.client EXCEPT ![c] = NewClient] EXCEPT ![c].fd = f, ![c].listener = l]
  BY <1>3, <1>4
<1>6. /\ k.client \in [Clients -> ClientBlocks] /\ k.client[c].fd = f /\ k.client[c].listener = l
      /\ k.client[c].status = "unknown" /\ k.client[c].dns = "null" /\ ~k.client[c].dead
      /\ \A d \in Clients : d # c => k.client[d] = w.client[d]
  <2>1. NewBlockOf(w.client, [[w.client EXCEPT ![c] = NewClient] EXCEPT ![c].fd = f,
                                                                        ![c].listener = l], c, f, l)
    BY <1>0, NewBlock
  <2> QED BY <1>5, <2>1 DEF NewBlockOf
<1>7. k.listener = [w.listener EXCEPT ![l].refs = w.listener[l].refs + 1]
  BY <1>3, <1>4
<1>8. /\ k.listener \in [Listeners -> ListenerBlocks] /\ k.listener[l].refs = w.listener[l].refs + 1
      /\ \A i \in Listeners : i # l => k.listener[i] = w.listener[i]
      /\ \A i \in Listeners : k.listener[i].fd = w.listener[i].fd /\ k.listener[i].kind = w.listener[i].kind
      /\ \A i \in Listeners : k.listener[i].active <=> w.listener[i].active
      /\ \A i \in Listeners : k.listener[i].refs >= w.listener[i].refs
  <2>1. MoreRefs(w.listener, l)
    BY <1>0, MoreReferences
  <2> QED BY <1>0, <1>7, <2>1 DEF MoreRefs
<1>9. CASE v = discard_client(k, c)
  <2>1. Fresh(w, k, c, f)
    BY <1>0, <1>3, <1>4, <1>6, <1>8 DEF Fresh
  <2> QED BY <1>9, <2>1, DiscardSound
<1>10. CASE v = u
  <2>1. SameBlocks(k, u) /\ u.fds = SetWrite(k.fds, f, h)
    BY <1>4, NewTable
  <2>2. h \in Handles
    BY DEF Handles, Callbacks, Objects
  <2> HIDE DEF u
  <2>3. /\ w.client[c].fd = -1 /\ w.client[c].listener = NULL /\ FdOf(w)[c] = -1 /\ ~Released(w, c)
        /\ c \notin w.exited
    BY FreeBlock
  <2>4. c \in Objects
    BY DEF Objects
  <2>5. k.fds \in Tables /\ k.fds.tab[f] = OpenEntry /\ k.fds = fd_open(w.fds, f)
    <3>1. fd_open(w.fds, f) \in Tables /\ fd_open(w.fds, f).tab[f] = OpenEntry
      BY <2>3, <2>4, OpenedFor
    <3> QED BY <1>3, <1>4, <3>1
  <2>6. Touched(k.fds, u.fds, f)
    BY <2>1, <2>2, <2>5, SetWriteTouches
  <2>7. /\ u.fds.tab[f].write = h /\ u.fds.tab[f].read = NULL
        /\ u.fds.tab[f].connect = NULL /\ u.fds.tab[f].flush = NULL
    BY <2>1, <2>2, <2>5, SetWriteTouches, OpenEntryFields
  <2>8. u.fds.tab[f].timer = k.fds.tab[f].timer
    BY <2>1, <2>2, <2>5, SetWriteTouches
  <2>9. ~u.fds.tab[f].timer
    BY <2>5, <2>8, OpenEntryFields
  <2>10. u.fds.tab[f].open
    <3>1. k.fds.tab[f].open
      BY <2>5, OpenEntryFields
    <3> QED BY <2>6, <3>1 DEF Touched
  <2>11. /\ IsWorld(u) /\ u.client = k.client /\ u.unknown = k.unknown /\ u.count = k.count
         /\ u.clients = k.clients /\ u.exited = k.exited /\ u.request = k.request
         /\ u.polled = k.polled /\ u.queries = k.queries /\ u.listener = k.listener
    BY <2>1 DEF SameBlocks
  <2>12. Takes(w, u, c, f)
    BY <1>0, <1>3, <1>4, <1>6, <1>8, <2>5, <2>6, <2>11 DEF Takes
  <2>13. \A d \in Clients : Released(u, d) <=> Released(w, d)
    BY <1>3, <1>4, <2>11 DEF Released
  <2>14. h # TryConnect
    BY Distinct DEF Callbacks, Objects, TryConnect
  <2>15. EntrySound(u, f, u.fds.tab[f])
    <3>1. WriteSound(u, f, h)
      BY <1>6, <2>3, <2>7, <2>11, <2>13 DEF WriteSound
    <3> QED BY <2>7, <2>9, <2>10, <3>1 DEF EntrySound
  <2>16. TryAllSet(u, c)
    BY <1>6, <2>7, <2>11 DEF TryAllSet
  <2>17. ClientSound(u, {}, c)
    <3>1. u.client[c].status = "unknown" /\ u.client[c].fd = f /\ f # -1 /\ ~u.client[c].dead
      BY <1>6, <2>11, FdFacts
    <3>2. c \in u.unknown /\ c \notin u.exited /\ ~Released(u, c)
      BY <1>3, <1>4, <2>3, <2>11, <2>13
    <3> QED BY <3>1, <3>2 DEF ClientSound, Live
  <2>18. Armed(u, c)
    BY <1>6, <2>3, <2>11, <2>13, <2>16 DEF Armed
  <2>19. ListenerSound(u, l)
    <3>1. ReferencesOf(u, l) = ReferencesOf(w, l) \cup {c}
      BY <1>6, <2>11 DEF ReferencesOf
    <3>2. c \notin ReferencesOf(w, l)
      BY <2>3, Distinct DEF ReferencesOf
    <3>3. IsFiniteSet(ReferencesOf(w, l)) /\ Cardinality(ReferencesOf(w, l)) \in Nat
      BY ReferencesFinite
    <3>4. Cardinality(ReferencesOf(u, l)) = Cardinality(ReferencesOf(w, l)) + 1
      BY <3>1, <3>2, <3>3, FS_AddElement
    <3>5. w.listener[l].refs \in Nat /\ w.listener[l].refs >= Cardinality(ReferencesOf(w, l))
      BY <1>0 DEF ListenerBlocks, ListenerSound
    <3>6. u.listener[l].refs >= Cardinality(ReferencesOf(u, l))
      BY <1>8, <2>11, <3>3, <3>4, <3>5
    <3>7. u.listener[l].kind # NULL /\ u.listener[l].fd # -1
      BY <1>0, <1>8, <2>11 DEF ListenerSound
    <3>8. u.listener[l].active
      <4>1. w.listener[l].active
        BY <1>0 DEF ListenerSound
      <4> QED BY <1>8, <2>11, <4>1
    <3> QED BY <3>6, <3>7, <3>8 DEF ListenerSound
  <2>20. \A i \in Listeners \ {l} : u.listener[i] = w.listener[i] /\ u.client[c].listener # i
    BY <1>6, <1>8, <2>11
  <2>21. u.clients = w.clients
    BY <1>3, <1>4, <2>11
  <2>22. Settled(w, u, {}, c, f, {l})
    BY <1>0, <2>7, <2>13, <2>14, <2>15, <2>17, <2>18, <2>19, <2>20, <2>21 DEF Settled
  <2>23. {} \in SUBSET {c} /\ {l} \in SUBSET Listeners
    OBVIOUS
  <2>24. Sound(u, {})
    BY <2>12, <2>22, <2>23, TakesSound
  <2> QED BY <1>10, <2>24
<1> QED BY <1>1, <1>9, <1>10

(* The fields of the block of a client that this server connects.          *)
LEMMA DialBlock ==
  ASSUME NEW C \in [Clients -> ClientBlocks], NEW c \in Clients, NEW f \in Fds,
         NEW M, M = [C EXCEPT ![c] = NewClient], NEW E, E = [M EXCEPT ![c].fd = f]
  PROVE  /\ E \in [Clients -> ClientBlocks] /\ E[c].fd = f /\ E[c].listener = NULL
         /\ E[c].dns = "null" /\ ~E[c].dead /\ \A d \in Clients : d # c => E[d] = C[d]
<1>1. /\ M \in [Clients -> ClientBlocks] /\ M[c] = NewClient
      /\ \A d \in Clients : d # c => M[d] = C[d]
  BY NewClientIs
<1>2. M[c].listener = NULL /\ M[c].dns = "null" /\ ~M[c].dead
  BY <1>1, NewClientIs
<1>3. /\ E \in [Clients -> ClientBlocks] /\ E[c].fd = f /\ E[c].listener = M[c].listener
      /\ E[c].dns = M[c].dns /\ \A d \in Clients : d # c => E[d] = M[d]
  BY <1>1 DEF ClientBlocks
<1>4. ~E[c].dead
  BY <1>1, <1>2 DEF ClientBlocks
<1> QED BY <1>1, <1>2, <1>3, <1>4

(* serv_connect.                                                           *)
LEMMA ServConnectOpens ==
  ASSUME NEW w, Sound(w, {}), NEW c \in Clients, w.client[c].status = "free",
         NEW f \in Fds, ~w.fds.tab[f].open
  PROVE  LET m == make_client([w EXCEPT !.fds = fd_open(w.fds, f)], c)
             k == [m EXCEPT !.client[c].fd = f]
             u == add_client_to_list([k EXCEPT !.client[c].status = "connecting"], c)
         IN /\ Sound(discard_client(k, c), {})
            /\ Sound(u, {c}) /\ Dialler(u, c, f) /\ u.fds.tab[f].write = NULL
<1> DEFINE x == [w EXCEPT !.fds = fd_open(w.fds, f)]
           m == make_client(x, c)
           k == [m EXCEPT !.client[c].fd = f]
           z == [k EXCEPT !.client[c].status = "connecting"]
           u == add_client_to_list(z, c)
<1>0. /\ Typed(w) /\ IsWorld(w) /\ w.fds \in Tables
      /\ w.client \in [Clients -> ClientBlocks] /\ w.count \in Int
      /\ w.clients \in Seq(Clients) /\ IsInjective(w.clients)
      /\ w.listener \in [Listeners -> ListenerBlocks]
  BY SoundParts DEF Typed
<1>2. Made(w, m, c, f)
  BY <1>0, MadeClient
<1> HIDE DEF x, m
<1>3. /\ IsWorld(m) /\ m.fds = fd_open(w.fds, f) /\ m.client = [w.client EXCEPT ![c] = NewClient]
      /\ m.unknown = w.unknown \cup {c} /\ m.count = w.count + 1
      /\ m.clients = w.clients /\ m.exited = w.exited /\ m.request = w.request
      /\ m.polled = w.polled /\ m.queries = w.queries /\ m.listener = w.listener
  BY <1>2 DEF Made
<1>4. /\ IsWorld(k) /\ k.fds = m.fds /\ k.client = [m.client EXCEPT ![c].fd = f]
      /\ k.unknown = m.unknown /\ k.count = m.count
      /\ k.clients = m.clients /\ k.exited = m.exited /\ k.request = m.request
      /\ k.polled = m.polled /\ k.queries = m.queries /\ k.listener = m.listener
  BY <1>3 DEF IsWorld
<1> HIDE DEF k
<1>5. /\ IsWorld(z) /\ z.fds = k.fds /\ z.client = [k.client EXCEPT ![c].status = "connecting"]
      /\ z.unknown = k.unknown /\ z.count = k.count
      /\ z.clients = k.clients /\ z.exited = k.exited /\ z.request = k.request
      /\ z.polled = k.polled /\ z.queries = k.queries /\ z.listener = k.listener
  BY <1>4 DEF IsWorld
<1> HIDE DEF z
<1>6. /\ IsWorld(u) /\ u.fds = z.fds /\ u.client = z.client
      /\ u.unknown = z.unknown /\ u.count = z.count
      /\ u.clients = <<c>> \o z.clients /\ u.exited = z.exited /\ u.request = z.request
      /\ u.polled = z.polled /\ u.queries = z.queries /\ u.listener = z.listener
  BY <1>5 DEF IsWorld, add_client_to_list
<1> HIDE DEF u
<1>7. /\ k.client[c].fd = f /\ \A d \in Clients : d # c => k.client[d] = w.client[d]
      /\ u.client \in [Clients -> ClientBlocks] /\ u.client[c].fd = f
      /\ u.client[c].listener = NULL /\ u.client[c].status = "connecting"
      /\ u.client[c].dns = "null" /\ ~u.client[c].dead
      /\ \A d \in Clients : d # c => u.client[d] = w.client[d]
  <2>1. /\ k.client \in [Clients -> ClientBlocks] /\ k.client[c].fd = f /\ k.client[c].listener = NULL
        /\ k.client[c].dns = "null" /\ ~k.client[c].dead
        /\ \A d \in Clients : d # c => k.client[d] = w.client[d]
    BY <1>0, <1>3, <1>4, DialBlock
  <2>2. u.client = [k.client EXCEPT ![c].status = "connecting"]
    BY <1>5, <1>6
  <2>3. "connecting" \in Statuses
    BY DEF Statuses
  <2>4. /\ u.client \in [Clients -> ClientBlocks] /\ u.client[c].status = "connecting"
        /\ u.client[c].fd = k.client[c].fd /\ u.client[c].listener = k.client[c].listener
        /\ u.client[c].dns = k.client[c].dns /\ u.client[c].dead = k.client[c].dead
        /\ \A d \in Clients : d # c => u.client[d] = k.client[d]
    BY <2>1, <2>2, <2>3, BlockStatus
  <2>5. ~u.client[c].dead
    BY <2>1, <2>4
  <2> QED BY <2>1, <2>4, <2>5
<1>8. /\ u.fds = fd_open(w.fds, f) /\ u.unknown = w.unknown \cup {c} /\ u.count = w.count + 1
      /\ u.clients = <<c>> \o w.clients /\ u.exited = w.exited /\ u.request = w.request
      /\ u.polled = w.polled /\ u.queries = w.queries /\ u.listener = w.listener
  BY <1>3, <1>4, <1>5, <1>6
<1>9. Sound(discard_client(k, c), {})
  <2>1. Fresh(w, k, c, f)
    <3>1. k.listener = w.listener /\ k.count \in Int
      BY <1>0, <1>3, <1>4
    <3>2. \A l \in Listeners : w.listener[l].refs >= w.listener[l].refs
      BY <1>0 DEF ListenerBlocks
    <3> QED BY <1>0, <1>3, <1>4, <1>7, <3>1, <3>2 DEF Fresh
  <2> QED BY <2>1, DiscardSound
<1>10. /\ w.client[c].fd = -1 /\ FdOf(w)[c] = -1 /\ ~Released(w, c) /\ c \notin w.exited
  BY FreeBlock
<1>11. c \in Objects
  BY DEF Objects
<1>12. fd_open(w.fds, f) \in Tables /\ fd_open(w.fds, f).tab[f] = OpenEntry
  BY <1>10, <1>11, OpenedFor
<1>13. /\ u.fds.tab[f].open /\ u.fds.tab[f].read = NULL /\ u.fds.tab[f].write = NULL
       /\ u.fds.tab[f].connect = NULL /\ u.fds.tab[f].flush = NULL
  BY <1>8, <1>12, OpenEntryFields
<1>14. ~u.fds.tab[f].timer
  BY <1>8, <1>12, OpenEntryFields
<1>15. /\ u.clients \in Seq(Clients) /\ IsInjective(u.clients)
       /\ ToSet(u.clients) = ToSet(w.clients) \cup {c}
  BY <1>0, <1>8, <1>10, LongerList DEF Released
<1>16. Takes(w, u, c, f)
  <2>1. Touched(fd_open(w.fds, f), u.fds, f)
    BY <1>8, <1>12 DEF Touched
  <2> QED BY <1>0, <1>6, <1>7, <1>8, <2>1 DEF Takes
<1>17. Released(u, c) /\ \A d \in Clients : d # c => (Released(u, d) <=> Released(w, d))
  BY <1>15 DEF Released
<1>18. EntrySound(u, f, u.fds.tab[f])
  BY <1>13, <1>14 DEF EntrySound
<1>19. u.fds.tab[f].write # TryConnect
  BY <1>13, Distinct DEF TryConnect, Callbacks, Objects
<1>20. ClientSound(u, {c}, c)
  BY <1>7, <1>8, <1>10, <1>17, FdFacts DEF ClientSound, Live
<1>21. Settled(w, u, {c}, c, f, {})
  <2>1. \A l \in Listeners \ {} : u.listener[l] = w.listener[l] /\ u.client[c].listener # l
    BY <1>7, <1>8, Distinct
  <2> QED BY <1>15, <1>17, <1>18, <1>19, <1>20, <2>1 DEF Settled
<1>22. {c} \in SUBSET {c} /\ {} \in SUBSET Listeners
  OBVIOUS
<1>23. Sound(u, {c})
  BY <1>16, <1>21, <1>22, TakesSound
<1>24. Dialler(u, c, f)
  BY <1>7 DEF Dialler
<1> QED BY <1>9, <1>13, <1>23, <1>24 DEF x, m, k, z, u

-----------------------------------------------------------------------------
(* The start of the lookups: v is w with the query q for the client c,     *)
(* which had none, the requests B made for it and the descriptors N opened *)
(* for them.                                                               *)
Asks(w, v, c, q, B, N) ==
  /\ IsWorld(v) /\ v.client = [w.client EXCEPT ![c].dns = "pending"]
  /\ v.unknown = w.unknown /\ v.count = w.count /\ v.clients = w.clients
  /\ v.exited = w.exited /\ v.listener = w.listener
  /\ v.queries = w.queries \cup {q} /\ q \in QueryBlocks /\ q.owner = c /\ QuerySound(v, q)
  /\ v.request \in [Requests -> RequestBlocks] /\ v.polled \in SUBSET Requests
  /\ \A b \in Requests \ B : v.request[b] = w.request[b] /\ (b \in v.polled <=> b \in w.polled)
  /\ \A b \in B : w.request[b] = FreeRequest /\ v.request[b].client = c /\ RequestSound(v, {}, b)
  /\ v.fds \in Tables /\ FdSound(v.fds, FdOf(v))
  /\ \A g \in Fds \ N : v.fds.tab[g] = w.fds.tab[g]
  /\ \A g \in N : ~w.fds.tab[g].open /\ v.fds.tab[g] = OpenEntry

(* A client whose lookups have started waits for them.                     *)
LEMMA AsksSound ==
  ASSUME NEW w, NEW c \in Clients, Sound(w, {c}), w.client[c].status = "unknown",
         ~Released(w, c), ~TryAllSet(w, c), ~Asked(w, c), ~Queried(w, c),
         NEW q, NEW B \in SUBSET Requests, NEW N \in SUBSET Fds, NEW v, Asks(w, v, c, q, B, N)
  PROVE  Sound(v, {})
<1> DEFINE f == w.client[c].fd
           G == {f} \cup N
<1>k. /\ IsWorld(v) /\ v.client = [w.client EXCEPT ![c].dns = "pending"]
      /\ v.unknown = w.unknown /\ v.count = w.count /\ v.clients = w.clients
      /\ v.exited = w.exited /\ v.listener = w.listener
      /\ v.queries = w.queries \cup {q} /\ q \in QueryBlocks /\ q.owner = c /\ QuerySound(v, q)
      /\ v.request \in [Requests -> RequestBlocks] /\ v.polled \in SUBSET Requests
      /\ v.fds \in Tables /\ FdSound(v.fds, FdOf(v))
  BY DEF Asks
<1>b. /\ \A b \in Requests \ B : v.request[b] = w.request[b] /\ (b \in v.polled <=> b \in w.polled)
      /\ \A b \in B : w.request[b] = FreeRequest /\ v.request[b].client = c /\ RequestSound(v, {}, b)
  BY DEF Asks
<1>g. /\ \A g \in Fds \ N : v.fds.tab[g] = w.fds.tab[g]
      /\ \A g \in N : ~w.fds.tab[g].open /\ v.fds.tab[g] = OpenEntry
  BY DEF Asks
<1>0. /\ Typed(w) /\ QueriesSound(w) /\ IsInjective(w.clients) /\ ClientSound(w, {c}, c)
      /\ w.client \in [Clients -> ClientBlocks] /\ w.queries \in SUBSET QueryBlocks
  BY SoundParts
<1>1. w.client[c].status \in Live /\ {c} \in SUBSET Objects /\ {} \in SUBSET Objects
      /\ {c} \in SUBSET Clients /\ {} \in SUBSET Listeners
  BY DEF Live, Objects
<1>2. /\ f \in Fds /\ f # -1 /\ w.fds.tab[f].open /\ FdOf(w)[c] = f
      /\ \A d \in Clients : w.client[d].fd = f => d = c
      /\ \A a \in Requests : w.request[a].fd # f
      /\ \A l \in Listeners : w.listener[l].fd # f
  BY <1>1, OwnFd
<1>3. /\ w.fds.tab[f].read = NULL /\ w.fds.tab[f].connect = NULL
      /\ w.fds.tab[f].write = NULL \/ (w.fds.tab[f].write = TryConnect /\ ByName)
      /\ w.fds.tab[f].flush = NULL
  BY <1>1, WaitingEntry
<1>4. ~w.fds.tab[f].timer
  BY <1>1, WaitingEntry
<1> HIDE DEF f
<1>5. f \notin N /\ v.fds.tab[f] = w.fds.tab[f]
  BY <1>g, <1>2
<1>6. /\ v.client \in [Clients -> ClientBlocks] /\ v.client[c].dns = "pending"
      /\ v.client[c].status = "unknown" /\ v.client[c].fd = f
      /\ v.client[c].listener = w.client[c].listener
      /\ \A d \in Clients : d # c => v.client[d] = w.client[d]
  BY <1>k, <1>0, DnsSet DEF f
<1>7. v.client[c].dead <=> w.client[c].dead
  BY <1>k, <1>0, DnsSet
<1>8. Typed(v)
  BY <1>k, <1>0, <1>6 DEF Typed
<1>9. \A d \in Clients : Released(v, d) <=> Released(w, d)
  BY <1>k DEF Released
<1>10. c \notin w.exited /\ c \in w.unknown /\ ~w.client[c].dead
  BY <1>0 DEF ClientSound
<1>11. \A g \in N : /\ \A d \in Clients : w.client[d].fd # g
                    /\ \A a \in Requests : w.request[a].fd # g
                    /\ \A l \in Listeners : w.listener[l].fd # g
  BY <1>g, Unowned
<1>12. \A r \in w.queries : r.owner # c
  BY DEF Queried
<1>13. Frame(w, v, {c}, B, {}, G)
  <2>1. \A d \in Clients \ {c} :
       /\ v.client[d] = w.client[d] /\ (Released(v, d) <=> Released(w, d))
       /\ (d \in v.unknown <=> d \in w.unknown) /\ (d \in v.exited <=> d \in w.exited)
       /\ w.client[d].fd \notin G
    BY <1>k, <1>2, <1>6, <1>9, <1>11
  <2>2. \A b \in Requests \ B :
       /\ v.request[b] = w.request[b] /\ (b \in v.polled <=> b \in w.polled)
       /\ w.request[b].fd \notin G /\ w.request[b].client \notin {c}
    BY <1>b, <1>2, <1>11 DEF Asked
  <2>3. \A b \in B : /\ w.request[b].client \in {c} \cup {NULL} /\ v.request[b].client \in {c} \cup {NULL}
                     /\ w.request[b].fd \in G \cup {-1}
    BY <1>b DEF FreeRequest
  <2>4. \A l \in Listeners :
       /\ v.listener[l] = w.listener[l] /\ w.listener[l].fd \notin G
       /\ \A d \in {c} : v.client[d].listener = l <=> w.client[d].listener = l
    BY <1>k, <1>2, <1>6, <1>11
  <2>5. \A g \in Fds \ G : /\ v.fds.tab[g] = w.fds.tab[g]
                           /\ DnsQuery(g) \in w.queries => DnsQuery(g) \in v.queries
    BY <1>k, <1>g
  <2>6. \A r : r.owner \in Clients \ {c} => (r \in v.queries <=> r \in w.queries)
    BY <1>k
  <2>7. w.client[c].fd \in G
    BY DEF f
  <2> QED BY <2>1, <2>2, <2>3, <2>4, <2>5, <2>6, <2>7 DEF Frame
<1>14. \A g \in G : /\ EntrySound(v, g, v.fds.tab[g])
                    /\ v.fds.tab[g].write = TryConnect /\ v.fds.tab[g].connect = NULL => Excused(v, {}, g)
  <2>1. EntrySound(v, f, v.fds.tab[f])
    BY <1>2, <1>3, <1>4, <1>5 DEF EntrySound, WriteSound
  <2>2. v.fds.tab[f].write = TryConnect => Excused(v, {}, f)
    <3>1. NULL # TryConnect
      BY Distinct DEF Callbacks, TryConnect
    <3> QED BY <1>3, <1>5, <3>1 DEF Excused
  <2>3. ASSUME NEW g \in N
        PROVE  EntrySound(v, g, v.fds.tab[g]) /\ v.fds.tab[g].write # TryConnect
    <3>1. NULL # TryConnect
      BY Distinct DEF Callbacks, TryConnect
    <3> QED BY <1>g, <3>1, OpenEntryFields DEF EntrySound
  <2> QED BY <2>1, <2>2, <2>3
<1>15. \A r \in v.queries : r.owner \in {c} \cup {NULL} => QuerySound(v, r)
  <2> TAKE r \in v.queries
  <2> HAVE r.owner \in {c} \cup {NULL}
  <2>1. CASE r = q
    BY <1>k, <2>1
  <2>2. CASE r # q
    <3>1. QuerySound(w, r) /\ r.owner = NULL
      BY <1>k, <1>0, <1>12, <2>2 DEF QueriesSound
    <3> QED BY <3>1, Distinct DEF QuerySound
  <2> QED BY <2>1, <2>2
<1>16. \A r, s \in v.queries : r.owner = s.owner /\ r.owner \in {c} => r = s
  BY <1>k, <1>12
<1>17. \A d \in {c} : Queried(v, d) <=> v.client[d].dns = "pending" /\ d \notin v.exited
  BY <1>k, <1>6, <1>10 DEF Queried
<1>18. ClientSound(v, {}, c)
  BY <1>k, <1>0, <1>2, <1>6, <1>7, <1>9, <1>10 DEF ClientSound, Live, f
<1>19. Armed(v, c)
  BY <1>k, <1>6, <1>9 DEF Armed, Queried
<1>20. Patched(w, v, {c}, {}, {c}, B, {}, G)
  <2>1. \A x \in {c} \ {} : x \in {c} \cup B \cup Listeners /\ FdOf(w)[x] \in G \cup {-1}
    BY <1>2
  <2>2. IsInjective(v.clients)
    BY <1>k, <1>0
  <2>3. \A b \in B : RequestSound(v, {}, b)
    BY <1>b
  <2>4. \A d \in {c} : ClientSound(v, {}, d) /\ (d \notin {} => Armed(v, d))
    BY <1>18, <1>19
  <2> QED BY <1>k, <1>8, <1>14, <1>15, <1>16, <1>17, <2>1, <2>2, <2>3, <2>4 DEF Patched
<1>21. G \in SUBSET Fds
  BY <1>2
<1> HIDE DEF G
<1> QED BY <1>1, <1>13, <1>20, <1>21, Local

(* start_lookup.                                                           *)
LEMMA StartLookupSound ==
  ASSUME NEW w, NEW c \in Clients, Sound(w, {c}), w.client[c].status = "unknown",
         ~Released(w, c), ~TryAllSet(w, c), ~Asked(w, c), ~Queried(w, c),
         NEW v \in start_lookup(w, c)
  PROVE  Sound(v, {})
<1> DEFINE q == [callback |-> "lookup_dns_callback", ptr |-> c, owner |-> c]
<1>0. /\ Typed(w) /\ IsWorld(w) /\ FdSound(w.fds, FdOf(w)) /\ w.fds \in Tables
      /\ w.client \in [Clients -> ClientBlocks]
      /\ w.request \in [Requests -> RequestBlocks] /\ w.polled \in SUBSET Requests
  BY SoundParts DEF Typed
<1>1. /\ IsWorld(v) /\ v.client = [w.client EXCEPT ![c].dns = "pending"]
      /\ v.unknown = w.unknown /\ v.count = w.count /\ v.clients = w.clients
      /\ v.exited = w.exited /\ v.listener = w.listener /\ v.queries = w.queries \cup {q}
      /\ v.request = w.request /\ v.polled = w.polled /\ v.fds = w.fds
  BY <1>0 DEF start_lookup, IsWorld
<1>2. /\ v.client[c].status = "unknown" /\ v.client[c].fd = w.client[c].fd
      /\ \A d \in Clients : v.client[d].fd = w.client[d].fd
  BY <1>0, <1>1, DnsSet
<1>3. FdOf(v) = FdOf(w)
  BY <1>1, <1>2 DEF FdOf
<1>4. ~Released(v, c) /\ ~Asked(v, c) /\ ~TryAllSet(v, c)
  BY <1>1, <1>2 DEF Released, Asked, TryAllSet
<1>5. /\ q \in QueryBlocks /\ q.owner = c /\ q.ptr = c /\ q.callback = "lookup_dns_callback"
  BY DEF QueryBlocks
<1> HIDE DEF q
<1>6. QuerySound(v, q)
  BY <1>2, <1>4, <1>5 DEF QuerySound
<1>7. Asks(w, v, c, q, {}, {})
  BY <1>0, <1>1, <1>3, <1>5, <1>6 DEF Asks
<1>8. {} \in SUBSET Requests /\ {} \in SUBSET Fds
  OBVIOUS
<1> QED BY <1>7, <1>8, AsksSound

-----------------------------------------------------------------------------
(* start_auth links the request after the ident lookup was started: the    *)
(* worlds are those of a lookup started for a request that is linked.      *)
Poll(w, a) == [w EXCEPT !.polled = @ \cup {a}]

(* The effect of the linking.                                              *)
LEMMA PollIs ==
  ASSUME NEW w, IsWorld(w), NEW a
  PROVE  LET v == Poll(w, a)
         IN /\ IsWorld(v) /\ v.fds = w.fds /\ v.client = w.client
            /\ v.unknown = w.unknown /\ v.count = w.count
            /\ v.clients = w.clients /\ v.exited = w.exited /\ v.request = w.request
            /\ v.polled = w.polled \cup {a} /\ v.queries = w.queries /\ v.listener = w.listener
BY DEF Poll, IsWorld

(* The linking commutes with a change of the table ...                     *)
LEMMA PollFds ==
  ASSUME NEW w, IsWorld(w), NEW a, NEW F
  PROVE  Poll([w EXCEPT !.fds = F], a) = [Poll(w, a) EXCEPT !.fds = F]
BY DEF Poll, IsWorld

(* ... and of the requests.                                                *)
LEMMA PollRequest ==
  ASSUME NEW w, IsWorld(w), NEW a, NEW R
  PROVE  Poll([w EXCEPT !.request = R], a) = [Poll(w, a) EXCEPT !.request = R]
BY DEF Poll, IsWorld

(* w is a world in which the request a waits for an answer of the resolver.*)
WithDns(w, a) ==
  IsWorld(w) /\ w.request \in [Requests -> RequestBlocks] /\ w.request[a].dns

(* An ident lookup ends.                                                   *)
LEMMA IdentEnded ==
  ASSUME NEW w, IsWorld(w), NEW a
  PROVE  [CloseIdent(w, a) EXCEPT !.request[a].ident = "no"] =
           [w EXCEPT !.fds = IF w.request[a].fd >= 0 THEN fd_close(w.fds, w.request[a].fd) ELSE w.fds,
                     !.request = [[w.request EXCEPT ![a].fd = -1] EXCEPT ![a].ident = "no"]]
BY DEF CloseIdent, IsWorld

(* It commutes with the end of an ident lookup ...                         *)
LEMMA PollIdentDone ==
  ASSUME NEW w, NEW a \in Requests, WithDns(w, a), NEW v \in IdentDone(w, a)
  PROVE  Poll(v, a) \in IdentDone(Poll(w, a), a)
<1> DEFINE F == IF w.request[a].fd >= 0 THEN fd_close(w.fds, w.request[a].fd) ELSE w.fds
           R == [w.request EXCEPT ![a].fd = -1]
           S == [R EXCEPT ![a].ident = "no"]
           u == [CloseIdent(w, a) EXCEPT !.request[a].ident = "no"]
           y == Poll(w, a)
           x == [CloseIdent(y, a) EXCEPT !.request[a].ident = "no"]
<1>0. IsWorld(w) /\ w.request \in [Requests -> RequestBlocks] /\ w.request[a].dns
  BY DEF WithDns
<1>1. S[a].dns
  <2>1. R \in [Requests -> RequestBlocks] /\ R[a].dns
    BY <1>0 DEF RequestBlocks
  <2> HIDE DEF R
  <2> QED BY <2>1 DEF RequestBlocks
<1> HIDE DEF S
<1>2. u = [w EXCEPT !.fds = F, !.request = S]
  BY <1>0 DEF CloseIdent, IsWorld, S
<1>3. y.fds = w.fds /\ y.request = w.request /\ IsWorld(y)
  BY <1>0, PollIs
<1>4. x = [y EXCEPT !.fds = F, !.request = S]
  <2> HIDE DEF y
  <2>1. F = IF y.request[a].fd >= 0 THEN fd_close(y.fds, y.request[a].fd) ELSE y.fds
    BY <1>3
  <2>2. S = [[y.request EXCEPT ![a].fd = -1] EXCEPT ![a].ident = "no"]
    BY <1>3 DEF S
  <2>3. x = [y EXCEPT !.fds = IF y.request[a].fd >= 0 THEN fd_close(y.fds, y.request[a].fd) ELSE y.fds,
                      !.request = [[y.request EXCEPT ![a].fd = -1] EXCEPT ![a].ident = "no"]]
    BY <1>3, IdentEnded
  <2> HIDE DEF x, F
  <2> QED BY <2>1, <2>2, <2>3
<1> HIDE DEF F, u, x
<1>5. x = Poll(u, a)
  BY <1>0, <1>2, <1>4 DEF Poll, IsWorld
<1>6. u.request = S /\ x.request = S
  <2> HIDE DEF y
  <2> QED BY <1>0, <1>2, <1>3, <1>4 DEF IsWorld
<1>7. FinishAuth(u, a) = {u} /\ FinishAuth(x, a) = {x}
  BY <1>1, <1>6 DEF FinishAuth
<1>8. v \in FinishAuth(u, a) /\ IdentDone(y, a) = FinishAuth(x, a)
  BY DEF IdentDone, u, x
<1> QED BY <1>5, <1>7, <1>8

(* ... with read_auth_reply ...                                            *)
LEMMA PollReadReply ==
  ASSUME NEW w, NEW a \in Requests, WithDns(w, a), NEW v \in read_auth_reply(w, a)
  PROVE  Poll(v, a) \in read_auth_reply(Poll(w, a), a)
<1> DEFINE F == SetRead(w.fds, w.request[a].fd, <<"read_auth_reply", a>>)
           y == Poll(w, a)
<1>0. IsWorld(w)
  BY DEF WithDns
<1>1. y.fds = w.fds /\ y.request = w.request
  BY <1>0, PollIs
<1>2. v = [w EXCEPT !.fds = F] \/ v \in IdentDone(w, a)
  BY DEF read_auth_reply
<1>3. read_auth_reply(y, a) = {[y EXCEPT !.fds = F]} \cup IdentDone(y, a)
  <2> HIDE DEF y
  <2> QED BY <1>1 DEF read_auth_reply
<1> HIDE DEF F
<1>4. CASE v = [w EXCEPT !.fds = F]
  <2>1. Poll(v, a) = [y EXCEPT !.fds = F]
    BY <1>0, <1>4, PollFds
  <2> QED BY <1>3, <2>1
<1>5. CASE v \in IdentDone(w, a)
  BY <1>3, <1>5, PollIdentDone
<1> QED BY <1>2, <1>4, <1>5

(* ... with auth_connect_callback ...                                      *)
LEMMA PollAuthConnect ==
  ASSUME NEW w, NEW a \in Requests, WithDns(w, a), NEW ok \in BOOLEAN,
         NEW v \in auth_connect_callback(w, a, ok)
  PROVE  Poll(v, a) \in auth_connect_callback(Poll(w, a), a, ok)
<1> DEFINE u == [w EXCEPT !.request[a].ident = "pending"]
           y == Poll(w, a)
           x == [y EXCEPT !.request[a].ident = "pending"]
           R == [w.request EXCEPT ![a].ident = "pending"]
<1>0. IsWorld(w) /\ w.request \in [Requests -> RequestBlocks] /\ w.request[a].dns
  BY DEF WithDns
<1>1. y.request = w.request /\ IsWorld(y)
  BY <1>0, PollIs
<1>2. R \in [Requests -> RequestBlocks] /\ R[a].dns
  BY <1>0 DEF RequestBlocks
<1>3. u = [w EXCEPT !.request = R]
  BY <1>0 DEF IsWorld
<1>4. x = [y EXCEPT !.request = R]
  <2> HIDE DEF y
  <2> QED BY <1>1 DEF IsWorld
<1>5. CASE v \in IdentDone(w, a)
  <2>1. Poll(v, a) \in IdentDone(y, a)
    BY <1>5, PollIdentDone
  <2> QED BY <2>1 DEF auth_connect_callback
<1>6. CASE ok /\ v \in read_auth_reply(u, a)
  <2> HIDE DEF R, u, x
  <2>1. IsWorld(u) /\ u.request = R
    BY <1>0, <1>3 DEF IsWorld
  <2>2. WithDns(u, a)
    BY <1>2, <2>1 DEF WithDns
  <2>3. Poll(u, a) = x
    BY <1>0, <1>3, <1>4, PollRequest
  <2>4. Poll(v, a) \in read_auth_reply(x, a)
    BY <1>6, <2>2, <2>3, PollReadReply
  <2> QED BY <1>6, <2>4 DEF auth_connect_callback, x
<1> QED BY <1>5, <1>6 DEF auth_connect_callback

(* ... with comm_connect_callback ...                                      *)
LEMMA PollConnectCallback ==
  ASSUME NEW w, NEW a \in Requests, WithDns(w, a), NEW f, NEW ok \in BOOLEAN,
         w.fds.tab[f].connect = <<"auth_connect_callback", a>>,
         NEW v \in comm_connect_callback(w, f, ok)
  PROVE  Poll(v, a) \in comm_connect_callback(Poll(w, a), f, ok)
<1> DEFINE F == SetTimer(SetConnect(w.fds, f, NULL), f, FALSE)
           u == [w EXCEPT !.fds = F]
           y == Poll(w, a)
<1>0. IsWorld(w) /\ w.request \in [Requests -> RequestBlocks] /\ w.request[a].dns
  BY DEF WithDns
<1>1. y.fds = w.fds /\ IsWorld(y)
  BY <1>0, PollIs
<1>2. <<"auth_connect_callback", a>> # NULL
  BY Distinct DEF Callbacks, Objects
<1>3. v \in auth_connect_callback(u, a, ok)
  BY <1>2 DEF comm_connect_callback
<1>4. comm_connect_callback(y, f, ok) = auth_connect_callback([y EXCEPT !.fds = F], a, ok)
  <2> DEFINE h == y.fds.tab[f].connect
             k == [y EXCEPT !.fds = SetTimer(SetConnect(y.fds, f, NULL), f, FALSE)]
  <2> HIDE DEF y
  <2>1. h = <<"auth_connect_callback", a>>
    BY <1>1
  <2>2. h # NULL /\ h[1] = "auth_connect_callback" /\ h[2] = a
    BY <1>2, <2>1
  <2>3. comm_connect_callback(y, f, ok) = auth_connect_callback(k, h[2], ok)
    BY <2>2 DEF comm_connect_callback
  <2>4. k = [y EXCEPT !.fds = F]
    BY <1>1
  <2> HIDE DEF h, k
  <2> QED BY <2>2, <2>3, <2>4
<1> HIDE DEF F
<1>5. Poll(u, a) = [y EXCEPT !.fds = F]
  BY <1>0, PollFds
<1>6. IsWorld(u) /\ u.request = w.request
  BY <1>0, NewTable DEF SameBlocks
<1> HIDE DEF u, y
<1>7. WithDns(u, a)
  BY <1>0, <1>6 DEF WithDns
<1>8. Poll(v, a) \in auth_connect_callback(Poll(u, a), a, ok)
  BY <1>3, <1>7, PollAuthConnect
<1>9. Poll(v, a) \in comm_connect_callback(y, f, ok)
  BY <1>4, <1>5, <1>8
<1> QED BY <1>9 DEF y

(* ... with comm_connect_tryconnect ...                                    *)
LEMMA PollTryConnect ==
  ASSUME NEW w, NEW a \in Requests, WithDns(w, a), NEW f,
         w.fds.tab[f].connect = <<"auth_connect_callback", a>>,
         NEW v \in comm_connect_tryconnect(w, f)
  PROVE  Poll(v, a) \in comm_connect_tryconnect(Poll(w, a), f)
<1> DEFINE F == SetWrite(w.fds, f, <<"comm_connect_tryconnect", NULL>>)
           y == Poll(w, a)
<1>0. IsWorld(w)
  BY DEF WithDns
<1>1. y.fds = w.fds
  BY <1>0, PollIs
<1>2. \/ v = [w EXCEPT !.fds = F]
      \/ \E ok \in BOOLEAN : v \in comm_connect_callback(w, f, ok)
  BY DEF comm_connect_tryconnect
<1>3. /\ [y EXCEPT !.fds = F] \in comm_connect_tryconnect(y, f)
      /\ \A ok \in BOOLEAN : comm_connect_callback(y, f, ok) \subseteq comm_connect_tryconnect(y, f)
  <2> HIDE DEF y
  <2> QED BY <1>1 DEF comm_connect_tryconnect
<1> HIDE DEF F
<1>4. CASE v = [w EXCEPT !.fds = F]
  <2>1. Poll(v, a) = [y EXCEPT !.fds = F]
    BY <1>0, <1>4, PollFds
  <2> QED BY <1>3, <2>1
<1>5. CASE \E ok \in BOOLEAN : v \in comm_connect_callback(w, f, ok)
  <2>1. PICK ok \in BOOLEAN : v \in comm_connect_callback(w, f, ok)
    BY <1>5
  <2>2. Poll(v, a) \in comm_connect_callback(y, f, ok)
    BY <2>1, PollConnectCallback
  <2> QED BY <1>3, <2>2
<1> QED BY <1>2, <1>4, <1>5

(* ... and with comm_connect_tcp: every world start_auth leaves is one     *)
(* that comm_connect_tcp leaves of a linked request.                       *)
LEMMA PollTcp ==
  ASSUME NEW w, NEW a \in Requests, WithDns(w, a), w.fds \in Tables, NEW f \in Fds,
         NEW v \in comm_connect_tcp(w, f, <<"auth_connect_callback", a>>, FALSE)
  PROVE  Poll(v, a) \in comm_connect_tcp(Poll(w, a), f, <<"auth_connect_callback", a>>, FALSE)
<1> DEFINE h == <<"auth_connect_callback", a>>
           F == SetConnect(w.fds, f, h)
           E == SetTimer(F, f, TRUE)
           u == [w EXCEPT !.fds = F]
           x == [u EXCEPT !.fds = E]
           y == Poll(w, a)
           s == [y EXCEPT !.fds = F]
           t == [s EXCEPT !.fds = E]
<1>0. IsWorld(w) /\ w.request \in [Requests -> RequestBlocks] /\ w.request[a].dns
  BY DEF WithDns
<1>1. y.fds = w.fds /\ IsWorld(y)
  BY <1>0, PollIs
<1>2. h \in Handles /\ TRUE \in BOOLEAN
  BY DEF Handles, Callbacks, Objects
<1>3. F \in Tables /\ F.tab[f].connect = h
  BY <1>2, SetConnectTouches DEF Touched
<1>4. u.fds = F /\ IsWorld(u) /\ u.request = w.request
  BY <1>0, NewTable DEF SameBlocks
<1>5. v \in comm_connect_callback(u, f, FALSE) \/ v \in comm_connect_tryconnect(x, f)
  <2> HIDE DEF F
  <2>1. x = [u EXCEPT !.fds = SetTimer(u.fds, f, TRUE)]
    BY <1>4
  <2> QED BY <1>4, <2>1 DEF comm_connect_tcp, F
<1>6. s.fds = F
  BY <1>1, NewTable
<1>7. /\ comm_connect_callback(s, f, FALSE) \subseteq comm_connect_tcp(y, f, h, FALSE)
      /\ comm_connect_tryconnect(t, f) \subseteq comm_connect_tcp(y, f, h, FALSE)
  <2>1. s = [y EXCEPT !.fds = SetConnect(y.fds, f, h)]
    BY <1>1
  <2>2. t = [s EXCEPT !.fds = SetTimer(s.fds, f, TRUE)]
    BY <1>6
  <2> HIDE DEF y, F, E, s, t, h
  <2> QED BY <2>1, <2>2 DEF comm_connect_tcp
<1> HIDE DEF F
<1>8. E.tab[f].connect = h
  BY <1>2, <1>3, SetTimerTouches
<1> HIDE DEF E
<1>9. Poll(u, a) = s
  BY <1>0, PollFds
<1>10. Poll(x, a) = t
  <2> HIDE DEF u
  <2>1. Poll(x, a) = [Poll(u, a) EXCEPT !.fds = E]
    BY <1>4, PollFds
  <2> QED BY <1>9, <2>1
<1>11. x.fds = E /\ IsWorld(x) /\ x.request = u.request
  <2> HIDE DEF u
  <2> QED BY <1>4, NewTable DEF SameBlocks
<1> HIDE DEF u, x, s, t, y
<1>12. WithDns(u, a) /\ WithDns(x, a)
  BY <1>0, <1>4, <1>11 DEF WithDns
<1>13. CASE v \in comm_connect_callback(u, f, FALSE)
  <2>1. FALSE \in BOOLEAN /\ u.fds.tab[f].connect = <<"auth_connect_callback", a>>
    BY <1>3, <1>4
  <2>2. Poll(v, a) \in comm_connect_callback(s, f, FALSE)
    BY <1>9, <1>12, <1>13, <2>1, PollConnectCallback
  <2> QED BY <1>7, <2>2 DEF y, h
<1>14. CASE v \in comm_connect_tryconnect(x, f)
  <2>1. x.fds.tab[f].connect = <<"auth_connect_callback", a>>
    BY <1>8, <1>11
  <2>2. Poll(v, a) \in comm_connect_tryconnect(t, f)
    BY <1>10, <1>12, <1>14, <2>1, PollTryConnect
  <2> QED BY <1>7, <2>2 DEF y, h
<1> QED BY <1>5, <1>13, <1>14

(* The fields of a new request ...                                         *)
MadeFor(R, E, a, c) ==
  /\ E \in [Requests -> RequestBlocks] /\ E[a].client = c /\ E[a].fd = -1
  /\ E[a].ident = "no" /\ E[a].dns /\ \A b \in Requests : b # a => E[b] = R[b]

(* ... are what start_auth gives it.                                       *)
LEMMA RequestMade ==
  ASSUME NEW R \in [Requests -> RequestBlocks], NEW a \in Requests, NEW c \in Clients
  PROVE  MadeFor(R, [[R EXCEPT ![a] = [FreeRequest EXCEPT !.client = c]] EXCEPT ![a].dns = TRUE],
                 a, c)
<1> DEFINE n == [FreeRequest EXCEPT !.client = c]
           M == [R EXCEPT ![a] = n]
           E == [M EXCEPT ![a].dns = TRUE]
<1>1. FreeRequest \in RequestBlocks /\ FreeRequest.fd = -1 /\ FreeRequest.ident = "no"
  BY DEF FreeRequest, RequestBlocks
<1>2. n \in RequestBlocks /\ n.client = c /\ n.fd = -1 /\ n.ident = "no"
  BY <1>1 DEF RequestBlocks
<1> HIDE DEF n
<1>3. M \in [Requests -> RequestBlocks] /\ M[a] = n /\ \A b \in Requests : b # a => M[b] = R[b]
  BY <1>2
<1> HIDE DEF M
<1>4. /\ E \in [Requests -> RequestBlocks] /\ E[a].client = n.client /\ E[a].fd = n.fd
      /\ E[a].ident = n.ident /\ \A b \in Requests : b # a => E[b] = M[b]
  BY <1>3 DEF RequestBlocks
<1>5. E[a].dns
  BY <1>3 DEF RequestBlocks
<1> HIDE DEF E
<1>6. MadeFor(R, E, a, c)
  BY <1>2, <1>3, <1>4, <1>5 DEF MadeFor
<1> QED BY <1>6 DEF E, M, n

(* ... and of one whose ident lookup is started.                           *)
LEMMA RequestDials ==
  ASSUME NEW R \in [Requests -> RequestBlocks], NEW a \in Requests, NEW f \in Fds, R[a].dns,
         NEW E, E = [R EXCEPT ![a].fd = f, ![a].ident = "connecting"]
  PROVE  /\ E \in [Requests -> RequestBlocks] /\ E[a].client = R[a].client /\ E[a].fd = f
         /\ E[a].ident = "connecting" /\ E[a].dns /\ \A b \in Requests : b # a => E[b] = R[b]
<1>1. /\ E \in [Requests -> RequestBlocks] /\ E[a].client = R[a].client /\ E[a].fd = f
      /\ E[a].ident = "connecting" /\ \A b \in Requests : b # a => E[b] = R[b]
  BY DEF RequestBlocks
<1>2. E[a].dns
  BY DEF RequestBlocks
<1> QED BY <1>1, <1>2

(* v is w with the request a made for the client c and linked.             *)
Opens(w, v, c, a) ==
  /\ IsWorld(v) /\ v.client = [w.client EXCEPT ![c].dns = "pending"]
  /\ v.unknown = w.unknown /\ v.count = w.count /\ v.clients = w.clients
  /\ v.exited = w.exited /\ v.listener = w.listener
  /\ v.queries = w.queries \cup {[callback |-> "auth_dns_callback", ptr |-> a, owner |-> c]}
  /\ v.request \in [Requests -> RequestBlocks] /\ v.polled = w.polled \cup {a}
  /\ \A b \in Requests : b # a => v.request[b] = w.request[b]
  /\ v.request[a].client = c /\ v.request[a].dns

(* A client with a new request, and its ident descriptor if it got one, is *)
(* sound.                                                                  *)
LEMMA OpensSound ==
  ASSUME NEW w, NEW c \in Clients, Sound(w, {c}), w.client[c].status = "unknown",
         ~Released(w, c), ~TryAllSet(w, c), ~Asked(w, c), ~Queried(w, c),
         NEW a \in Requests, w.request[a] = FreeRequest, NEW v, Opens(w, v, c, a),
         \/ v.fds = w.fds /\ v.request[a].fd = -1 /\ v.request[a].ident = "no"
         \/ \E f \in Fds : /\ ~w.fds.tab[f].open /\ v.fds = fd_open(w.fds, f)
                           /\ v.request[a].fd = f /\ v.request[a].ident = "connecting"
  PROVE  Sound(v, {})
<1> DEFINE q == [callback |-> "auth_dns_callback", ptr |-> a, owner |-> c]
<1>k. /\ IsWorld(v) /\ v.client = [w.client EXCEPT ![c].dns = "pending"]
      /\ v.unknown = w.unknown /\ v.count = w.count /\ v.clients = w.clients
      /\ v.exited = w.exited /\ v.listener = w.listener /\ v.queries = w.queries \cup {q}
      /\ v.request \in [Requests -> RequestBlocks] /\ v.polled = w.polled \cup {a}
      /\ \A b \in Requests : b # a => v.request[b] = w.request[b]
      /\ v.request[a].client = c
  BY DEF Opens
<1>d. v.request[a].dns
  BY DEF Opens
<1>0. /\ Typed(w) /\ IsWorld(w) /\ FdSound(w.fds, FdOf(w)) /\ w.fds \in Tables
      /\ w.client \in [Clients -> ClientBlocks]
      /\ w.request \in [Requests -> RequestBlocks] /\ w.polled \in SUBSET Requests
  BY SoundParts DEF Typed
<1>1. /\ v.client[c].status = "unknown" /\ v.client[c].fd = w.client[c].fd
      /\ \A d \in Clients : v.client[d].fd = w.client[d].fd
  BY <1>k, <1>0, DnsSet
<1>2. q \in QueryBlocks /\ q.owner = c /\ q.ptr = a /\ q.callback = "auth_dns_callback"
  BY DEF QueryBlocks
<1> HIDE DEF q
<1>3. QuerySound(v, q)
  BY <1>k, <1>d, <1>2 DEF QuerySound
<1>4. w.request[a].fd = -1 /\ FdOf(w)[a] = -1
  BY <1>0, FdOfObjects DEF FreeRequest
<1>5. ~Released(v, c)
  BY <1>k DEF Released
<1>6. \A b \in Requests : v.request[b].client = c => b = a
  BY <1>k DEF Asked
<1>7. /\ w.client[c].fd \in Fds /\ w.fds.tab[w.client[c].fd].open
  BY OwnFd DEF Live
<1>8. c # NULL
  BY Distinct
<1>9. ASSUME v.fds.tab[w.client[c].fd] = w.fds.tab[w.client[c].fd],
             v.request[a].ident = "no" <=> v.request[a].fd = -1
      PROVE  RequestSound(v, {}, a)
  <2>1. ~TryAllSet(v, c)
    BY <1>1, <1>9 DEF TryAllSet
  <2> QED BY <1>k, <1>d, <1>1, <1>5, <1>6, <1>8, <1>9, <2>1 DEF RequestSound
<1>10. CASE v.fds = w.fds /\ v.request[a].fd = -1 /\ v.request[a].ident = "no"
  <2>1. FdOf(v) = FdOf(w)
    <3>1. \A b \in Requests : v.request[b].fd = w.request[b].fd
      BY <1>k, <1>4, <1>10
    <3> QED BY <1>k, <1>1, <3>1 DEF FdOf
  <2>2. RequestSound(v, {}, a)
    BY <1>9, <1>10
  <2>3. Asks(w, v, c, q, {a}, {})
    BY <1>k, <1>0, <1>2, <1>3, <1>10, <2>1, <2>2 DEF Asks
  <2>4. {a} \in SUBSET Requests /\ {} \in SUBSET Fds
    OBVIOUS
  <2> QED BY <2>3, <2>4, AsksSound
<1>11. CASE \E f \in Fds : /\ ~w.fds.tab[f].open /\ v.fds = fd_open(w.fds, f)
                           /\ v.request[a].fd = f /\ v.request[a].ident = "connecting"
  <2>1. PICK f \in Fds : /\ ~w.fds.tab[f].open /\ v.fds = fd_open(w.fds, f)
                         /\ v.request[a].fd = f /\ v.request[a].ident = "connecting"
    BY <1>11
  <2>2. a \in Objects
    BY DEF Objects
  <2>3. /\ fd_open(w.fds, f) \in Tables /\ fd_open(w.fds, f).tab[f] = OpenEntry
        /\ \A g \in Fds : g # f => fd_open(w.fds, f).tab[g] = w.fds.tab[g]
        /\ FdSound(fd_open(w.fds, f), [FdOf(w) EXCEPT ![a] = f])
    BY <1>4, <2>1, <2>2, OpenedFor
  <2>4. FdOf(v) = [FdOf(w) EXCEPT ![a] = f]
    <3>1. \A d \in Clients : v.client[d].fd = IF d = a THEN f ELSE w.client[d].fd
      BY <1>1, Distinct
    <3>2. \A b \in Requests : v.request[b].fd = IF b = a THEN f ELSE w.request[b].fd
      BY <1>k, <2>1
    <3>3. \A l \in Listeners : v.listener[l].fd = IF l = a THEN f ELSE w.listener[l].fd
      BY <1>k, Distinct
    <3> QED BY <1>0, <2>2, <3>1, <3>2, <3>3, FdOfWith
  <2>5. w.client[c].fd # f
    BY <1>7, <2>1
  <2>6. RequestSound(v, {}, a)
    <3>1. v.fds.tab[w.client[c].fd] = w.fds.tab[w.client[c].fd]
      BY <1>7, <2>1, <2>3, <2>5
    <3>2. v.request[a].ident = "no" <=> v.request[a].fd = -1
      BY <2>1, FdFacts
    <3> QED BY <1>9, <3>1, <3>2
  <2>7. Asks(w, v, c, q, {a}, {f})
    BY <1>k, <1>0, <1>2, <1>3, <2>1, <2>3, <2>4, <2>6 DEF Asks
  <2>8. {a} \in SUBSET Requests /\ {f} \in SUBSET Fds
    OBVIOUS
  <2> QED BY <2>7, <2>8, AsksSound
<1> QED BY <1>10, <1>11

(* start_auth.                                                             *)
LEMMA StartAuthSound ==
  ASSUME NEW w, NEW c \in Clients, Sound(w, {c}), w.client[c].status = "unknown",
         ~Released(w, c), ~TryAllSet(w, c), ~Asked(w, c), ~Queried(w, c),
         NEW a \in Requests, w.request[a] = FreeRequest, NEW v \in start_auth(w, c, a)
  PROVE  Sound(v, {})
<1> DEFINE m == [w EXCEPT !.request[a] = [FreeRequest EXCEPT !.client = c]]
           q == [callback |-> "auth_dns_callback", ptr |-> a, owner |-> c]
           s == [m EXCEPT !.client[c].dns = "pending", !.queries = m.queries \cup {q},
                          !.request[a].dns = TRUE]
           f == CommOpen(s.fds)
           o == [s EXCEPT !.fds = fd_open(s.fds, f), !.request[a].fd = f,
                          !.request[a].ident = "connecting"]
           h == <<"auth_connect_callback", a>>
<1>0. /\ Typed(w) /\ IsWorld(w) /\ w.fds \in Tables /\ w.request \in [Requests -> RequestBlocks]
  BY SoundParts DEF Typed
<1>1. PICK t \in start_auth_query(s, a) : v = Poll(t, a)
  BY DEF start_auth, Poll
<1>2. t = s \/ (f # -1 /\ t \in comm_connect_tcp(o, f, h, FALSE))
  <2> HIDE DEF s
  <2> QED BY DEF start_auth_query
<1>3. /\ IsWorld(m) /\ m.request = [w.request EXCEPT ![a] = [FreeRequest EXCEPT !.client = c]]
      /\ m.fds = w.fds /\ m.client = w.client /\ m.unknown = w.unknown /\ m.count = w.count
      /\ m.clients = w.clients /\ m.exited = w.exited /\ m.polled = w.polled
      /\ m.queries = w.queries /\ m.listener = w.listener
  BY <1>0 DEF IsWorld
<1> HIDE DEF m
<1>4. /\ IsWorld(s) /\ s.request = [m.request EXCEPT ![a].dns = TRUE]
      /\ s.client = [m.client EXCEPT ![c].dns = "pending"] /\ s.queries = m.queries \cup {q}
      /\ s.fds = m.fds /\ s.unknown = m.unknown /\ s.count = m.count
      /\ s.clients = m.clients /\ s.exited = m.exited /\ s.polled = m.polled
      /\ s.listener = m.listener
  BY <1>3 DEF IsWorld
<1> HIDE DEF s
<1>m. MadeFor(w.request, s.request, a, c)
  <2>1. MadeFor(w.request, [[w.request EXCEPT ![a] = [FreeRequest EXCEPT !.client = c]]
                              EXCEPT ![a].dns = TRUE], a, c)
    BY <1>0, RequestMade
  <2> QED BY <1>3, <1>4, <2>1
<1>5. /\ s.request \in [Requests -> RequestBlocks] /\ s.request[a].client = c
      /\ s.request[a].fd = -1 /\ s.request[a].ident = "no"
      /\ \A b \in Requests : b # a => s.request[b] = w.request[b]
  BY <1>m DEF MadeFor
<1>6. s.request[a].dns
  BY <1>m DEF MadeFor
<1>7. CASE t = s
  <2> DEFINE y == Poll(s, a)
  <2>1. /\ IsWorld(y) /\ y.fds = s.fds /\ y.client = s.client
        /\ y.unknown = s.unknown /\ y.count = s.count
        /\ y.clients = s.clients /\ y.exited = s.exited /\ y.request = s.request
        /\ y.polled = s.polled \cup {a} /\ y.queries = s.queries /\ y.listener = s.listener
    BY <1>4, PollIs
  <2> HIDE DEF y
  <2>2. Opens(w, y, c, a)
    BY <1>3, <1>4, <1>5, <1>6, <2>1 DEF Opens
  <2>3. y.fds = w.fds /\ y.request[a].fd = -1 /\ y.request[a].ident = "no"
    BY <1>3, <1>4, <1>5, <2>1
  <2>4. Sound(y, {})
    BY <2>2, <2>3, OpensSound
  <2> QED BY <1>1, <1>7, <2>4 DEF y
<1>8. CASE f # -1 /\ t \in comm_connect_tcp(o, f, h, FALSE)
  <2> DEFINE y == Poll(o, a)
  <2>0. s.fds = w.fds
    BY <1>3, <1>4
  <2>1. f \in Fds /\ ~w.fds.tab[f].open
    BY <1>0, <1>8, <2>0, CommOpenFree
  <2> HIDE DEF f
  <2>2. /\ IsWorld(o) /\ o.request = [s.request EXCEPT ![a].fd = f, ![a].ident = "connecting"]
        /\ o.client = s.client /\ o.queries = s.queries
        /\ o.fds = fd_open(s.fds, f) /\ o.unknown = s.unknown /\ o.count = s.count
        /\ o.clients = s.clients /\ o.exited = s.exited /\ o.polled = s.polled
        /\ o.listener = s.listener
    BY <1>4 DEF IsWorld
  <2> HIDE DEF o
  <2>3. /\ o.request \in [Requests -> RequestBlocks] /\ o.request[a].client = c
        /\ o.request[a].fd = f /\ o.request[a].ident = "connecting"
        /\ \A b \in Requests : b # a => o.request[b] = w.request[b]
    BY <1>5, <1>6, <2>1, <2>2, RequestDials, SMTT(30)
  <2>4. o.request[a].dns
    BY <1>5, <1>6, <2>1, <2>2, RequestDials
  <2>5. /\ IsWorld(y) /\ y.fds = o.fds /\ y.client = o.client
        /\ y.unknown = o.unknown /\ y.count = o.count
        /\ y.clients = o.clients /\ y.exited = o.exited /\ y.request = o.request
        /\ y.polled = o.polled \cup {a} /\ y.queries = o.queries /\ y.listener = o.listener
    BY <2>2, PollIs
  <2> HIDE DEF y
  <2>6. Opens(w, y, c, a)
    BY <1>3, <1>4, <2>2, <2>3, <2>4, <2>5 DEF Opens
  <2>7. y.fds = fd_open(w.fds, f) /\ y.request[a].fd = f /\ y.request[a].ident = "connecting"
    BY <2>0, <2>2, <2>3, <2>5
  <2>8. Sound(y, {})
    BY <2>1, <2>6, <2>7, OpensSound
  <2>9. Sound(y, {a})
    BY <2>8, Weaken
  <2>10. Dialler(y, a, f)
    BY <2>7 DEF Dialler
  <2>11. fd_open(w.fds, f) \in Tables /\ fd_open(w.fds, f).tab[f] = OpenEntry
    <3>1. a \in Objects /\ FdOf(w)[a] = -1
      BY <1>0, FdOfObjects DEF Objects, FreeRequest
    <3> QED BY <2>1, <3>1, OpenedFor
  <2>12. y.fds.tab[f].write = NULL /\ o.fds \in Tables
    BY <2>0, <2>2, <2>7, <2>11, OpenEntryFields
  <2>13. WithDns(o, a)
    BY <2>2, <2>3, <2>4 DEF WithDns
  <2>14. v \in comm_connect_tcp(y, f, h, FALSE)
    BY <1>1, <1>8, <2>1, <2>12, <2>13, PollTcp DEF y
  <2>15. h = DialHandle(a)
    BY DEF DialHandle
  <2>16. FALSE \in BOOLEAN /\ (FALSE => ByName)
    OBVIOUS
  <2> HIDE DEF h
  <2> QED BY <2>1, <2>9, <2>10, <2>12, <2>14, <2>15, <2>16, TcpSound
<1> QED BY <1>2, <1>7, <1>8

-----------------------------------------------------------------------------
(* The actions.                                                            *)

(* The inductive invariant: between two handlers nothing is excused.       *)
Inv == Sound(World, {})

(* The world of the variables.                                             *)
LEMMA WorldFields ==
  /\ IsWorld(World) /\ World.fds = fds /\ World.client = client /\ World.unknown = unknown
  /\ World.count = count /\ World.clients = clients /\ World.exited = exited
  /\ World.request = request /\ World.polled = polled /\ World.queries = queries
  /\ World.listener = listener
BY DEF World, IsWorld

(* An action that becomes w makes w the next world.                        *)
LEMMA BecomeIs ==
  ASSUME NEW w, IsWorld(w), Become(w)
  PROVE  World' = w
BY DEF World, Become, IsWorld

(* So an action that becomes a sound world keeps the invariant.            *)
LEMMA BecomeSound ==
  ASSUME NEW w, Sound(w, {}), Become(w)
  PROVE  Inv'
<1>1. IsWorld(w)
  BY SoundParts DEF Typed
<1>2. World' = w
  BY <1>1, BecomeIs
<1> QED BY <1>2 DEF Inv

(* The server starts with nothing open, which is sound.                    *)
LEMMA InitSound == Init => Inv
<1> SUFFICES ASSUME Init PROVE Sound(World, {})
  BY DEF Inv
<1> DEFINE w == World
<1>0. /\ IsWorld(w) /\ w.fds = EmptyTable /\ w.client = [c \in Clients |-> FreeClient]
      /\ w.unknown = {} /\ w.count = 0 /\ w.clients = <<>> /\ w.exited = {}
      /\ w.request = [a \in Requests |-> FreeRequest] /\ w.polled = {} /\ w.queries = {}
      /\ w.listener = [l \in Listeners |-> FreeListener]
  BY WorldFields DEF Init
<1> HIDE DEF w
<1>1. FreeClient \in ClientBlocks /\ FreeRequest \in RequestBlocks /\ FreeListener \in ListenerBlocks
  BY DEF FreeClient, ClientBlocks, Statuses, FreeRequest, RequestBlocks, FreeListener, ListenerBlocks
<1>2. /\ w.fds \in Tables /\ \A f \in Fds : w.fds.tab[f] = ClosedEntry
      /\ w.fds.number = 0 /\ w.fds.highest = -1
  BY <1>0, EntryTypes DEF EmptyTable, Tables
<1>3. ToSet(w.clients) = {} /\ IsInjective(w.clients) /\ w.clients \in Seq(Clients)
  <2>1. <<>> \in Seq(Clients)
    OBVIOUS
  <2>2. Injective(<<>>) /\ Items(<<>>) = {}
    BY DEF Injective, Items
  <2> QED BY <1>0, <2>1, <2>2, ListOf
<1>4. Typed(w)
  BY <1>0, <1>1, <1>2, <1>3 DEF Typed
<1>5. FdSound(w.fds, FdOf(w))
  <2>1. \A x \in Objects : FdOf(w)[x] = -1
    BY <1>0 DEF FdOf, Objects, FreeClient, FreeRequest, FreeListener
  <2>2. \A f \in Fds : ~w.fds.tab[f].open
    BY <1>2 DEF ClosedEntry
  <2>3. OpenFds(w.fds) = {}
    BY <2>2 DEF OpenFds
  <2>4. Cardinality({}) = 0
    BY FS_EmptySet
  <2>5. Top({}) = -1
    BY DEF Top
  <2> QED BY <1>2, <2>1, <2>2, <2>3, <2>4, <2>5 DEF FdSound
<1>6. EntriesSound(w, {})
  <2>1. NULL # TryConnect
    BY Distinct DEF Callbacks, TryConnect
  <2>2. ClosedEntry.write = NULL
    BY DEF ClosedEntry
  <2>3. \A f \in Fds : EntrySound(w, f, w.fds.tab[f])
    BY <1>2, ClosedSound
  <2> QED BY <1>2, <2>1, <2>2, <2>3 DEF EntriesSound
<1>7. RequestsSound(w, {})
  BY <1>0 DEF RequestsSound, RequestSound, FreeRequest
<1>8. QueriesSound(w)
  BY <1>0 DEF QueriesSound, Queried, FreeClient
<1>9. ClientsSound(w, {})
  <2> SUFFICES ASSUME NEW c \in Clients PROVE ClientSound(w, {}, c)
    BY <1>3 DEF ClientsSound
  <2>1. w.client[c] = FreeClient /\ ~Released(w, c)
    BY <1>0, <1>3 DEF Released
  <2>2. FreeClient.status = "free" /\ FreeClient.fd = -1
    BY DEF FreeClient
  <2>3. ~FreeClient.dead
    BY DEF FreeClient
  <2> QED BY <1>0, <2>1, <2>2, <2>3 DEF ClientSound, Live
<1>10. AllArmed(w, {})
  BY <1>0 DEF AllArmed, Armed, FreeClient, Live
<1>11. ListenersSound(w)
  <2> SUFFICES ASSUME NEW l \in Listeners PROVE ListenerSound(w, l)
    BY DEF ListenersSound
  <2>1. ReferencesOf(w, l) = {}
    BY <1>0, Distinct DEF ReferencesOf, FreeClient
  <2>2. Cardinality({}) = 0
    BY FS_EmptySet
  <2>3. w.listener[l].refs = 0 /\ w.listener[l].fd = -1
    BY <1>0 DEF FreeListener
  <2>4. ~w.listener[l].active
    BY <1>0 DEF FreeListener
  <2> QED BY <2>1, <2>2, <2>3, <2>4 DEF ListenerSound
<1> QED BY <1>4, <1>5, <1>6, <1>7, <1>8, <1>9, <1>10, <1>11 DEF Sound, w

(* One lemma per action.                                                   *)
LEMMA AddListenerKeeps == ASSUME Inv, NEW l \in Listeners, AddListener(l) PROVE Inv'
<1> DEFINE f == CommOpen(fds)
<1>0. Sound(World, {}) /\ World.listener \in [Listeners -> ListenerBlocks] /\ World.fds \in Tables
  BY SoundParts DEF Inv
<1>1. World.fds = fds /\ World.listener = listener
  BY WorldFields
<1>2. listener[l].fd = -1 /\ f # -1
  BY DEF AddListener
<1>3. f \in Fds /\ ~World.fds.tab[f].open
  BY <1>0, <1>1, <1>2, CommOpenFree
<1>4. PICK k \in IF listener[l].kind = NULL THEN Kinds ELSE {listener[l].kind} :
        Become([World EXCEPT
          !.fds = SetRead(fd_open(World.fds, f), f, <<"accept_connection", l>>),
          !.listener[l] = [kind |-> k, fd |-> f, active |-> TRUE, refs |-> World.listener[l].refs]])
  BY DEF AddListener
<1>5. k \in Kinds
  BY <1>0, <1>1, <1>4 DEF ListenerBlocks
<1> DEFINE v == [World EXCEPT
          !.fds = SetRead(fd_open(World.fds, f), f, <<"accept_connection", l>>),
          !.listener[l] = [kind |-> k, fd |-> f, active |-> TRUE, refs |-> World.listener[l].refs]]
<1>6. Sound(v, {})
  <2> HIDE DEF f
  <2>1. World.listener[l].fd = -1
    BY <1>1, <1>2
  <2> QED BY <1>0, <1>3, <1>5, <2>1, AddListenerSound
<1>7. Become(v)
  BY <1>4
<1> HIDE DEF v
<1> QED BY <1>6, <1>7, BecomeSound

(* close_listeners.                                                        *)
LEMMA CloseListenersKeeps == ASSUME Inv, CloseListeners PROVE Inv'
<1> DEFINE set == {l \in Listeners : World.listener[l].kind # NULL}
           v == [World EXCEPT
              !.fds = CloseAll(World.fds, {f \in {World.listener[l].fd : l \in set} : f >= 0}),
              !.listener = [l \in Listeners |-> IF l \in set THEN close_listener(World.listener[l])
                                                ELSE World.listener[l]]]
<1>1. World.listener = listener
  BY WorldFields
<1>2. Become(v)
  BY <1>1 DEF CloseListeners
<1>3. Sound(World, {})
  BY DEF Inv
<1>4. Sound(v, {})
  BY <1>3, CloseListenersSound
<1> HIDE DEF v
<1> QED BY <1>2, <1>4, BecomeSound

(* accept_connection.                                                      *)
LEMMA AcceptKeeps ==
  ASSUME Inv, NEW l \in Listeners, NEW c \in Clients, AcceptConnection(l, c) PROVE Inv'
<1> DEFINE f == CommOpen(fds)
<1>0. Sound(World, {}) /\ World.fds \in Tables
  BY SoundParts DEF Inv
<1>1. World.fds = fds /\ World.listener = listener /\ World.client = client
  BY WorldFields
<1>2. listener[l].fd # -1 /\ client[c].status = "free" /\ f # -1
  BY DEF AcceptConnection
<1>3. f \in Fds /\ ~World.fds.tab[f].open
  BY <1>0, <1>1, <1>2, CommOpenFree
<1>4. PICK v \in add_connection([World EXCEPT !.fds = fd_open(World.fds, f)], l, c, f) : Become(v)
  BY DEF AcceptConnection, Run
<1>5. Sound(v, {})
  <2> HIDE DEF f
  <2>1. World.listener[l].fd # -1 /\ World.client[c].status = "free"
    BY <1>1, <1>2
  <2> QED BY <1>0, <1>3, <1>4, <2>1, AcceptSound
<1> QED BY <1>4, <1>5, BecomeSound

(* comm_tryall_callback, its three ways.                                   *)
LEMMA TryAllKeeps == ASSUME Inv, NEW c \in Clients, TryAll(c) PROVE Inv'
<1> DEFINE u == [World EXCEPT !.fds = SetWrite(World.fds, World.client[c].fd, NULL)]
<1>0. Sound(World, {})
  BY DEF Inv
<1>1. World.fds = fds /\ World.client = client /\ World.request = request
  BY WorldFields
<1>2. /\ World.client[c].fd # -1 /\ TryAllSet(World, c) /\ u = FiredWrite(client[c].fd)
  BY <1>1 DEF TryAll, TryAllSet, FiredWrite
<1>3. /\ Sound(u, {c}) /\ u.client[c].status = "unknown" /\ ~Released(u, c)
      /\ ~TryAllSet(u, c) /\ u.request = World.request /\ ~Asked(u, c) /\ ~Queried(u, c)
  BY <1>0, <1>2, FiredTryAll
<1>4. \/ \E a \in Requests : request[a] = FreeRequest /\ Run(start_auth(u, c, a))
      \/ Run(start_lookup(u, c))
      \/ Run({exit_client(u, c)})
  <2> HIDE DEF u
  <2> QED BY <1>2 DEF TryAll
<1> HIDE DEF u
<1>5. CASE \E a \in Requests : request[a] = FreeRequest /\ Run(start_auth(u, c, a))
  <2>1. PICK a \in Requests : request[a] = FreeRequest /\ Run(start_auth(u, c, a))
    BY <1>5
  <2>2. PICK v \in start_auth(u, c, a) : Become(v)
    BY <2>1 DEF Run
  <2>3. u.request[a] = FreeRequest
    BY <1>1, <1>3, <2>1
  <2>4. Sound(v, {})
    BY <1>3, <2>2, <2>3, StartAuthSound
  <2> QED BY <2>2, <2>4, BecomeSound
<1>6. CASE Run(start_lookup(u, c))
  <2>1. PICK v \in start_lookup(u, c) : Become(v)
    BY <1>6 DEF Run
  <2>2. Sound(v, {})
    BY <1>3, <2>1, StartLookupSound
  <2> QED BY <2>1, <2>2, BecomeSound
<1>7. CASE Run({exit_client(u, c)})
  <2>1. Become(exit_client(u, c))
    BY <1>7 DEF Run
  <2>2. u.client[c].status \in Live
    BY <1>3 DEF Live
  <2>3. Sound(exit_client(u, c), {})
    BY <1>3, <2>2, ExitDead
  <2> QED BY <2>1, <2>3, BecomeSound
<1> QED BY <1>4, <1>5, <1>6, <1>7

(* serv_connect, discarded or dialling.                                    *)
LEMMA ServConnectKeeps == ASSUME Inv, NEW c \in Clients, ServConnect(c) PROVE Inv'
<1> DEFINE f == CommOpen(fds)
           m == make_client([World EXCEPT !.fds = fd_open(World.fds, f)], c)
           k == [m EXCEPT !.client[c].fd = f]
           u == add_client_to_list([k EXCEPT !.client[c].status = "connecting"], c)
<1>0. Sound(World, {}) /\ World.fds \in Tables
  BY SoundParts DEF Inv
<1>1. World.fds = fds /\ World.client = client
  BY WorldFields
<1>2. World.client[c].status = "free" /\ f # -1
  BY <1>1 DEF ServConnect
<1>3. f \in Fds /\ ~World.fds.tab[f].open
  BY <1>0, <1>1, <1>2, CommOpenFree
<1>4. \/ Become(discard_client(k, c))
      \/ Run(comm_connect_tcp(u, f, <<"serv_connect_callback", c>>, ByName))
  BY DEF ServConnect
<1>5. /\ Sound(discard_client(k, c), {})
      /\ Sound(u, {c}) /\ Dialler(u, c, f) /\ u.fds.tab[f].write = NULL
  <2> HIDE DEF f
  <2> QED BY <1>0, <1>2, <1>3, ServConnectOpens
<1> HIDE DEF k, u, f
<1>6. CASE Become(discard_client(k, c))
  BY <1>5, <1>6, BecomeSound
<1>7. CASE Run(comm_connect_tcp(u, f, <<"serv_connect_callback", c>>, ByName))
  <2>1. PICK v \in comm_connect_tcp(u, f, <<"serv_connect_callback", c>>, ByName) : Become(v)
    BY <1>7 DEF Run
  <2>2. <<"serv_connect_callback", c>> = DialHandle(c)
    BY Distinct DEF DialHandle
  <2>3. ByName \in BOOLEAN
    BY ConnectionAssumption
  <2>4. v \in comm_connect_tcp(u, f, DialHandle(c), ByName)
    BY <2>1, <2>2
  <2>5. Sound(v, {})
    BY <1>3, <1>5, <2>3, <2>4, TcpSound
  <2> QED BY <2>1, <2>5, BecomeSound
<1> QED BY <1>4, <1>6, <1>7

(* read_client_packet and read_server_packet.                              *)
LEMMA ReadClientKeeps == ASSUME Inv, NEW c \in Clients, ReadClient(c) PROVE Inv'
<1>0. Sound(World, {})
  BY DEF Inv
<1>1. World.fds = fds /\ World.client = client
  BY WorldFields
<1>2. /\ World.client[c].fd # -1
      /\ World.fds.tab[World.client[c].fd].read
           \in {<<"read_client_packet", c>>, <<"read_server_packet", c>>}
  BY <1>1 DEF ReadClient
<1>3. PICK v \in ReadPacket([World EXCEPT !.fds = SetRead(World.fds, World.client[c].fd, NULL)], c) :
        Become(v)
  BY <1>1 DEF ReadClient, FiredRead, Run
<1>4. Sound(v, {})
  BY <1>0, <1>2, <1>3, ReadClientSound
<1> QED BY <1>3, <1>4, BecomeSound

(* dead_link_on_write.                                                     *)
LEMMA DeadLinkKeeps == ASSUME Inv, NEW c \in Clients, DeadLink(c) PROVE Inv'
<1>0. Sound(World, {}) /\ ClientSound(World, {}, c)
  BY SoundParts DEF Inv
<1>1. World.client = client
  BY WorldFields
<1>2. World.client[c].status \in {"client", "server", "handshake"}
  BY <1>1 DEF DeadLink
<1>3. Reading(World, c)
  BY <1>0, <1>2 DEF Reading, ClientSound, Live
<1>4. {} \in SUBSET Objects
  OBVIOUS
<1>5. Sound([World EXCEPT !.client[c].dead = TRUE], {})
  BY <1>0, <1>3, <1>4, MarkDead
<1>6. Become([World EXCEPT !.client[c].dead = TRUE])
  BY DEF DeadLink
<1> QED BY <1>5, <1>6, BecomeSound

(* CheckUnknowns and CheckPings.                                           *)
LEMMA ExitKeeps == ASSUME Inv, NEW c \in Clients, Run({exit_client(World, c)}) PROVE Inv'
<1>0. Sound(World, {})
  BY DEF Inv
<1>1. {} \in SUBSET Objects /\ {} \ {c} = {}
  OBVIOUS
<1>2. Sound(exit_client(World, c), {})
  BY <1>0, <1>1, ExitClient
<1>3. Become(exit_client(World, c))
  BY DEF Run
<1> QED BY <1>2, <1>3, BecomeSound

(* The three callbacks of the resolver.                                    *)
LEMMA DnsAnswerKeeps == ASSUME Inv, NEW q \in queries, DnsAnswer(q) PROVE Inv'
<1> DEFINE w == [World EXCEPT !.queries = World.queries \ {q}]
<1>0. Sound(World, {}) /\ q \in World.queries /\ QueriesSound(World)
  BY SoundParts, WorldFields DEF Inv
<1>1. q.callback \in {"auth_dns_callback", "lookup_dns_callback", "comm_connect_dns_callback"}
  BY <1>0 DEF QueriesSound, QuerySound
<1>2. CASE q.callback = "auth_dns_callback"
  <2>1. PICK v \in auth_dns_callback(w, q.ptr) : Become(v)
    BY <1>2 DEF DnsAnswer, Run
  <2>2. Sound(v, {})
    BY <1>0, <1>2, <2>1, AuthAnswerSound
  <2> QED BY <2>1, <2>2, BecomeSound
<1>3. CASE q.callback = "lookup_dns_callback"
  <2>1. PICK v \in lookup_dns_callback(w, q.ptr) : Become(v)
    BY <1>3 DEF DnsAnswer, Run
  <2>2. Sound(v, {})
    BY <1>0, <1>3, <2>1, LookupAnswerSound
  <2> QED BY <2>1, <2>2, BecomeSound
<1>4. CASE q.callback = "comm_connect_dns_callback"
  <2>1. PICK v \in comm_connect_dns_callback(w, q.ptr) : Become(v)
    BY <1>4 DEF DnsAnswer, Run
  <2>2. Sound(v, {})
    BY <1>0, <1>4, <2>1, ConnectAnswerSound
  <2> QED BY <2>1, <2>2, BecomeSound
<1> QED BY <1>1, <1>2, <1>3, <1>4

(* read_auth_reply, when the descriptor is readable.                       *)
LEMMA ReadIdentKeeps == ASSUME Inv, NEW a \in Requests, ReadIdent(a) PROVE Inv'
<1>0. Sound(World, {})
  BY DEF Inv
<1>1. World.fds = fds /\ World.request = request
  BY WorldFields
<1>2. /\ World.request[a].fd # -1
      /\ World.fds.tab[World.request[a].fd].read = <<"read_auth_reply", a>>
  BY <1>1 DEF ReadIdent
<1>3. PICK v \in read_auth_reply([World EXCEPT !.fds = SetRead(World.fds, World.request[a].fd, NULL)], a) :
        Become(v)
  BY <1>1 DEF ReadIdent, FiredRead, Run
<1>4. Sound(v, {})
  BY <1>0, <1>2, <1>3, ReadIdentSound
<1> QED BY <1>3, <1>4, BecomeSound

(* timeout_auth_queries_event.                                             *)
LEMMA TimeoutAuthKeeps == ASSUME Inv, NEW a \in Requests, TimeoutAuth(a) PROVE Inv'
<1> DEFINE x == CloseIdent(World, a)
           c == World.request[a].client
           y == IF World.request[a].dns
                THEN [delete_adns_queries(x, c) EXCEPT !.client[c].dns = "idle"] ELSE x
           u == free_auth_request(unlink_auth_request(y, a), a)
<1>0. Sound(World, {})
  BY DEF Inv
<1>1. World.request = request /\ World.polled = polled
  BY WorldFields
<1>2. a \in World.polled
  BY <1>1 DEF TimeoutAuth
<1>3. PICK v \in release_auth_client(u, c) : Become(v)
  BY <1>1 DEF TimeoutAuth, Run
<1>4. Sound(v, {})
  BY <1>0, <1>2, <1>3, TimeoutAuthSound
<1> QED BY <1>3, <1>4, BecomeSound

(* What the I/O loop calls for a descriptor.                               *)
LEMMA DescriptorKeeps ==
  ASSUME Inv, NEW f \in Fds, WriteConnect(f) \/ CheckTimeout(f) \/ CheckFlush(f) PROVE Inv'
<1>0. Sound(World, {})
  BY DEF Inv
<1>1. World.fds = fds
  BY WorldFields
<1>2. CASE WriteConnect(f)
  <2>1. World.fds.tab[f].write = TryConnect
    BY <1>1, <1>2 DEF WriteConnect, TryConnect
  <2>2. PICK v \in comm_connect_tryconnect([World EXCEPT !.fds = SetWrite(World.fds, f, NULL)], f) :
          Become(v)
    BY <1>2 DEF WriteConnect, FiredWrite, Run
  <2>3. Sound(v, {})
    BY <1>0, <2>1, <2>2, WriteConnectSound
  <2> QED BY <2>2, <2>3, BecomeSound
<1>3. CASE CheckTimeout(f)
  <2>1. World.fds.tab[f].timer
    BY <1>1, <1>3 DEF CheckTimeout
  <2>2. PICK v \in comm_connect_callback([World EXCEPT !.fds = SetTimer(World.fds, f, FALSE)], f, FALSE) :
          Become(v)
    BY <1>3 DEF CheckTimeout, Run
  <2>3. Sound(v, {})
    BY <1>0, <2>1, <2>2, CheckTimeoutSound
  <2> QED BY <2>2, <2>3, BecomeSound
<1>4. CASE CheckFlush(f)
  <2>1. World.fds.tab[f].flush # NULL
    BY <1>1, <1>4 DEF CheckFlush
  <2>2. PICK v \in flood_recalc([World EXCEPT !.fds = SetFlush(World.fds, f, NULL)],
                                World.fds.tab[f].flush[2]) : Become(v)
    BY <1>1, <1>4 DEF CheckFlush, Run
  <2>3. Sound(v, {})
    BY <1>0, <2>1, <2>2, CheckFlushSound
  <2> QED BY <2>2, <2>3, BecomeSound
<1> QED BY <1>2, <1>3, <1>4

(* Every step keeps the invariant.                                         *)
LEMMA NextKeeps == Inv /\ [Next]_vars => Inv'
<1> SUFFICES ASSUME Inv, [Next]_vars PROVE Inv'
  OBVIOUS
<1>1. CASE \E l \in Listeners : AddListener(l)
  BY <1>1, AddListenerKeeps
<1>2. CASE CloseListeners
  BY <1>2, CloseListenersKeeps
<1>3. CASE \E l \in Listeners, c \in Clients : AcceptConnection(l, c)
  BY <1>3, AcceptKeeps
<1>4. ASSUME NEW c \in Clients,
             TryAll(c) \/ ServConnect(c) \/ ReadClient(c) \/ DeadLink(c)
               \/ CheckUnknowns(c) \/ CheckPings(c)
      PROVE  Inv'
  <2>1. CASE CheckUnknowns(c) \/ CheckPings(c)
    BY <2>1, ExitKeeps DEF CheckUnknowns, CheckPings
  <2> QED BY <1>4, <2>1, TryAllKeeps, ServConnectKeeps, ReadClientKeeps, DeadLinkKeeps
<1>5. CASE \E q \in queries : DnsAnswer(q)
  BY <1>5, DnsAnswerKeeps
<1>6. CASE \E a \in Requests : ReadIdent(a) \/ TimeoutAuth(a)
  BY <1>6, ReadIdentKeeps, TimeoutAuthKeeps
<1>7. CASE \E f \in Fds : WriteConnect(f) \/ CheckTimeout(f) \/ CheckFlush(f)
  BY <1>7, DescriptorKeeps
<1>8. CASE RemoveExited
  <2>1. Sound(remove_exited_clients(World), {})
    BY RemoveExitedSound DEF Inv
  <2>2. Become(remove_exited_clients(World))
    BY <1>8 DEF RemoveExited, Run
  <2> QED BY <2>1, <2>2, BecomeSound
<1>9. CASE UNCHANGED vars
  <2>1. World' = World
    BY <1>9 DEF World, vars
  <2> QED BY <2>1 DEF Inv
<1> QED BY <1>1, <1>2, <1>3, <1>4, <1>5, <1>6, <1>7, <1>8, <1>9 DEF Next

-----------------------------------------------------------------------------
(* What the invariant says.                                                *)

(* The invariant, in terms of the variables.                               *)
LEMMA InvParts ==
  ASSUME Inv
  PROVE  /\ Sound(World, {}) /\ Typed(World) /\ World.fds = fds /\ World.client = client
         /\ World.unknown = unknown /\ World.clients = clients /\ World.exited = exited
         /\ World.request = request /\ World.polled = polled /\ World.queries = queries
         /\ World.listener = listener
BY SoundParts, WorldFields DEF Inv

(* It implies that every descriptor has one owner, ...                     *)
LEMMA InvDescriptors == Inv => DescriptorsOwned
<1> SUFFICES ASSUME Inv PROVE DescriptorsOwned
  OBVIOUS
<1>0. /\ Sound(World, {}) /\ Typed(World) /\ World.fds = fds /\ World.client = client
      /\ World.request = request /\ World.listener = listener
  BY InvParts
<1> DEFINE h == FdOf(World)
<1>1. FdSound(fds, h)
  BY <1>0, SoundParts
<1>2. /\ \A c \in Clients : h[c] = client[c].fd
      /\ \A a \in Requests : h[a] = request[a].fd
      /\ \A l \in Listeners : h[l] = listener[l].fd
  BY <1>0, FdOfObjects
<1> HIDE DEF h
<1>3. ASSUME NEW f \in Fds
      PROVE  Cardinality(Owners(f)) = IF fds.tab[f].open THEN 1 ELSE 0
  <2>1. Owners(f) = {x \in Objects : h[x] = f}
    BY <1>2 DEF Owners, Objects
  <2>2. CASE fds.tab[f].open
    <3>1. PICK x \in Objects : h[x] = f
      BY <1>1, <2>2 DEF FdSound
    <3>2. {y \in Objects : h[y] = f} = {x}
      BY <1>1, <3>1, FdFacts DEF FdSound
    <3>3. Cardinality({x}) = 1
      BY FS_Singleton
    <3> QED BY <2>1, <2>2, <3>2, <3>3
  <2>3. CASE ~fds.tab[f].open
    <3>1. {y \in Objects : h[y] = f} = {}
      BY <1>1, <2>3, FdFacts DEF FdSound
    <3>2. Cardinality({}) = 0
      BY FS_EmptySet
    <3> QED BY <2>1, <2>3, <3>1, <3>2
  <2> QED BY <2>2, <2>3
<1>4. fds.number = Cardinality(OpenFds(fds))
  BY <1>1 DEF FdSound
<1>5. fds.highest = IF OpenFds(fds) = {} THEN -1 ELSE Max(OpenFds(fds))
  BY <1>1 DEF FdSound, Top
<1> QED BY <1>3, <1>4, <1>5 DEF DescriptorsOwned

(* ... that every registration names its owner, if no connect{} block      *)
(* names a host, ...                                                       *)
LEMMA InvCallbacks == ~ByName /\ Inv => CallbacksLive
<1> SUFFICES ASSUME ~ByName, Inv, NEW f \in Fds
             PROVE  LET e == fds.tab[f]
                    IN /\ \A h \in {e.read, e.write, e.connect, e.flush} \ {NULL} :
                            e.open /\ HandlerOwns(f, h)
                       /\ e.timer => e.connect # NULL
  BY DEF CallbacksLive
<1> DEFINE e == fds.tab[f]
<1>0. /\ Sound(World, {}) /\ World.fds = fds /\ World.client = client
      /\ World.request = request /\ World.listener = listener
  BY InvParts
<1>1. /\ EntrySound(World, f, e)
      /\ e.write = TryConnect /\ e.connect = NULL => Excused(World, {}, f)
  BY <1>0, SoundParts
<1>2. e.timer => e.connect # NULL
  BY <1>1 DEF EntrySound
<1> HIDE DEF e
<1>3. e.write = TryConnect => e.connect # NULL
  BY <1>1 DEF Excused
<1>4. ASSUME NEW h \in {e.read, e.write, e.connect, e.flush}, h # NULL
      PROVE  e.open
  <2>1. ClosedEntry.read = NULL /\ ClosedEntry.write = NULL /\ ClosedEntry.connect = NULL
        /\ ClosedEntry.flush = NULL
    BY DEF ClosedEntry
  <2> QED BY <1>1, <1>4, <2>1 DEF EntrySound
<1>5. ASSUME NEW h, h = e.read, h # NULL PROVE HandlerOwns(f, h)
  <2>1. ReadSound(World, f, h)
    BY <1>1, <1>5 DEF EntrySound
  <2> QED BY <1>0, <2>1 DEF ReadSound, HandlerOwns
<1>6. ASSUME NEW h, h = e.write, h # NULL PROVE HandlerOwns(f, h)
  <2>1. WriteSound(World, f, h)
    BY <1>1, <1>6 DEF EntrySound
  <2>2. CASE h = TryConnect
    <3>1. h[1] = "comm_connect_tryconnect"
      BY <2>2 DEF TryConnect
    <3>2. fds.tab[f].connect # NULL
      BY <1>3, <1>6, <2>2 DEF e
    <3> QED BY <3>1, <3>2 DEF HandlerOwns
  <2>3. CASE h # TryConnect
    BY <1>0, <2>1, <2>3 DEF WriteSound, HandlerOwns
  <2> QED BY <2>2, <2>3
<1>7. ASSUME NEW h, h = e.connect, h # NULL PROVE HandlerOwns(f, h)
  <2>1. ConnectSound(World, f, h)
    BY <1>1, <1>7 DEF EntrySound
  <2> QED BY <1>0, <2>1 DEF ConnectSound, HandlerOwns
<1>8. ASSUME NEW h, h = e.flush, h # NULL PROVE HandlerOwns(f, h)
  <2>1. FlushSound(World, f, h)
    BY <1>1, <1>8 DEF EntrySound
  <2> QED BY <1>0, <2>1 DEF FlushSound, HandlerOwns
<1>9. \A h \in {e.read, e.write, e.connect, e.flush} \ {NULL} : e.open /\ HandlerOwns(f, h)
  BY <1>4, <1>5, <1>6, <1>7, <1>8
<1> QED BY <1>2, <1>9 DEF e

(* ... that every query is waited for, ...                                 *)
LEMMA InvQueries == Inv => QueriesLive
<1> SUFFICES ASSUME Inv PROVE QueriesLive
  OBVIOUS
<1>0. /\ Sound(World, {}) /\ World.client = client /\ World.exited = exited
      /\ World.request = request /\ World.queries = queries
  BY InvParts
<1>1. QueriesSound(World) /\ \A a \in Requests : RequestSound(World, {}, a)
  BY <1>0, SoundParts
<1>2. ASSUME NEW q \in queries
      PROVE  /\ q.callback = "auth_dns_callback" =>
                  request[q.ptr].client = q.owner /\ request[q.ptr].dns
             /\ q.callback = "lookup_dns_callback" => q.ptr = q.owner
             /\ q.owner # NULL => client[q.owner].status = "unknown"
  <2>1. QuerySound(World, q)
    BY <1>0, <1>1 DEF QueriesSound
  <2>2. q.callback = "auth_dns_callback" =>
          q.ptr \in Requests /\ request[q.ptr].client = q.owner /\ request[q.ptr].dns
    BY <1>0, <2>1 DEF QuerySound
  <2>3. q.callback = "lookup_dns_callback" => q.ptr = q.owner
    BY <2>1 DEF QuerySound
  <2>4. q.owner # NULL => client[q.owner].status = "unknown"
    BY <1>0, <1>1, <2>1, <2>2 DEF QuerySound, RequestSound
  <2> QED BY <2>2, <2>3, <2>4
<1>3. ASSUME NEW c \in Clients
      PROVE  Cardinality({q \in queries : q.owner = c})
               = IF client[c].dns = "pending" /\ c \notin exited THEN 1 ELSE 0
  <2>1. Queried(World, c) <=> client[c].dns = "pending" /\ c \notin exited
    BY <1>0, <1>1 DEF QueriesSound
  <2>2. CASE Queried(World, c)
    <3>1. PICK q \in queries : q.owner = c
      BY <1>0, <2>2 DEF Queried
    <3>2. \A r \in queries : r.owner = c => r = q
      BY <1>0, <1>1, <3>1, Distinct DEF QueriesSound
    <3>3. {r \in queries : r.owner = c} = {q}
      BY <3>1, <3>2
    <3>4. Cardinality({q}) = 1
      BY FS_Singleton
    <3> QED BY <2>1, <2>2, <3>3, <3>4
  <2>3. CASE ~Queried(World, c)
    <3>1. {r \in queries : r.owner = c} = {}
      BY <1>0, <2>3 DEF Queried
    <3>2. Cardinality({}) = 0
      BY FS_EmptySet
    <3> QED BY <2>1, <2>3, <3>1, <3>2
  <2> QED BY <2>2, <2>3
<1> QED BY <1>2, <1>3 DEF QueriesLive

(* ... that every request is polled, ...                                   *)
LEMMA InvRequests == Inv => RequestsPolled
<1> SUFFICES ASSUME Inv PROVE RequestsPolled
  OBVIOUS
<1>0. /\ Sound(World, {}) /\ World.client = client /\ World.clients = clients
      /\ World.request = request /\ World.polled = polled
  BY InvParts
<1>1. (\A a \in Requests : RequestSound(World, {}, a)) /\ polled \in SUBSET Requests
  BY <1>0, SoundParts
<1>2. polled = {a \in Requests : request[a].client # NULL}
  BY <1>0, <1>1 DEF RequestSound
<1>3. ASSUME NEW a \in polled
      PROVE  /\ request[a].dns \/ request[a].ident # "no"
             /\ client[request[a].client].status = "unknown"
             /\ request[a].client \notin ToSet(clients)
             /\ \A b \in polled \ {a} : request[b].client # request[a].client
  <2>1. RequestSound(World, {}, a) /\ request[a].client # NULL
    BY <1>1, <1>2
  <2> QED BY <1>0, <1>1, <2>1 DEF RequestSound, Released
<1> QED BY <1>2, <1>3 DEF RequestsPolled

(* ... that the lists hold what they should, ...                           *)
LEMMA InvClientList == Inv => ClientListSound
<1> SUFFICES ASSUME Inv PROVE ClientListSound
  OBVIOUS
<1>0. /\ Sound(World, {}) /\ Typed(World) /\ World.client = client /\ World.clients = clients
      /\ World.unknown = unknown
  BY InvParts
<1>1. IsInjective(clients) /\ \A c \in Clients : ClientSound(World, {}, c)
  BY <1>0, SoundParts
<1>2. ToSet(clients) \subseteq Clients
  BY <1>0, ListOf DEF Typed
<1>3. \A c \in ToSet(clients) : client[c].status # "free"
  BY <1>0, <1>1, <1>2 DEF ClientSound, Released
<1>4. ASSUME NEW c \in Clients
      PROVE  /\ client[c].status \in {"client", "server", "connecting", "handshake"} => c \in ToSet(clients)
             /\ c \in unknown <=> client[c].status \in {"unknown", "connecting", "handshake"}
  BY <1>0, <1>1 DEF ClientSound, Released
<1> QED BY <1>1, <1>3, <1>4 DEF ClientListSound

(* ... that every live connection has something armed, ...                 *)
LEMMA InvStranded == Inv => NobodyStranded
<1> SUFFICES ASSUME Inv, NEW c \in Clients,
                    client[c].status \in {"unknown", "connecting", "handshake", "client", "server"},
                    ~client[c].dead
             PROVE  LET e == fds.tab[client[c].fd]
                    IN \/ e.read # NULL \/ e.write # NULL
                       \/ \E a \in polled : request[a].client = c
                       \/ \E q \in queries : q.owner = c \/ q.ptr = client[c].fd
  BY DEF NobodyStranded
<1>0. /\ Sound(World, {}) /\ World.fds = fds /\ World.client = client
      /\ World.request = request /\ World.polled = polled /\ World.queries = queries
  BY InvParts
<1>1. Armed(World, c) /\ ClientSound(World, {}, c) /\ \A a \in Requests : RequestSound(World, {}, a)
  BY <1>0, SoundParts
<1> DEFINE e == fds.tab[client[c].fd]
<1>2. CASE client[c].status = "connecting"
  <2>1. e.write # NULL \/ DnsQuery(client[c].fd) \in queries
    BY <1>0, <1>1, <1>2 DEF Armed
  <2>2. DnsQuery(client[c].fd).ptr = client[c].fd
    BY DEF DnsQuery
  <2> QED BY <2>1, <2>2
<1>3. CASE client[c].status = "unknown" /\ ~Released(World, c)
  <2>1. TryAllSet(World, c) \/ Asked(World, c) \/ Queried(World, c)
    BY <1>0, <1>1, <1>3 DEF Armed
  <2>2. TryAllSet(World, c) => e.write # NULL
    <3>1. <<"comm_tryall_callback", c>> # NULL
      BY Distinct DEF Callbacks, Objects
    <3> QED BY <1>0, <3>1 DEF TryAllSet
  <2>3. Asked(World, c) => \E a \in polled : request[a].client = c
    BY <1>0, <1>1, Distinct DEF Asked, RequestSound
  <2>4. Queried(World, c) => \E q \in queries : q.owner = c
    BY <1>0 DEF Queried
  <2> QED BY <2>1, <2>2, <2>3, <2>4
<1>4. CASE client[c].status # "connecting" /\ Released(World, c)
  BY <1>0, <1>1, <1>4 DEF Armed, Live
<1>5. client[c].status \in {"client", "server", "handshake"} => Released(World, c)
  BY <1>0, <1>1 DEF ClientSound
<1> QED BY <1>2, <1>3, <1>4, <1>5

(* ... and that a listener counts its connections.                         *)
LEMMA InvListeners == Inv => ListenersOutliveClients
<1> SUFFICES ASSUME Inv, NEW l \in Listeners
             PROVE  /\ listener[l].refs >= Cardinality(References(l))
                    /\ References(l) # {} => listener[l].kind # NULL
                    /\ listener[l].active <=> listener[l].fd # -1
  BY DEF ListenersOutliveClients
<1>0. Sound(World, {}) /\ World.client = client /\ World.listener = listener
  BY InvParts
<1>1. ListenerSound(World, l)
  BY <1>0, SoundParts
<1>2. ReferencesOf(World, l) = References(l)
  BY <1>0 DEF ReferencesOf, References
<1> QED BY <1>0, <1>1, <1>2 DEF ListenerSound

-----------------------------------------------------------------------------
(* The invariant holds.                                                    *)
LEMMA SpecInv == Spec => []Inv
BY InitSound, NextKeeps, PTL DEF Spec

(* Every open descriptor has exactly one owner, every owner's descriptor   *)
(* is open, and number_fd and highest_fd say what fd_table holds, whatever *)
(* order the I/O loop, the resolver and the event table call the handlers  *)
(* in: fd_close is never called twice for a descriptor or not at all.      *)
THEOREM SpecDescriptorsOwned == Spec => []DescriptorsOwned
BY SpecInv, InvDescriptors, PTL

(* A server that connects to addresses, not to host names, never calls a   *)
(* handler of fd_table with a block that was freed or given to another     *)
(* connection since.                                                       *)
THEOREM SpecCallbacksLive == ~ByName => (Spec => []CallbacksLive)
<1> SUFFICES ASSUME ~ByName PROVE Spec => []CallbacksLive
  OBVIOUS
<1>1. Inv => CallbacksLive
  BY InvCallbacks
<1> QED BY <1>1, SpecInv, PTL

(* delete_adns_queries cancels exactly the queries in flight: the callback *)
(* argument of every query is live.                                        *)
THEOREM SpecQueriesLive == Spec => []QueriesLive
BY SpecInv, InvQueries, PTL

(* Every auth request is on auth_poll_list, waits for something, and is    *)
(* the only one of a client that was not released.                         *)
THEOREM SpecRequestsPolled == Spec => []RequestsPolled
BY SpecInv, InvRequests, PTL

(* GlobalClientList and unknown_list hold the blocks they should, each     *)
(* once and none after remove_client_from_list freed it.                   *)
THEOREM SpecClientListSound == Spec => []ClientListSound
BY SpecInv, InvClientList, PTL

(* No path through the handlers leaves a live connection without something *)
(* that will look at it again.                                             *)
THEOREM SpecNobodyStranded == Spec => []NobodyStranded
BY SpecInv, InvStranded, PTL

(* ref_count never undercounts the connections of a listener, so that      *)
(* close_listener and the exit of the last connection free it in time.     *)
THEOREM SpecListenersOutliveClients == Spec => []ListenersOutliveClients
BY SpecInv, InvListeners, PTL
=============================================================================
