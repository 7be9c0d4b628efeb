------------------------------ MODULE Topology ------------------------------
(***************************************************************************)
(* What server/s_exit.c, server/s_serv.c and protocol/native.c promise     *)
(* together: the clients this server knows form a tree below it, and every *)
(* neighbouring server has been told exactly the part of the tree that is  *)
(* not behind that neighbour.  Both change in one step, however many       *)
(* clients a split takes along.  Network implements this specification.    *)
(***************************************************************************)
CONSTANTS
  Clients,   \* every other server and person that can be known here
  Me         \* this server, the root

VARIABLES
  up,        \* the tree: the server each known client is behind
  hosts,     \* the known clients that are servers
  told       \* for every neighbouring server, the tree it has been told of

topology == <<up, hosts, told>>

(* The clients from z up to the root, without the root.                    *)
Above(tree) ==
  LET path[z \in DOMAIN tree] ==
        {z} \cup IF tree[z] \in DOMAIN tree THEN path[tree[z]] ELSE {}
  IN  path

(* The subtree of x, x included.                                           *)
Behind(tree, x) == {z \in DOMAIN tree : x \in Above(tree)[z]}

Without(tree, gone) == [z \in DOMAIN tree \ gone |-> tree[z]]

Neighbours(tree, servers) == {x \in servers : tree[x] = Me}

Views(tree, servers) ==
  [l \in Neighbours(tree, servers) |-> Without(tree, Behind(tree, l))]

Init == up = << >> /\ hosts = {} /\ told = << >>

(* A server or a person appears behind a known server.                     *)
Join(x, y, isServer) ==
  /\ up' = [z \in DOMAIN up \cup {x} |-> IF z = x THEN y ELSE up[z]]
  /\ hosts' = IF isServer THEN hosts \cup {x} ELSE hosts
  /\ told' = Views(up', hosts')

(* A client leaves and takes everything behind it along.                   *)
Leave(x) ==
  /\ up' = Without(up, Behind(up, x))
  /\ hosts' = hosts \ Behind(up, x)
  /\ told' = Views(up', hosts')

Next ==
  \/ \E x \in Clients \ DOMAIN up, y \in hosts \cup {Me}, isServer \in BOOLEAN :
       Join(x, y, isServer)
  \/ \E x \in DOMAIN up : Leave(x)

Spec == Init /\ [][Next]_topology
=============================================================================
