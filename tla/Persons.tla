------------------------------ MODULE Persons ------------------------------
(***************************************************************************)
(* The registered users that the per-user lists refer to.  A client is the *)
(* address of its block, which its heap hands out again after an exit: a   *)
(* list that keeps the address of a user who left refers to freed memory,  *)
(* and later to a stranger.                                                *)
(***************************************************************************)
EXTENDS Naturals, FiniteSets

CONSTANTS
    Clients,    \* addresses of client blocks
    Local,      \* those of the heap of local clients
    Nicks,      \* nicknames
    Hash0,      \* the nicknames whose strhash is 0: find_client never finds them
    MaxPersons, \* bound: users at a time
    NULL

ASSUME PersonsAssumption ==
    /\ Local \subseteq Clients /\ NULL \notin Clients \cup Nicks
    /\ IsFiniteSet(Clients) /\ Hash0 \subseteq Nicks /\ MaxPersons \in Nat

VARIABLES
    person,   \* the clients with IsPerson: a user block and a registered status
    name      \* cptr->name, NULL for a block that is not in use

\* find_client, which NICK asks before it gives a name away.
InUse(n) == n \notin Hash0 /\ \E c \in person : name[c] = n

\* register_user or register_remote_user: the block has a user block now and is in
\* the client hash table under a name that find_client did not know.
MakePerson(c, n) ==
    /\ c \notin person /\ ~InUse(n) /\ Cardinality(person) < MaxPersons
    /\ person' = person \cup {c} /\ name' = [name EXCEPT ![c] = n]

\* The end of exit_one_client: free_user, del_from_client_hash_table, free_client.
FreePerson(c) ==
    /\ person' = person \ {c} /\ name' = [name EXCEPT ![c] = NULL]
=============================================================================
