------------------------------- MODULE Watch -------------------------------
(***************************************************************************)
(* The WATCH table: a block per watched nickname with the local users who  *)
(* watch it, and on each user the blocks of the nicknames watched.  A      *)
(* block is freed with its last watcher, and its address used again.       *)
(***************************************************************************)
EXTENDS Persons

CONSTANTS
    Blocks,   \* addresses of struct Watch
    Bucket0   \* the nicknames whose hash is 0: the table refuses them

ASSUME WatchAssumption == IsFiniteSet(Blocks) /\ Bucket0 \subseteq Nicks /\ NULL \notin Blocks

VARIABLES
    watchnick,    \* awptr->watchnick, NULL for a block that is not in the table
    watched_by,   \* awptr->watched_by
    watchlist,    \* cptr->watchlist
    watches       \* cptr->watches

watchVars == <<watchnick, watched_by, watchlist, watches>>

WatchInit ==
    /\ watchnick = [b \in Blocks |-> NULL] /\ watched_by = [b \in Blocks |-> {}]
    /\ watchlist = [c \in Clients |-> {}] /\ watches = [c \in Clients |-> 0]

\* The block that the walk of the bucket finds.
Lookup(n) == {b \in Blocks : watchnick[b] = n}

AddWatch(b, n, c) ==
    /\ watchnick' = [watchnick EXCEPT ![b] = n]
    /\ watched_by' = [watched_by EXCEPT ![b] = @ \cup {c}]
    /\ watchlist' = [watchlist EXCEPT ![c] = @ \cup {b}]
    /\ watches' = [watches EXCEPT ![c] = @ + 1]

add_to_watch_hash_table(n, c) ==
    /\ c \in person \cap Local /\ n \notin Bucket0
    /\ \/ \E b \in Lookup(n) : c \notin watched_by[b] /\ AddWatch(b, n, c)
       \/ /\ Lookup(n) = {}
          /\ \E b \in Blocks : watchnick[b] = NULL /\ AddWatch(b, n, c)

\* Mutant: the block is freed with its first watcher
FreeAlways(blocks) == watchnick' = [b \in Blocks |-> IF b \in blocks THEN NULL ELSE watchnick[b]]

\* A block that nobody watches leaves the table.
FreeEmpty(blocks) ==
    watchnick' = [b \in Blocks |-> IF b \in blocks /\ watched_by'[b] = {} THEN NULL ELSE watchnick[b]]

del_from_watch_hash_table(n, c) ==
    \E b \in Lookup(n) :
        /\ c \in watched_by[b] /\ n \notin Bucket0
        /\ watched_by' = [watched_by EXCEPT ![b] = @ \ {c}]
        /\ watchlist' = [watchlist EXCEPT ![c] = @ \ {b}]
        /\ FreeEmpty({b})
        /\ watches' = [watches EXCEPT ![c] = @ - 1]

hash_del_watch_list(c) ==
    /\ watched_by' = [b \in Blocks |-> IF b \in watchlist[c] THEN watched_by[b] \ {c} ELSE watched_by[b]]
    /\ watchlist' = [watchlist EXCEPT ![c] = {}]
    /\ FreeEmpty(watchlist[c])
    /\ watches' = [watches EXCEPT ![c] = 0]

WatchNext ==
    \E c \in Clients :
        \/ \E n \in Nicks : add_to_watch_hash_table(n, c) \/ del_from_watch_hash_table(n, c)
        \/ c \in person \cap Local /\ watchlist[c] # {} /\ hash_del_watch_list(c)

\* hash_check_watch sends to everybody on watched_by: they are registered local
\* users who list the block, a block is in the table as long as somebody watches
\* it, a nickname has one block, and the count that limits WATCH is the list's.
WatchMirrored ==
    /\ \A b \in Blocks, c \in Clients : /\ c \in watched_by[b] <=> b \in watchlist[c]
                                        /\ c \in watched_by[b] => c \in person \cap Local
    /\ \A b \in Blocks : watchnick[b] = NULL <=> watched_by[b] = {}
    /\ \A a, b \in Blocks : watchnick[a] = watchnick[b] /\ watchnick[a] # NULL => a = b
    /\ \A c \in Clients : watches[c] = Cardinality(watchlist[c])
=============================================================================
