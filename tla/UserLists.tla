----------------------------- MODULE UserLists -----------------------------
(***************************************************************************)
(* The ACCEPT and DCCALLOW lists.  Each is kept twice: on the user who     *)
(* made the entry and, for the day the other one leaves, on the user it    *)
(* names.  A third pair remembers who has been told of whom.               *)
(***************************************************************************)
EXTENDS Persons

CONSTANTS
    MAXACCEPTED,
    MAXDCCALLOW,
    MaxInformed   \* bound: entries of accept_informed in all

ASSUME LimitsAssumption ==
    MAXACCEPTED \in Nat /\ MAXDCCALLOW \in Nat /\ MaxInformed \in Nat

VARIABLES
    accepted, accepted_by,
    accept_informed, accept_informed_by,
    dccallow, allowed_by

listVars == <<accepted, accepted_by, accept_informed, accept_informed_by, dccallow, allowed_by>>

NoEntries == [c \in Clients |-> {}]

ListsInit ==
    /\ accepted = NoEntries /\ accepted_by = NoEntries
    /\ accept_informed = NoEntries /\ accept_informed_by = NoEntries
    /\ dccallow = NoEntries /\ allowed_by = NoEntries

\* l with o on s's list, or off it.
Entered(l, s, o) == [l EXCEPT ![s] = @ \cup {o}]
Struck(l, s, o) == [l EXCEPT ![s] = @ \ {o}]

\* Mutant: the user's own lists are cleared, the others' are not
SweptOne(l, back, s) == [l EXCEPT ![s] = {}]

\* l without the entries of s, and without s on the lists that s's other list
\* leads to: that is how the code finds them, it never walks all users.
Swept(l, back, s) ==
    [c \in Clients |-> IF c = s THEN {} ELSE IF c \in back[s] THEN l[c] \ {s} ELSE l[c]]

accept_client(s, c) ==
    /\ {s, c} \subseteq person
    /\ c \notin accepted[s] /\ Cardinality(accepted[s]) + 1 < MAXACCEPTED
    /\ accepted' = Entered(accepted, s, c)
    /\ accepted_by' = Entered(accepted_by, c, s)
    /\ UNCHANGED <<accept_informed, accept_informed_by, dccallow, allowed_by>>

\* Each side is searched by itself; a call that finds neither entry changes nothing.
deny_client(s, o) ==
    /\ {s, o} \subseteq person
    /\ o \in accepted[s] \/ s \in accepted_by[o]
    /\ accepted' = Struck(accepted, s, o)
    /\ accepted_by' = Struck(accepted_by, o, s)
    /\ UNCHANGED <<accept_informed, accept_informed_by, dccallow, allowed_by>>

\* A message to a user who denies private messages, from somebody without
\* privileges whom neither list knows: both are told, once.
check_accept(from, to) ==
    /\ {from, to} \subseteq person /\ to \in Local
    /\ from \notin accepted[to] /\ from \notin accept_informed[to]
    /\ Cardinality({p \in Clients \X Clients : p[2] \in accept_informed[p[1]]}) < MaxInformed
    /\ accept_informed' = Entered(accept_informed, to, from)
    /\ accept_informed_by' = Entered(accept_informed_by, from, to)
    /\ UNCHANGED <<accepted, accepted_by, dccallow, allowed_by>>

add_dccallow(s, c) ==
    /\ {s, c} \subseteq person
    /\ c \notin dccallow[s] /\ Cardinality(dccallow[s]) + 1 < MAXDCCALLOW
    /\ dccallow' = Entered(dccallow, s, c)
    /\ allowed_by' = Entered(allowed_by, c, s)
    /\ UNCHANGED <<accepted, accepted_by, accept_informed, accept_informed_by>>

del_dccallow(s, o) ==
    /\ {s, o} \subseteq person
    /\ o \in dccallow[s] \/ s \in allowed_by[o]
    /\ dccallow' = Struck(dccallow, s, o)
    /\ allowed_by' = Struck(allowed_by, o, s)
    /\ UNCHANGED <<accepted, accepted_by, accept_informed, accept_informed_by>>

remove_dcc_references(s) ==
    /\ dccallow' = Swept(dccallow, allowed_by, s)
    /\ allowed_by' = Swept(allowed_by, dccallow, s)

remove_accept_references(s) ==
    /\ accepted' = Swept(accepted, accepted_by, s)
    /\ accepted_by' = Swept(accepted_by, accepted, s)
    /\ accept_informed' = Swept(accept_informed, accept_informed_by, s)
    /\ accept_informed_by' = Swept(accept_informed_by, accept_informed, s)

ListsNext ==
    \E s, o \in Clients :
        \/ accept_client(s, o) \/ deny_client(s, o) \/ check_accept(s, o)
        \/ add_dccallow(s, o) \/ del_dccallow(s, o)

Mirror(l, back) ==
    \A s, o \in Clients : /\ o \in l[s] <=> s \in back[o]
                          /\ o \in l[s] => {s, o} \subseteq person

\* Every entry is known on both sides and both are registered: no list keeps the
\* address of a user who left, since the walk that clears a user's entries starts
\* from the user's own lists.
ListsMirrored ==
    /\ Mirror(accepted, accepted_by)
    /\ Mirror(accept_informed, accept_informed_by)
    /\ Mirror(dccallow, allowed_by)
=============================================================================
