------------------------------- MODULE Users -------------------------------
(***************************************************************************)
(* Everything that refers to a user by address outside the channels, put   *)
(* together: one user's exit has to clear all of it.                       *)
(***************************************************************************)
EXTENDS UserLists, Watch, Whowas

vars == <<person, name, listVars, watchVars, historyVars>>

Init ==
    /\ person = {} /\ name = [c \in Clients |-> NULL]
    /\ ListsInit /\ WatchInit /\ HistoryInit

Register(c, n) == MakePerson(c, n) /\ UNCHANGED <<listVars, watchVars, historyVars>>

\* The NICK command: it records the old name and takes the new one.
ChangeNick(c, n) ==
    /\ c \in person /\ ~InUse(n)
    /\ GiveUp(c)
    /\ name' = [name EXCEPT ![c] = n]
    /\ UNCHANGED <<person, listVars, watchVars>>

\* exit_client and exit_one_client: a local user's watches go first.
exit_client(c) ==
    /\ c \in person
    /\ IF c \in Local THEN hash_del_watch_list(c) ELSE UNCHANGED watchVars
    /\ remove_dcc_references(c)
    /\ remove_accept_references(c)
    /\ SignOff(c)
    /\ FreePerson(c)

Next ==
    \/ \E c \in Clients, n \in Nicks : Register(c, n) \/ ChangeNick(c, n)
    \/ \E c \in Clients : exit_client(c)
    \/ ListsNext /\ UNCHANGED <<person, name, watchVars, historyVars>>
    \/ WatchNext /\ UNCHANGED <<person, name, listVars, historyVars>>

Spec == Init /\ [][Next]_vars

TypeOK ==
    /\ person \subseteq Clients /\ name \in [Clients -> Nicks \cup {NULL}]
    /\ accepted \in [Clients -> SUBSET Clients] /\ accepted_by \in [Clients -> SUBSET Clients]
    /\ accept_informed \in [Clients -> SUBSET Clients]
    /\ accept_informed_by \in [Clients -> SUBSET Clients]
    /\ dccallow \in [Clients -> SUBSET Clients] /\ allowed_by \in [Clients -> SUBSET Clients]
    /\ watchnick \in [Blocks -> Nicks \cup {NULL}] /\ watched_by \in [Blocks -> SUBSET Clients]
    /\ watchlist \in [Clients -> SUBSET Blocks] /\ watches \in [Clients -> Nat]
    /\ past \in [Slots -> Nicks \cup {NULL}] /\ online \in [Slots -> Clients \cup {NULL}]
    /\ whowas \in [Clients -> SUBSET Slots] /\ whowas_next \in Slots
    /\ former \in [Nicks -> Clients \cup {NULL}]
    /\ \A c \in Clients : c \in person <=> name[c] # NULL
=============================================================================
