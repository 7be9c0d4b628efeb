------------------------------ MODULE Whowas -------------------------------
(***************************************************************************)
(* The nickname history: a ring of entries, each with the name given up    *)
(* and, while its owner is still on the network under another name, the    *)
(* owner's address; the owner lists its entries.  The chains of the hash   *)
(* table hold their entries newest first, and the ring is filled in order, *)
(* so the order of a chain is that of the ring's ages.                     *)
(***************************************************************************)
EXTENDS Persons

CONSTANT NICKNAMEHISTORYLENGTH

ASSUME HistoryAssumption == NICKNAMEHISTORYLENGTH \in Nat \ {0}

VARIABLES
    past,          \* WHOWAS[i].name, NULL for an entry not used yet (hashv = -1)
    online,        \* WHOWAS[i].online
    whowas,        \* cptr->whowas: the entries of a client
    whowas_next,
    former         \* history: the person who gave a name up last and is still here

historyVars == <<past, online, whowas, whowas_next, former>>

Slots == 0 .. NICKNAMEHISTORYLENGTH - 1

HistoryInit ==
    /\ past = [i \in Slots |-> NULL] /\ online = [i \in Slots |-> NULL]
    /\ whowas = [c \in Clients |-> {}] /\ whowas_next = 0
    /\ former = [n \in Nicks |-> NULL]

\* Mutant: the entry that is overwritten stays on its owner's list
EvictedNever == whowas

\* The clients' lists without the entry that is overwritten next.
Evicted ==
    IF online[whowas_next] # NULL
    THEN [whowas EXCEPT ![online[whowas_next]] = @ \ {whowas_next}] ELSE whowas

Advance == IF whowas_next + 1 = NICKNAMEHISTORYLENGTH THEN 0 ELSE whowas_next + 1

\* add_history with online set, from the command that changes a nickname.
GiveUp(c) ==
    /\ past' = [past EXCEPT ![whowas_next] = name[c]]
    /\ online' = [online EXCEPT ![whowas_next] = c]
    /\ whowas' = [Evicted EXCEPT ![c] = @ \cup {whowas_next}]
    /\ whowas_next' = Advance
    /\ former' = [former EXCEPT ![name[c]] = c]

\* add_history without online, then off_history: the owner's entries forget it.
SignOff(c) ==
    /\ past' = [past EXCEPT ![whowas_next] = name[c]]
    /\ online' = [i \in Slots |-> IF i = whowas_next \/ i \in Evicted[c] THEN NULL ELSE online[i]]
    /\ whowas' = [Evicted EXCEPT ![c] = {}]
    /\ whowas_next' = Advance
    /\ former' = [n \in Nicks |-> IF n = name[c] \/ former[n] = c THEN NULL ELSE former[n]]

\* How many entries have been made since entry i.
Age(i) == (whowas_next + NICKNAMEHISTORYLENGTH - 1 - i) % NICKNAMEHISTORYLENGTH

\* Mutant: the chain is searched from its oldest entry
get_historyOldest(n, k) ==
    LET match == {i \in Slots : past[i] = n /\ Age(i) < k}
    IN IF match = {} THEN NULL
       ELSE online[CHOOSE i \in match : \A j \in match : Age(i) >= Age(j)]

\* get_history, when the k newest entries are within the time limit.
get_history(n, k) ==
    LET match == {i \in Slots : past[i] = n /\ Age(i) < k}
    IN IF match = {} THEN NULL
       ELSE online[CHOOSE i \in match : \A j \in match : Age(i) <= Age(j)]

\* add_history follows the owner of the entry it overwrites and get_history returns
\* it: it is a registered user, whose list has exactly the entries that name it.
OwnersLive ==
    /\ \A c \in Clients : whowas[c] = {i \in Slots : online[i] = c}
    /\ \A c \in Clients : whowas[c] # {} => c \in person

\* A KILL that chases a nickname meets the user who gave it up last, or nobody:
\* never an earlier owner, and never a stranger who got a freed block.
ChaseFindsLast ==
    \A n \in Nicks, k \in 1 .. NICKNAMEHISTORYLENGTH : get_history(n, k) \in {former[n], NULL}
=============================================================================
