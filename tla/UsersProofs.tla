---------------------------- MODULE UsersProofs -----------------------------
(***************************************************************************)
(* For every number of users, nicknames, watch blocks and history entries: *)
(* no list of a user, no watch block and no history entry ever refers to a *)
(* user who left.  The inductive invariant is the conjunction of the       *)
(* mirrors: a user's exit finds what to clear through the user's own       *)
(* lists, so it clears everything only if nothing is missing from them.    *)
(***************************************************************************)
EXTENDS Users, FiniteSetTheorems, WellFoundedInduction, TLAPS

IInv == TypeOK /\ ListsMirrored /\ WatchMirrored /\ OwnersLive

\* Pairs of lists of users.
Rel == [Clients -> SUBSET Clients]

-----------------------------------------------------------------------------
\* An entry made on both sides leaves the pair mirrored.
LEMMA EnteredMirror ==
  ASSUME NEW l \in Rel, NEW back \in Rel, NEW s \in person, NEW o \in person,
         person \subseteq Clients, Mirror(l, back)
  PROVE  /\ Entered(l, s, o) \in Rel /\ Entered(back, o, s) \in Rel
         /\ Mirror(Entered(l, s, o), Entered(back, o, s))
  BY DEF Rel, Entered, Mirror

\* An entry removed on both sides leaves the pair mirrored.
LEMMA StruckMirror ==
  ASSUME NEW l \in Rel, NEW back \in Rel, NEW s \in Clients, NEW o \in Clients,
         Mirror(l, back)
  PROVE  /\ Struck(l, s, o) \in Rel /\ Struck(back, o, s) \in Rel
         /\ Mirror(Struck(l, s, o), Struck(back, o, s))
  BY DEF Rel, Struck, Mirror

\* Clearing a user's entries through the user's own two lists removes the user
\* from every list, and leaves the pair mirrored among the others.
LEMMA SweptMirror ==
  ASSUME NEW l \in Rel, NEW back \in Rel, NEW s \in Clients, Mirror(l, back)
  PROVE  /\ Swept(l, back, s) \in Rel /\ Swept(back, l, s) \in Rel
         /\ \A a, o \in Clients :
              /\ o \in Swept(l, back, s)[a] <=> a \in Swept(back, l, s)[o]
              /\ o \in Swept(l, back, s)[a] => {a, o} \subseteq person \ {s}
  BY DEF Rel, Swept, Mirror

-----------------------------------------------------------------------------
LEMMA InitIInv == Init => IInv
<1> SUFFICES ASSUME Init PROVE IInv
  OBVIOUS
<1> USE DEF Init, ListsInit, NoEntries, WatchInit, HistoryInit
<1>1. TypeOK
  BY HistoryAssumption, PersonsAssumption DEF TypeOK, Slots
<1>2. ListsMirrored
  BY DEF ListsMirrored, Mirror
<1>3. WatchMirrored
  BY FS_EmptySet DEF WatchMirrored
<1>4. OwnersLive
  BY PersonsAssumption DEF OwnersLive, Slots
<1> QED
  BY <1>1, <1>2, <1>3, <1>4 DEF IInv

-----------------------------------------------------------------------------
\* A registration does not touch the lists, and makes one more user.
LEMMA RegisterIInv ==
  ASSUME IInv, NEW c \in Clients, NEW n \in Nicks, Register(c, n)
  PROVE  IInv'
<1> USE DEF Register, MakePerson, listVars, watchVars, historyVars
<1>1. TypeOK'
  BY PersonsAssumption DEF IInv, TypeOK, Slots
<1>2. ListsMirrored'
  BY DEF IInv, ListsMirrored, Mirror
<1>3. WatchMirrored'
  BY DEF IInv, WatchMirrored
<1>4. OwnersLive'
  BY DEF IInv, OwnersLive, Slots
<1> QED
  BY <1>1, <1>2, <1>3, <1>4 DEF IInv

\* What add_history leaves of the clients' lists when it reuses an entry.
LEMMA EvictedIs ==
  ASSUME IInv
  PROVE  Evicted = [c \in Clients |-> whowas[c] \ {whowas_next}]
<1>1. /\ whowas \in [Clients -> SUBSET Slots] /\ online \in [Slots -> Clients \cup {NULL}]
      /\ whowas_next \in Slots
      /\ \A c \in Clients : whowas[c] = {i \in Slots : online[i] = c}
  BY DEF IInv, TypeOK, OwnersLive
<1>2. Evicted \in [Clients -> SUBSET Slots]
  BY <1>1 DEF Evicted
<1>3. ASSUME NEW c \in Clients PROVE Evicted[c] = whowas[c] \ {whowas_next}
  <2>1. CASE online[whowas_next] = c
    BY <1>1, <2>1, PersonsAssumption DEF Evicted
  <2>2. CASE online[whowas_next] # c
    BY <1>1, <2>2, PersonsAssumption DEF Evicted
  <2> QED
    BY <2>1, <2>2
<1> QED
  BY <1>2, <1>3

LEMMA AdvanceType ==
  ASSUME whowas_next \in Slots
  PROVE  Advance \in Slots
  BY HistoryAssumption DEF Slots, Advance

LEMMA ChangeNickIInv ==
  ASSUME IInv, NEW c \in Clients, NEW n \in Nicks, ChangeNick(c, n)
  PROVE  IInv'
<1> USE DEF ChangeNick, GiveUp, listVars, watchVars
<1>0. whowas_next \in Slots /\ Advance \in Slots
  BY AdvanceType DEF IInv, TypeOK
<1>1. TypeOK'
  BY <1>0, EvictedIs, PersonsAssumption DEF IInv, TypeOK
<1>2. ListsMirrored'
  BY DEF IInv, ListsMirrored, Mirror
<1>3. WatchMirrored'
  BY DEF IInv, WatchMirrored
<1>4. OwnersLive'
  BY <1>0, EvictedIs DEF IInv, TypeOK, OwnersLive, Slots
<1> QED
  BY <1>1, <1>2, <1>3, <1>4 DEF IInv

-----------------------------------------------------------------------------
\* The ACCEPT and DCCALLOW commands.
LEMMA ListsIInv ==
  ASSUME IInv, ListsNext, UNCHANGED <<person, name, watchVars, historyVars>>
  PROVE  IInv'
<1> USE DEF watchVars, historyVars
<1>1. WatchMirrored' /\ OwnersLive'
  BY DEF IInv, WatchMirrored, OwnersLive, Slots
<1>2. /\ accepted \in Rel /\ accepted_by \in Rel /\ dccallow \in Rel /\ allowed_by \in Rel
      /\ accept_informed \in Rel /\ accept_informed_by \in Rel
      /\ person \subseteq Clients
  BY DEF IInv, TypeOK, Rel
<1>3. /\ Mirror(accepted, accepted_by) /\ Mirror(dccallow, allowed_by)
      /\ Mirror(accept_informed, accept_informed_by)
  BY DEF IInv, ListsMirrored
<1>4. /\ accepted' \in Rel /\ accepted_by' \in Rel /\ dccallow' \in Rel /\ allowed_by' \in Rel
      /\ accept_informed' \in Rel /\ accept_informed_by' \in Rel
      /\ Mirror(accepted', accepted_by') /\ Mirror(dccallow', allowed_by')
      /\ Mirror(accept_informed', accept_informed_by')
  <2>1. PICK s \in Clients, o \in Clients :
          \/ accept_client(s, o) \/ deny_client(s, o) \/ check_accept(s, o)
          \/ add_dccallow(s, o) \/ del_dccallow(s, o)
    BY DEF ListsNext
  <2>2. CASE accept_client(s, o)
    BY <1>2, <1>3, <2>2, EnteredMirror DEF accept_client
  <2>3. CASE deny_client(s, o)
    BY <1>2, <1>3, <2>3, StruckMirror DEF deny_client
  <2>4. CASE check_accept(s, o)
    BY <1>2, <1>3, <2>4, EnteredMirror DEF check_accept
  <2>5. CASE add_dccallow(s, o)
    BY <1>2, <1>3, <2>5, EnteredMirror DEF add_dccallow
  <2>6. CASE del_dccallow(s, o)
    BY <1>2, <1>3, <2>6, StruckMirror DEF del_dccallow
  <2> QED
    BY <2>1, <2>2, <2>3, <2>4, <2>5, <2>6
<1>5. TypeOK'
  BY <1>4 DEF IInv, TypeOK, Rel, Slots
<1>6. ListsMirrored'
  BY <1>4 DEF ListsMirrored, Mirror
<1> QED
  BY <1>1, <1>5, <1>6 DEF IInv

-----------------------------------------------------------------------------
\* One more watcher, in a block that already has the nickname or in a new one.
LEMMA AddWatchMirror ==
  ASSUME IInv, NEW n \in Nicks, NEW c \in Clients, add_to_watch_hash_table(n, c),
         UNCHANGED person
  PROVE  /\ watchnick' \in [Blocks -> Nicks \cup {NULL}] /\ watched_by' \in [Blocks -> SUBSET Clients]
         /\ watchlist' \in [Clients -> SUBSET Blocks] /\ watches' \in [Clients -> Nat]
         /\ WatchMirrored'
<1>0. /\ watchnick \in [Blocks -> Nicks \cup {NULL}] /\ watched_by \in [Blocks -> SUBSET Clients]
      /\ watchlist \in [Clients -> SUBSET Blocks] /\ watches \in [Clients -> Nat]
      /\ WatchMirrored
  BY DEF IInv, TypeOK
<1>1. PICK b \in Blocks : /\ AddWatch(b, n, c) /\ c \notin watched_by[b]
                          /\ watchnick[b] = n \/ (watchnick[b] = NULL /\ Lookup(n) = {})
  <2>1. CASE \E b \in Lookup(n) : c \notin watched_by[b] /\ AddWatch(b, n, c)
    BY <2>1 DEF Lookup
  <2>2. CASE Lookup(n) = {} /\ \E b \in Blocks : watchnick[b] = NULL /\ AddWatch(b, n, c)
    BY <1>0, <2>2 DEF WatchMirrored
  <2> QED
    BY <2>1, <2>2 DEF add_to_watch_hash_table
<1>2. /\ watchnick' \in [Blocks -> Nicks \cup {NULL}] /\ watched_by' \in [Blocks -> SUBSET Clients]
      /\ watchlist' \in [Clients -> SUBSET Blocks] /\ watches' \in [Clients -> Nat]
  BY <1>0, <1>1 DEF AddWatch
<1>3. \A a \in Blocks, d \in Clients : /\ d \in watched_by'[a] <=> a \in watchlist'[d]
                                       /\ d \in watched_by'[a] => d \in person' \cap Local
  BY <1>0, <1>1 DEF AddWatch, WatchMirrored, add_to_watch_hash_table
<1>4. \A a \in Blocks : watchnick'[a] = NULL <=> watched_by'[a] = {}
  BY <1>0, <1>1, PersonsAssumption DEF AddWatch, WatchMirrored
<1>5. \A a, d \in Blocks : watchnick'[a] = watchnick'[d] /\ watchnick'[a] # NULL => a = d
  BY <1>0, <1>1 DEF AddWatch, WatchMirrored, Lookup
<1>6. ASSUME NEW d \in Clients PROVE watches'[d] = Cardinality(watchlist'[d])
  <2>1. IsFiniteSet(watchlist[d])
    BY <1>0, FS_Subset, WatchAssumption
  <2>2. CASE d = c
    <3>1. b \notin watchlist[c] /\ watchlist'[c] = watchlist[c] \cup {b}
      BY <1>0, <1>1 DEF AddWatch, WatchMirrored
    <3>2. Cardinality(watchlist[c] \cup {b}) = Cardinality(watchlist[c]) + 1
      BY <2>1, <2>2, <3>1, FS_AddElement
    <3> QED
      BY <1>0, <1>1, <2>2, <3>1, <3>2 DEF AddWatch, WatchMirrored
  <2>3. CASE d # c
    BY <1>0, <1>1, <2>3 DEF AddWatch, WatchMirrored
  <2> QED
    BY <2>2, <2>3
<1> QED
  BY <1>2, <1>3, <1>4, <1>5, <1>6 DEF WatchMirrored

\* One watcher less; the block goes with the last one.
LEMMA DelWatchMirror ==
  ASSUME IInv, NEW n \in Nicks, NEW c \in Clients, del_from_watch_hash_table(n, c),
         UNCHANGED person
  PROVE  /\ watchnick' \in [Blocks -> Nicks \cup {NULL}] /\ watched_by' \in [Blocks -> SUBSET Clients]
         /\ watchlist' \in [Clients -> SUBSET Blocks] /\ watches' \in [Clients -> Nat]
         /\ WatchMirrored'
<1>0. /\ watchnick \in [Blocks -> Nicks \cup {NULL}] /\ watched_by \in [Blocks -> SUBSET Clients]
      /\ watchlist \in [Clients -> SUBSET Blocks] /\ watches \in [Clients -> Nat]
      /\ WatchMirrored
  BY DEF IInv, TypeOK
<1>1. PICK b \in Blocks :
        /\ c \in watched_by[b]
        /\ watched_by' = [watched_by EXCEPT ![b] = @ \ {c}]
        /\ watchlist' = [watchlist EXCEPT ![c] = @ \ {b}]
        /\ FreeEmpty({b})
        /\ watches' = [watches EXCEPT ![c] = @ - 1]
  BY DEF del_from_watch_hash_table, Lookup
<1>2. /\ b \in watchlist[c] /\ watches[c] = Cardinality(watchlist[c])
      /\ IsFiniteSet(watchlist[c])
  BY <1>0, <1>1, FS_Subset, WatchAssumption DEF WatchMirrored
<1>3. Cardinality(watchlist[c] \ {b}) = watches[c] - 1 /\ Cardinality(watchlist[c] \ {b}) \in Nat
  <2>1. IsFiniteSet(watchlist[c] \ {b})
    BY <1>2, FS_RemoveElement
  <2> QED
    BY <1>2, <2>1, FS_RemoveElement, FS_CardinalityType
<1>4. /\ watchnick' \in [Blocks -> Nicks \cup {NULL}] /\ watched_by' \in [Blocks -> SUBSET Clients]
      /\ watchlist' \in [Clients -> SUBSET Blocks]
  BY <1>0, <1>1 DEF FreeEmpty
<1>5. watches' \in [Clients -> Nat]
  BY <1>0, <1>1, <1>3
<1>6. \A a \in Blocks, d \in Clients : /\ d \in watched_by'[a] <=> a \in watchlist'[d]
                                       /\ d \in watched_by'[a] => d \in person' \cap Local
  BY <1>0, <1>1 DEF WatchMirrored
<1>7. /\ \A a \in Blocks : watchnick'[a] = NULL <=> watched_by'[a] = {}
      /\ \A a, d \in Blocks : watchnick'[a] = watchnick'[d] /\ watchnick'[a] # NULL => a = d
  BY <1>0, <1>1 DEF FreeEmpty, WatchMirrored
<1>8. \A d \in Clients : watches'[d] = Cardinality(watchlist'[d])
  BY <1>0, <1>1, <1>3 DEF WatchMirrored
<1> QED
  BY <1>4, <1>5, <1>6, <1>7, <1>8 DEF WatchMirrored

\* A user's watches are cleared, whether or not the user stays.
LEMMA ClearWatchMirror ==
  ASSUME IInv, NEW c \in Clients, hash_del_watch_list(c),
         person' = person \/ person' = person \ {c}
  PROVE  /\ watchnick' \in [Blocks -> Nicks \cup {NULL}] /\ watched_by' \in [Blocks -> SUBSET Clients]
         /\ watchlist' \in [Clients -> SUBSET Blocks] /\ watches' \in [Clients -> Nat]
         /\ WatchMirrored'
<1>0. /\ watchnick \in [Blocks -> Nicks \cup {NULL}] /\ watched_by \in [Blocks -> SUBSET Clients]
      /\ watchlist \in [Clients -> SUBSET Blocks] /\ watches \in [Clients -> Nat]
      /\ WatchMirrored
  BY DEF IInv, TypeOK
<1>1. /\ watched_by' = [b \in Blocks |-> IF b \in watchlist[c] THEN watched_by[b] \ {c} ELSE watched_by[b]]
      /\ watchlist' = [watchlist EXCEPT ![c] = {}]
      /\ watchnick' = [b \in Blocks |-> IF b \in watchlist[c] /\ watched_by'[b] = {} THEN NULL ELSE watchnick[b]]
      /\ watches' = [watches EXCEPT ![c] = 0]
  BY DEF hash_del_watch_list, FreeEmpty
<1>2. /\ watchnick' \in [Blocks -> Nicks \cup {NULL}] /\ watched_by' \in [Blocks -> SUBSET Clients]
      /\ watchlist' \in [Clients -> SUBSET Blocks] /\ watches' \in [Clients -> Nat]
  BY <1>0, <1>1
<1>3. \A a \in Blocks, d \in Clients : /\ d \in watched_by'[a] <=> a \in watchlist'[d]
                                       /\ d \in watched_by'[a] => d \in person' \cap Local
  BY <1>0, <1>1 DEF WatchMirrored
<1>4. /\ \A a \in Blocks : watchnick'[a] = NULL <=> watched_by'[a] = {}
      /\ \A a, d \in Blocks : watchnick'[a] = watchnick'[d] /\ watchnick'[a] # NULL => a = d
  BY <1>0, <1>1 DEF WatchMirrored
<1>5. \A d \in Clients : watches'[d] = Cardinality(watchlist'[d])
  BY <1>0, <1>1, FS_EmptySet DEF WatchMirrored
<1> QED
  BY <1>2, <1>3, <1>4, <1>5 DEF WatchMirrored

LEMMA WatchIInv ==
  ASSUME IInv, WatchNext, UNCHANGED <<person, name, listVars, historyVars>>
  PROVE  IInv'
<1> USE DEF listVars, historyVars
<1>1. ListsMirrored' /\ OwnersLive'
  BY DEF IInv, ListsMirrored, Mirror, OwnersLive, Slots
<1>2. /\ watchnick' \in [Blocks -> Nicks \cup {NULL}] /\ watched_by' \in [Blocks -> SUBSET Clients]
      /\ watchlist' \in [Clients -> SUBSET Blocks] /\ watches' \in [Clients -> Nat]
      /\ WatchMirrored'
  BY AddWatchMirror, DelWatchMirror, ClearWatchMirror DEF WatchNext
<1>3. TypeOK'
  BY <1>2 DEF IInv, TypeOK, Slots
<1> QED
  BY <1>1, <1>2, <1>3 DEF IInv

-----------------------------------------------------------------------------
\* The exit of a user clears the watches, both kinds of lists and the history
\* entries before the block is freed.
LEMMA ExitIInv ==
  ASSUME IInv, NEW c \in Clients, exit_client(c)
  PROVE  IInv'
<1>0. /\ person' = person \ {c} /\ name' = [name EXCEPT ![c] = NULL]
      /\ person \subseteq Clients /\ name \in [Clients -> Nicks \cup {NULL}]
      /\ c \in person /\ name[c] \in Nicks
      /\ \A d \in Clients : d \in person <=> name[d] # NULL
  BY DEF IInv, TypeOK, exit_client, FreePerson
<1>1. /\ watchnick' \in [Blocks -> Nicks \cup {NULL}] /\ watched_by' \in [Blocks -> SUBSET Clients]
      /\ watchlist' \in [Clients -> SUBSET Blocks] /\ watches' \in [Clients -> Nat]
      /\ WatchMirrored'
  <2>1. CASE c \in Local
    BY <1>0, <2>1, ClearWatchMirror DEF exit_client
  <2>2. CASE c \notin Local
    BY <1>0, <2>2 DEF exit_client, watchVars, IInv, TypeOK, WatchMirrored
  <2> QED
    BY <2>1, <2>2
<1>2. /\ accepted \in Rel /\ accepted_by \in Rel /\ dccallow \in Rel /\ allowed_by \in Rel
      /\ accept_informed \in Rel /\ accept_informed_by \in Rel
      /\ Mirror(accepted, accepted_by) /\ Mirror(dccallow, allowed_by)
      /\ Mirror(accept_informed, accept_informed_by)
  BY DEF IInv, TypeOK, Rel, ListsMirrored
<1>3. /\ accepted' \in Rel /\ accepted_by' \in Rel
      /\ \A a, o \in Clients : /\ o \in accepted'[a] <=> a \in accepted_by'[o]
                               /\ o \in accepted'[a] => {a, o} \subseteq person'
  BY <1>0, <1>2, SweptMirror DEF exit_client, remove_accept_references
<1>4. /\ accept_informed' \in Rel /\ accept_informed_by' \in Rel
      /\ \A a, o \in Clients : /\ o \in accept_informed'[a] <=> a \in accept_informed_by'[o]
                               /\ o \in accept_informed'[a] => {a, o} \subseteq person'
  BY <1>0, <1>2, SweptMirror DEF exit_client, remove_accept_references
<1>5. /\ dccallow' \in Rel /\ allowed_by' \in Rel
      /\ \A a, o \in Clients : /\ o \in dccallow'[a] <=> a \in allowed_by'[o]
                               /\ o \in dccallow'[a] => {a, o} \subseteq person'
  BY <1>0, <1>2, SweptMirror DEF exit_client, remove_dcc_references
<1>6. ListsMirrored'
  BY <1>3, <1>4, <1>5 DEF ListsMirrored, Mirror
<1>7. /\ past \in [Slots -> Nicks \cup {NULL}] /\ online \in [Slots -> Clients \cup {NULL}]
      /\ whowas \in [Clients -> SUBSET Slots] /\ whowas_next \in Slots
      /\ former \in [Nicks -> Clients \cup {NULL}]
      /\ OwnersLive
  BY DEF IInv, TypeOK
<1>8. /\ past' = [past EXCEPT ![whowas_next] = name[c]]
      /\ online' = [i \in Slots |-> IF i = whowas_next \/ i \in whowas[c] THEN NULL ELSE online[i]]
      /\ whowas' = [d \in Clients |-> IF d = c THEN {} ELSE whowas[d] \ {whowas_next}]
      /\ whowas_next' = Advance
      /\ former' = [n \in Nicks |-> IF n = name[c] \/ former[n] = c THEN NULL ELSE former[n]]
  BY EvictedIs DEF exit_client, SignOff
<1>9. OwnersLive'
  BY <1>0, <1>7, <1>8, PersonsAssumption DEF OwnersLive, Slots
<1>10. /\ past' \in [Slots -> Nicks \cup {NULL}] /\ online' \in [Slots -> Clients \cup {NULL}]
       /\ whowas' \in [Clients -> SUBSET Slots] /\ whowas_next' \in Slots
       /\ former' \in [Nicks -> Clients \cup {NULL}]
  BY <1>0, <1>7, <1>8, AdvanceType
<1>11. person' \subseteq Clients /\ name' \in [Clients -> Nicks \cup {NULL}]
       /\ \A d \in Clients : d \in person' <=> name'[d] # NULL
  BY <1>0
<1>12. TypeOK'
  BY <1>1, <1>3, <1>4, <1>5, <1>10, <1>11 DEF TypeOK, Rel, Slots
<1> QED
  BY <1>1, <1>6, <1>9, <1>12 DEF IInv

-----------------------------------------------------------------------------
LEMMA NextIInv == IInv /\ [Next]_vars => IInv'
<1> SUFFICES ASSUME IInv, [Next]_vars PROVE IInv'
  OBVIOUS
<1>1. CASE UNCHANGED vars
  <2>1. TypeOK' /\ ListsMirrored'
    BY <1>1 DEF IInv, vars, listVars, watchVars, historyVars, TypeOK, ListsMirrored, Mirror, Slots
  <2>2. WatchMirrored' /\ OwnersLive'
    BY <1>1 DEF IInv, vars, listVars, watchVars, historyVars, WatchMirrored, OwnersLive, Slots
  <2> QED
    BY <2>1, <2>2 DEF IInv
<1>2. CASE Next
  BY <1>2, RegisterIInv, ChangeNickIInv, ExitIInv, ListsIInv, WatchIInv DEF Next
<1> QED
  BY <1>1, <1>2

\* The tables of the users are well typed, and a block has a name exactly while
\* its user is registered.
THEOREM UsersTypeCorrect == Spec => []TypeOK
  BY InitIInv, NextIInv, PTL DEF Spec, IInv

\* accept_client, check_accept, add_dccallow and their removals keep every entry on
\* both sides and between registered users, through every exit: no ACCEPT or
\* DCCALLOW list ever names a freed block.
THEOREM ListsAlwaysMirrored == Spec => []ListsMirrored
  BY InitIInv, NextIInv, PTL DEF Spec, IInv

\* hash_check_watch only meets registered local users, a watch block lives exactly
\* as long as its last watcher, and cptr->watches is exact.
THEOREM WatchesMirrored == Spec => []WatchMirrored
  BY InitIInv, NextIInv, PTL DEF Spec, IInv

\* The owner that a history entry points to is registered and lists the entry, so
\* that add_history and get_history never follow a freed block.
THEOREM HistoryOwnersLive == Spec => []OwnersLive
  BY InitIInv, NextIInv, PTL DEF Spec, IInv

-----------------------------------------------------------------------------
(* The chase of a nickname: the newest entry of a name is the only one that *)
(* get_history can return, so the invariant is about that entry alone.      *)

H == NICKNAMEHISTORYLENGTH

\* The order of the naturals, as a relation the library's WFMin applies to.
LEMMA NatWellFounded ==
  \E R : IsWellFoundedOn(R, Nat) /\ \A x, y \in Nat : x < y => <<x, y>> \in R
<1>1. IsWellFoundedOn(OpToRel(<, Nat), Nat)
  BY NatLessThanWellFounded
<1>2. \A x, y \in Nat : x < y => <<x, y>> \in OpToRel(<, Nat)
  BY DEF OpToRel
<1> QED BY <1>1, <1>2, Zenon

\* A nonempty set of naturals has a least element.
LEMMA LeastNat ==
  ASSUME NEW T \in SUBSET Nat, T # {}
  PROVE  \E x \in T : \A y \in T : x <= y
<1>1. PICK R : IsWellFoundedOn(R, Nat) /\ \A x, y \in Nat : x < y => <<x, y>> \in R
  BY NatWellFounded
<1>2. IsWellFoundedOn(R, Nat)
  BY <1>1
<1>3. \E x \in T : \A y \in T : ~ (<<y, x>> \in R)
  BY <1>2, WFMin
<1>4. PICK x \in T : \A y \in T : ~ (<<y, x>> \in R)
  BY <1>3
<1>5. T \subseteq Nat
  OBVIOUS
<1>6. \A y \in T : ~(y < x)
  BY <1>1, <1>4, <1>5, Zenon
<1> QED BY <1>5, <1>6

\* The ring's ages, from the newest entry to the one overwritten next.
LEMMA RingAge ==
  ASSUME NEW w \in Slots, NEW i \in Slots
  PROVE  (w + H - 1 - i) % H = IF i < w THEN w - 1 - i ELSE w + H - 1 - i
<1> USE HistoryAssumption DEF Slots, H
<1> DEFINE a == w + H - 1 - i
<1>1. a \in Int /\ 0 <= a /\ a < 2 * H /\ (a < H <=> ~(i < w))
  OBVIOUS
<1>2. CASE a < H
  <2> HIDE DEF a
  <2>1. a % H = a
    BY <1>1, <1>2
  <2> QED BY <1>1, <1>2, <2>1 DEF a
<1>3. CASE a >= H
  <2> HIDE DEF a
  <2>1. a % H = a - H
    BY <1>1, <1>3
  <2> QED BY <1>1, <1>3, <2>1 DEF a
<1> QED BY <1>1, <1>2, <1>3

LEMMA AgeBounds ==
  ASSUME whowas_next \in Slots
  PROVE  /\ \A i \in Slots : Age(i) \in Nat /\ Age(i) <= Age(whowas_next)
         /\ \A i, j \in Slots : Age(i) = Age(j) => i = j
<1>1. \A i \in Slots : Age(i) = IF i < whowas_next THEN whowas_next - 1 - i
                                ELSE whowas_next + H - 1 - i
  BY RingAge DEF Age, H
<1> QED BY <1>1, HistoryAssumption DEF Slots, H

\* A new entry makes every other entry older by one.
LEMMA AgeGrows ==
  ASSUME NEW w \in Slots, whowas_next = w, whowas_next' = Advance
  PROVE  \A i \in Slots : IF i = w THEN Age(i)' = 0 ELSE Age(i)' = Age(i) + 1
<1>1. Advance \in Slots
  BY AdvanceType
<1> SUFFICES ASSUME NEW i \in Slots
             PROVE  IF i = w THEN Age(i)' = 0 ELSE Age(i)' = Age(i) + 1
  OBVIOUS
<1>2. Age(i)' = (Advance + H - 1 - i) % H /\ Age(i) = (w + H - 1 - i) % H
  BY DEF Age, H
<1>3. Age(i)' = IF i < Advance THEN Advance - 1 - i ELSE Advance + H - 1 - i
  BY <1>1, <1>2, RingAge
<1>4. Age(i) = IF i < w THEN w - 1 - i ELSE w + H - 1 - i
  BY <1>2, RingAge
<1> QED BY <1>1, <1>3, <1>4, HistoryAssumption DEF Slots, H, Advance

\* Entry i is the newest one for its name.
Newest(i) == \A j \in Slots : past[j] = past[i] => Age(i) <= Age(j)

\* The owner of a name's newest entry, if it is still here, gave it up last.
NewestIsLast ==
  \A i \in Slots : past[i] # NULL /\ Newest(i) => online[i] \in {former[past[i]], NULL}

\* The least age within any limit is the least age of all.
LEMMA NewestIsMet ==
  ASSUME TypeOK, NewestIsLast
  PROVE  ChaseFindsLast
<1> SUFFICES ASSUME NEW n \in Nicks, NEW k \in 1 .. NICKNAMEHISTORYLENGTH
             PROVE  get_history(n, k) \in {former[n], NULL}
  BY DEF ChaseFindsLast
<1> DEFINE match == {i \in Slots : past[i] = n /\ Age(i) < k}
           best(i) == \A j \in match : Age(i) <= Age(j)
<1>1. CASE match = {}
  BY <1>1 DEF get_history
<1>2. CASE match # {}
  <2>1. get_history(n, k) = online[CHOOSE i \in match : best(i)]
    BY <1>2 DEF get_history
  <2>2. \A i \in Slots : Age(i) \in Nat
    BY AgeBounds DEF TypeOK
  <2>3. \E i \in match : best(i)
    <3> DEFINE ages == {Age(i) : i \in match}
    <3>1. ages \in SUBSET Nat /\ ages # {}
      BY <1>2, <2>2
    <3>2. PICK a \in ages : \A b \in ages : a <= b
      BY <3>1, LeastNat
    <3> QED BY <3>2
  <2>4. PICK i \in match : best(i) /\ i = CHOOSE x \in match : best(x)
    BY <2>3
  <2>5. Newest(i)
    BY <2>2, <2>4 DEF Newest
  <2>6. past[i] = n /\ n # NULL /\ i \in Slots
    BY <2>4, PersonsAssumption
  <2> QED BY <2>1, <2>4, <2>5, <2>6 DEF NewestIsLast
<1> QED BY <1>1, <1>2

LEMMA InitNewest == Init => NewestIsLast
BY DEF Init, HistoryInit, NewestIsLast

\* The entry add_history has just made is the newest one of its name.
LEMMA MadeIsNewest ==
  ASSUME TypeOK, NEW n \in Nicks, NEW w \in Slots, whowas_next = w, whowas_next' = Advance,
         past' = [past EXCEPT ![w] = n], NEW i \in Slots, past'[i] = n, Newest(i)'
  PROVE  i = w
<1>1. past'[w] = past'[i]
  BY DEF TypeOK
<1>2. Age(i)' <= Age(w)'
  BY <1>1 DEF Newest, Slots
<1>3. Age(w)' = 0 /\ (i # w => Age(i)' = Age(i) + 1) /\ Age(i) \in Nat
  BY AgeGrows, AgeBounds
<1> QED BY <1>2, <1>3

\* An entry made for name n at the oldest slot is n's newest; the newest entry of
\* any other name stays what it was.
LEMMA StillNewest ==
  ASSUME TypeOK, NEW n \in Nicks, NEW w \in Slots, whowas_next = w, whowas_next' = Advance,
         past' = [past EXCEPT ![w] = n], NEW i \in Slots, past'[i] # n, Newest(i)'
  PROVE  i # w /\ past'[i] = past[i] /\ Newest(i)
<1>1. i # w /\ past'[i] = past[i]
  BY DEF TypeOK
<1>2. ASSUME NEW j \in Slots, past[j] = past[i] PROVE Age(i) <= Age(j)
  <2>1. CASE j = w
    BY <2>1, AgeBounds DEF TypeOK
  <2>2. CASE j # w
    <3>1. past'[j] = past'[i]
      BY <1>1, <1>2, <2>2 DEF TypeOK
    <3>2. Age(i)' <= Age(j)'
      BY <3>1 DEF Newest, Slots
    <3>3. Age(i)' = Age(i) + 1 /\ Age(j)' = Age(j) + 1
      BY <1>1, <2>2, AgeGrows
    <3>4. Age(i) \in Nat /\ Age(j) \in Nat
      BY AgeBounds
    <3> QED BY <3>2, <3>3, <3>4
  <2> QED BY <2>1, <2>2
<1> QED BY <1>1, <1>2 DEF Newest

LEMMA ChangeNickNewest ==
  ASSUME IInv, NewestIsLast, NEW c \in Clients, NEW n \in Nicks, ChangeNick(c, n)
  PROVE  NewestIsLast'
<1> DEFINE w == whowas_next
           old == name[c]
<1>1. /\ w \in Slots /\ old \in Nicks /\ whowas_next' = Advance
      /\ past' = [past EXCEPT ![w] = old] /\ online' = [online EXCEPT ![w] = c]
      /\ former' = [former EXCEPT ![old] = c]
  BY DEF IInv, TypeOK, ChangeNick, GiveUp
<1>2. ASSUME NEW i \in Slots, past'[i] # NULL, Newest(i)'
      PROVE  online'[i] \in {former'[past'[i]], NULL}
  <2>1. CASE past'[i] = old
    <3>1. i = w
      BY <1>1, <1>2, <2>1, MadeIsNewest DEF IInv
    <3> QED BY <1>1, <2>1, <3>1 DEF IInv, TypeOK
  <2>2. CASE past'[i] # old
    <3>1. i # w /\ past'[i] = past[i] /\ Newest(i)
      BY <1>1, <1>2, <2>2, StillNewest DEF IInv
    <3>2. online'[i] = online[i] /\ former'[past[i]] = former[past[i]]
      BY <1>1, <1>2, <2>2, <3>1 DEF IInv, TypeOK
    <3> QED BY <1>2, <3>1, <3>2 DEF NewestIsLast
  <2> QED BY <2>1, <2>2
<1> QED BY <1>2 DEF NewestIsLast, Slots

LEMMA ExitNewest ==
  ASSUME IInv, NewestIsLast, NEW c \in Clients, exit_client(c)
  PROVE  NewestIsLast'
<1> DEFINE w == whowas_next
           old == name[c]
<1>1. /\ w \in Slots /\ old \in Nicks /\ whowas_next' = Advance
      /\ past' = [past EXCEPT ![w] = old]
      /\ online' = [i \in Slots |-> IF i = w \/ i \in Evicted[c] THEN NULL ELSE online[i]]
      /\ former' = [n \in Nicks |-> IF n = old \/ former[n] = c THEN NULL ELSE former[n]]
  BY DEF IInv, TypeOK, exit_client, SignOff
<1>2. ASSUME NEW i \in Slots, past'[i] # NULL, Newest(i)'
      PROVE  online'[i] \in {former'[past'[i]], NULL}
  <2>1. CASE past'[i] = old
    <3>1. i = w
      BY <1>1, <1>2, <2>1, MadeIsNewest DEF IInv
    <3> QED BY <1>1, <3>1
  <2>2. CASE past'[i] # old
    <3>1. i # w /\ past'[i] = past[i] /\ Newest(i)
      BY <1>1, <1>2, <2>2, StillNewest DEF IInv
    <3>2. past[i] \in Nicks /\ online[i] \in {former[past[i]], NULL}
      BY <1>2, <3>1 DEF NewestIsLast, IInv, TypeOK
    <3>3. i \in Evicted[c] <=> online[i] = c
      BY <3>1, EvictedIs DEF IInv, OwnersLive
    <3>4. CASE online[i] = c
      BY <1>1, <3>3, <3>4
    <3>5. CASE online[i] # c
      BY <1>1, <2>2, <3>1, <3>2, <3>3, <3>5
    <3> QED BY <3>4, <3>5
  <2> QED BY <2>1, <2>2
<1> QED BY <1>2 DEF NewestIsLast, Slots

LEMMA NextNewest == IInv /\ NewestIsLast /\ [Next]_vars => NewestIsLast'
<1> SUFFICES ASSUME IInv, NewestIsLast, [Next]_vars PROVE NewestIsLast'
  OBVIOUS
<1>1. CASE UNCHANGED historyVars
  BY <1>1 DEF historyVars, NewestIsLast, Newest, Age, Slots
<1>2. ASSUME NEW c \in Clients, NEW n \in Nicks, Register(c, n)
      PROVE  UNCHANGED historyVars
  BY <1>2 DEF Register
<1>3. CASE UNCHANGED vars
  BY <1>1, <1>3 DEF vars
<1>4. CASE Next
  BY <1>1, <1>2, <1>4, ChangeNickNewest, ExitNewest DEF Next
<1> QED BY <1>3, <1>4

\* A KILL that chases a nickname through get_history, within any time limit,
\* meets the user who gave the name up last, or nobody: the entries that add_history
\* overwrites are always the oldest, and off_history blanks those of a user who left.
THEOREM ChaseMeetsLast == Spec => []ChaseFindsLast
<1>1. IInv /\ NewestIsLast => ChaseFindsLast
  BY NewestIsMet DEF IInv
<1> QED BY <1>1, InitIInv, NextIInv, InitNewest, NextNewest, PTL DEF Spec
=============================================================================
