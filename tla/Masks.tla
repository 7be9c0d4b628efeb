------------------------------- MODULE Masks -------------------------------
(***************************************************************************)
(* K-lines, autokills, exclusions and Z-lines (maskitem.c, s_kline.c) from *)
(* where they are made to where they bite: at the accept, when a user      *)
(* registers, and in the round of check_pings after `rehashed` was set.    *)
(* The steps of io_loop interleave with the handler of SIGHUP.  A mask is  *)
(* a user@host string; which strings and which clients it matches is given *)
(* by constants.  Regular expressions and the masks on nicknames, channels *)
(* and real names are left out.                                            *)
(***************************************************************************)
EXTENDS Integers, Sequences

CONSTANTS
    Strings,    \* user@host masks
    Wider,      \* Wider[s]: the strings that s matches, s among them
    Users,      \* blocks of local users
    Hits,       \* Hits[c]: the masks that match the host or the address of c
    Asked,      \* the types of ban that are asked for
    Lengths,    \* seconds a ban may be asked for; Forever for none
    MaskFiles,  \* what the mask file may hold: sequences of [type, string]
    Forever,
    MaxHups     \* bound: SIGHUPs in all

ASSUME MaskAssumption ==
    /\ \A s \in Strings : s \in Wider[s] /\ Wider[s] \subseteq Strings
    /\ Asked \subseteq {"KLINE", "AUTOKILL"}
    /\ \A c \in Users : Hits[c] \subseteq Strings
    /\ Lengths \subseteq Nat \cup {Forever} /\ Forever \notin Int
    /\ \A f \in MaskFiles : \A i \in DOMAIN f : f[i].type \in {"KLINE_CONFIG", "ZAPLINE_CONFIG"}

VARIABLES
    maskitem_list,  \* [type, string, left]: seconds left until it expires
    rehashed,       \* check_pings has to look at the masks
    user,           \* of a block: "none", "accepted" or "person"
    file,           \* the masks of the file that was read last
    dorehash,       \* set by the handler of SIGHUP
    rehashing,      \* io_loop is between rehash and the assignment to dorehash
    slipped,        \* history: users a check let pass although a ban covers them
    lost,           \* history: a SIGHUP came while rehashing and was forgotten
    hups            \* bookkeeping: SIGHUPs so far

maskVars == <<maskitem_list, rehashed, user, file, dorehash, rehashing, slipped, lost, hups>>
loop == <<dorehash, rehashing, lost, hups>>

Unexpired(m) == m.left = Forever \/ m.left > 0

\* Every lookup takes what has expired off the lists first.
expire_maskitems(list) == {m \in list : Unexpired(m)}

\* find_maskitem with a mask to match, and with a client.
Matched(list, s, type) == \E m \in list : m.type = type /\ s \in Wider[m.string]
MatchedUser(list, c, types) == \E m \in list : m.type \in types /\ m.string \in Hits[c]

\* Mutant: a mask that is covered by another is not made
create_maskitemCovered(list, s, type, len) ==
    IF Matched(list, s, type) THEN list
    ELSE list \cup {[type |-> type, string |-> s, left |-> len]}

\* create_maskitem: the one with this very string, or a new one.
create_maskitem(list, s, type, len) ==
    IF \E m \in list : m.type = type /\ m.string = s THEN list
    ELSE list \cup {[type |-> type, string |-> s, left |-> len]}

\* The masks of the file.  None of them keeps another from being made.
maskfileparse(list, f) ==
    list \cup UNION {create_maskitem(list, f[i].string, f[i].type, Forever) : i \in DOMAIN f}

MaskInit ==
    /\ file \in MaskFiles
    /\ maskitem_list = maskfileparse({}, file)
    /\ rehashed = TRUE
    /\ user = [c \in Users |-> "none"]
    /\ dorehash = FALSE /\ rehashing = FALSE
    /\ slipped = {} /\ lost = FALSE /\ hups = 0

(***************************************************************************)
(* Where masks come from                                                   *)
(***************************************************************************)
\* Mutant: the users that are already there are not looked at
iproc_klineQuiet(type, s, len) ==
    LET live == expire_maskitems(maskitem_list)
    IN /\ maskitem_list' = IF Matched(live, s, type) THEN live ELSE create_maskitem(live, s, type, len)
       /\ UNCHANGED <<rehashed, user, file, slipped>>

\* iproc_kline and iproc_akill: a mask that is covered already is not made.
iproc_kline(type, s, len) ==
    LET live == expire_maskitems(maskitem_list)
    IN /\ maskitem_list' = IF Matched(live, s, type) THEN live ELSE create_maskitem(live, s, type, len)
       /\ rehashed' = (rehashed \/ ~Matched(live, s, type))
       /\ UNCHANGED <<user, file, slipped>>

\* The command that makes an exclusion is a loadable module.
m_exclude(s, len) ==
    /\ maskitem_list' = create_maskitem(expire_maskitems(maskitem_list), s, "EXCLUDE", len)
    /\ UNCHANGED <<rehashed, user, file, slipped>>

\* So is the command that takes a ban away.
m_unkline(type, s) ==
    /\ maskitem_list' = {m \in expire_maskitems(maskitem_list) : m.type # type \/ m.string # s}
    /\ UNCHANGED <<rehashed, user, file, slipped>>

FromFile == {"KLINE_CONFIG", "ZAPLINE_CONFIG"}

\* The handler of SIGHUP, between any two steps: the masks of the file go at once.
\* (In the midst of a step it would free masks that the step is looking at.)
sighup_handler ==
    /\ hups < MaxHups /\ hups' = hups + 1
    /\ maskitem_list' = {m \in maskitem_list : m.type \notin FromFile}
    /\ dorehash' = TRUE
    /\ lost' = (lost \/ rehashing)
    /\ UNCHANGED <<rehashed, user, file, rehashing, slipped>>

\* rehash: the masks of commands go, and the file is read.
rehash ==
    \E f \in MaskFiles :
      /\ file' = f
      /\ maskitem_list' = maskfileparse({m \in maskitem_list : m.type \in FromFile}, f)
      /\ rehashed' = TRUE
      /\ lost' = FALSE
      /\ UNCHANGED <<user, slipped, hups>>

\* io_loop at the end of a round; the request is taken for served afterwards.
rehash_asked ==
    /\ dorehash /\ ~rehashing
    /\ rehash /\ rehashing' = TRUE /\ UNCHANGED dorehash

rehash_served ==
    /\ rehashing
    /\ rehashing' = FALSE /\ dorehash' = FALSE
    /\ UNCHANGED <<maskitem_list, rehashed, user, file, slipped, lost, hups>>

(***************************************************************************)
(* Where they bite                                                         *)
(***************************************************************************)
Zapped == {"ZAPLINE", "ZAPLINE_CONFIG"}
Banned == {"AUTOKILL", "KLINE", "KLINE_CONFIG"}

\* conf_connect_allowed, which goes on to throttle_check (Throttle).
conf_connect_allowed(c) ==
    LET live == expire_maskitems(maskitem_list)
    IN /\ user[c] = "none"
       /\ maskitem_list' = live
       /\ user' = [user EXCEPT ![c] = IF MatchedUser(live, c, Zapped) THEN @ ELSE "accepted"]
       /\ UNCHANGED <<rehashed, file, slipped>>

find_connection_kill_level(list, c) == MatchedUser(list, c, Banned)

\* attach_Iline when the user registers; a banned one exits.
attach_Iline(c) ==
    LET live == expire_maskitems(maskitem_list)
        banned == find_connection_kill_level(live, c)
    IN /\ user[c] = "accepted"
       /\ maskitem_list' = live
       /\ user' = [user EXCEPT ![c] = IF banned THEN "none" ELSE "person"]
       /\ slipped' = IF ~banned /\ MatchedUser(live, c, Zapped) THEN slipped \cup {c} ELSE slipped
       /\ UNCHANGED <<rehashed, file>>

exit_client(c) ==
    /\ user[c] # "none"
    /\ user' = [user EXCEPT ![c] = "none"]
    /\ slipped' = slipped \ {c}
    /\ UNCHANGED <<maskitem_list, rehashed, file>>

Excluded(list, c) == MatchedUser(list, c, {"EXCLUDE"})
find_kill_level(list, c) == ~Excluded(list, c) /\ MatchedUser(list, c, Zapped \cup Banned)

\* The part of check_pings that is about masks.
check_pings ==
    LET live  == expire_maskitems(maskitem_list)
        here  == {c \in Users : user[c] = "person"}
        leave == {c \in here : find_kill_level(live, c)}
    IN IF rehashed
       THEN /\ maskitem_list' = IF here = {} THEN maskitem_list ELSE live
            /\ user' = [c \in Users |-> IF c \in leave THEN "none" ELSE user[c]]
            /\ slipped' = {c \in here \ leave : MatchedUser(live, c, Zapped \cup Banned)}
            /\ rehashed' = FALSE
            /\ UNCHANGED file
       ELSE UNCHANGED <<maskitem_list, rehashed, user, file, slipped>>

\* A second passes.
Older(m) ==
    [type |-> m.type, string |-> m.string,
     left |-> IF m.left = Forever \/ m.left = 0 THEN m.left ELSE m.left - 1]

MasksAge ==
    /\ maskitem_list' = {Older(m) : m \in maskitem_list}
    /\ UNCHANGED <<rehashed, user, file, slipped>>

(***************************************************************************)
(* io_loop: its events, what its descriptors bring, and the rehash         *)
(***************************************************************************)
Serve ==
    \/ \E c \in Users : conf_connect_allowed(c) \/ attach_Iline(c) \/ exit_client(c)
    \/ \E s \in Strings :
         \/ \E type \in Asked, len \in Lengths : iproc_kline(type, s, len)
         \/ \E len \in Lengths : m_exclude(s, len)
         \/ \E type \in Asked \cup {"EXCLUDE"} : m_unkline(type, s)
    \/ check_pings
    \/ MasksAge

MaskNext ==
    \/ ~rehashing /\ Serve /\ UNCHANGED loop
    \/ ~rehashing /\ rehash /\ UNCHANGED <<dorehash, rehashing>>    \* REHASH, a loadable module
    \/ rehash_asked \/ rehash_served \/ sighup_handler

MaskSpec == MaskInit /\ [][MaskNext]_maskVars

(***************************************************************************)
(* Properties                                                              *)
(***************************************************************************)
\* No ban is forgotten: unless the next check_pings still has to look, no user is
\* online whom find_kill_level would reject, whether the ban came before the user's
\* accept, between accept and registration, or after it.  The ones it may miss are
\* those that an exclusion sheltered and those that a Z-line met in mid-registration.
BansBite ==
    \A c \in Users : user[c] = "person" /\ ~rehashed =>
        ~find_kill_level(expire_maskitems(maskitem_list), c) \/ c \in slipped

\* The masks of the file that was read last are in force, through any sequence of
\* SIGHUPs and REHASHs and whichever of them cover each other, except while a rehash
\* is asked for, and except after a SIGHUP that came in the moment when io_loop takes
\* the request for served.
FileInForce ==
    ~dorehash /\ ~lost =>
        \A i \in DOMAIN file : \E m \in maskitem_list :
            m.type = file[i].type /\ m.string = file[i].string
=============================================================================
