------------------------------- MODULE Channel -------------------------------
(***************************************************************************)
(* Channels, their members and their invitations (src/channel.c, the       *)
(* channel half of src/hash.c, the person half of exit_one_client in       *)
(* server/s_exit.c and the level channels of server/s_lev.c).              *)
(*                                                                         *)
(* A membership and an invitation are each recorded twice, once in the     *)
(* channel and once in the user, and the sizes of the two membership lists *)
(* are cached in chptr->users and user->joined.  Channel blocks come from  *)
(* a block heap that hands a freed address out again, so the model speaks  *)
(* of addresses (Blocks) and keeps the contents of a freed block until     *)
(* make_channel clears it.                                                 *)
(***************************************************************************)
EXTENDS Integers, FiniteSets, Sequences, SequencesExt

CONSTANTS
  Clients,   \* the users of the network, Me included
  Me,        \* this server, which sits on its own level channels
  Local,     \* the users connected to this server
  Opers,     \* IRC operators (and U-lined users)
  Blocks,    \* addresses of the free_channels block heap
  LevBlock,  \* the block of a level channel (lchans[i].levptr)
  Names,     \* channel names
  LevName,   \* the level channel's name
  Bucket0,   \* the names that hash_channel_name maps to bucket 0
  NoName,    \* the empty string
  MaxJoined  \* ChannelConf.max_channels_per_user

ASSUME ClientsAssumption ==
  /\ IsFiniteSet(Clients) /\ Me \in Clients /\ Local \subseteq Clients \ {Me}
  /\ Opers \subseteq Clients
ASSUME BlocksAssumption == IsFiniteSet(Blocks) /\ LevBlock \in Blocks
ASSUME NamesAssumption ==
  LevName \in Names \ Bucket0 /\ Bucket0 \subseteq Names /\ NoName \notin Names
ASSUME MaxJoinedAssumption == MaxJoined \in Nat

VARIABLES
  person,   \* clients with cptr->user /= NULL
  live,     \* blocks on the global channel list and in channelTable
  chname,   \* chptr->chname
  link,     \* chptr->mode.link, NoName while MODE_LINKED is not set
  members,  \* chptr->members
  users,    \* chptr->users
  invites,  \* chptr->invites, newest first
  channel,  \* user->channel
  joined,   \* user->joined
  invited,  \* user->invited
  count     \* Count.chan

chanVars == <<live, chname, link, count>>
memberVars == <<members, users, channel, joined>>
inviteVars == <<invites, invited>>
vars == <<person, chanVars, memberVars, inviteVars>>

-----------------------------------------------------------------------------
(* Membership: a pair of lists and a pair of counters.                      *)

Membership == [members |-> members, users |-> users,
               channel |-> channel, joined |-> joined]

\* Mutant: add_user_to_channel without joined++.
AddMemberUncounted(m, c, b) ==
  [m EXCEPT !.members[b] = @ \cup {c}, !.users[b] = @ + 1,
            !.channel[c] = @ \cup {b}]

AddMember(m, c, b) ==
  [members |-> [m.members EXCEPT ![b] = @ \cup {c}],
   users   |-> [m.users EXCEPT ![b] = @ + 1],
   channel |-> [m.channel EXCEPT ![c] = @ \cup {b}],
   joined  |-> [m.joined EXCEPT ![c] = @ + 1]]

\* Mutant: the entry of user->channel is left behind.
DropMemberOneSided(m, c, b) ==
  [m EXCEPT !.members[b] = @ \ {c}, !.users[b] = @ - 1, !.joined[c] = @ - 1]

\* remove_chanmember, the removal from user->channel, and both decrements.
DropMember(m, c, b) ==
  [members |-> [m.members EXCEPT ![b] = @ \ {c}],
   users   |-> [m.users EXCEPT ![b] = @ - 1],
   channel |-> [m.channel EXCEPT ![c] = @ \ {b}],
   joined  |-> [m.joined EXCEPT ![c] = @ - 1]]

SetMembership(m) ==
  /\ members' = m.members /\ users' = m.users
  /\ channel' = m.channel /\ joined' = m.joined

(* Invitations: a pair of lists.                                            *)

\* The list without its node for c; add_invite keeps it free of duplicates.
Unlink(s, c) ==
  IF c \notin Range(s) THEN s
  ELSE LET i == CHOOSE k \in 1..Len(s) : s[k] = c
       IN  SubSeq(s, 1, i - 1) \o SubSeq(s, i + 1, Len(s))

Invitations == [invites |-> invites, invited |-> invited]

DelInvite(i, c, b) ==
  [invites |-> [i.invites EXCEPT ![b] = Unlink(@, c)],
   invited |-> [i.invited EXCEPT ![c] = @ \ {b}]]

AddInvite(i, c, b) ==
  LET j == DelInvite(i, c, b)
  IN  [invites |-> [j.invites EXCEPT ![b] = <<c>> \o @],
       invited |-> [j.invited EXCEPT ![c] = @ \cup {b}]]

\* The loop of sub1_from_channel: it starts at the second node, and the node
\* it has just deleted has a NULL next pointer, so it removes that one entry.
DropInvites(i, b) ==
  IF Len(i.invites[b]) < 2 THEN i ELSE DelInvite(i, i.invites[b][2], b)

SetInvitations(i) == invites' = i.invites /\ invited' = i.invited

-----------------------------------------------------------------------------
(* find_channel and create_channel.  A name in bucket 0 is never found.     *)

\* Mutant: a channel that is linked elsewhere is not found any more.
FoundUnlinked(n) ==
  {b \in live : chname[b] = n /\ n \notin Bucket0 /\ link[b] = NoName}

Found(n) == {b \in live : chname[b] = n /\ n \notin Bucket0}

\* find_channel walks the chain from its newest entry; the blocks are never
\* ambiguous for the names it can find.
Resolve(n) ==
  LET direct == Found(n)
      redirected == {b \in direct : link[b] # NoName}
  IN  IF redirected = {} THEN [name |-> n, blocks |-> direct]
      ELSE LET m == link[CHOOSE b \in redirected : TRUE]
           IN  [name |-> m, blocks |-> Found(m)]

\* Mutants: the comparison with zero is off by one, either way.
EmptiedEarly(m, bs) == {b \in bs : m.users[b] <= 1}
EmptiedNever(m, bs) == {b \in bs : m.users[b] < 0}

\* sub1_from_channel: an emptied channel leaves the list, the hash table and
\* the heap in the same call.  Nothing reads the name or the link of a freed
\* block before make_channel clears it: the model forgets them at once.
Emptied(m, bs) == {b \in bs : m.users[b] <= 0}

Release(m, bs) ==
  LET gone == Emptied(m, bs)
  IN  /\ live' = live \ gone
      /\ count' = count - Cardinality(gone)
      /\ chname' = [b \in Blocks |-> IF b \in gone THEN NoName ELSE chname[b]]
      /\ link' = [b \in Blocks |-> IF b \in gone THEN NoName ELSE link[b]]

-----------------------------------------------------------------------------
Init ==
  /\ person = {Me}
  /\ live = {LevBlock} /\ count = 1
  /\ chname = [b \in Blocks |-> IF b = LevBlock THEN LevName ELSE NoName]
  /\ link = [b \in Blocks |-> NoName]
  /\ members = [b \in Blocks |-> IF b = LevBlock THEN {Me} ELSE {}]
  /\ users = [b \in Blocks |-> IF b = LevBlock THEN 1 ELSE 0]
  /\ channel = [c \in Clients |-> IF c = Me THEN {LevBlock} ELSE {}]
  /\ joined = [c \in Clients |-> IF c = Me THEN 1 ELSE 0]
  /\ invites = [b \in Blocks |-> <<>>]
  /\ invited = [c \in Clients |-> {}]

\* register_user / introduction by a server: make_user gives empty lists.
Register(c) ==
  /\ c \notin person
  /\ person' = person \cup {c}
  /\ channel' = [channel EXCEPT ![c] = {}]
  /\ joined' = [joined EXCEPT ![c] = 0]
  /\ invited' = [invited EXCEPT ![c] = {}]
  /\ UNCHANGED <<chanVars, members, users, invites>>

TooManyChannels(c) ==
  /\ joined[c] >= MaxJoined
  /\ c \notin Opers \/ joined[c] >= 3 * MaxJoined

\* can_join may refuse a local user that holds no invitation to this block
\* and is no operator; bans, channel bans and the mode hooks decide it.
MayRefuse(c, b) == c \in Local /\ c \notin Opers /\ b \notin invited[c]

AlreadyOn(c, b) == b \in channel[c]

\* privileged_join on a channel that exists.
JoinExisting(c, b) ==
  /\ ~AlreadyOn(c, b)
  /\ SetMembership(AddMember(Membership, c, b))
  /\ SetInvitations(IF c \in Local THEN DelInvite(Invitations, c, b)
                    ELSE Invitations)
  /\ UNCHANGED <<person, chanVars>>

ClearedMembership(b) ==
  [members |-> [members EXCEPT ![b] = {}], users |-> [users EXCEPT ![b] = 0],
   channel |-> channel, joined |-> joined]

\* make_channel on a free address: the block is cleared, whatever it held.
\* A refused user leaves the new channel behind with nobody on it.
JoinNew(c, b, n, refused) ==
  /\ b \notin live
  /\ refused => MayRefuse(c, b)
  /\ live' = live \cup {b} /\ count' = count + 1
  /\ chname' = [chname EXCEPT ![b] = n]
  /\ link' = [link EXCEPT ![b] = NoName]
  /\ LET m == ClearedMembership(b)
         i == [invites |-> [invites EXCEPT ![b] = <<>>], invited |-> invited]
     IN  IF refused \/ AlreadyOn(c, b)
         THEN SetMembership(m) /\ SetInvitations(i)
         ELSE /\ SetMembership(AddMember(m, c, b))
              /\ SetInvitations(IF c \in Local THEN DelInvite(i, c, b) ELSE i)
  /\ UNCHANGED person

privileged_join(c, n) ==
  /\ c \in person \ {Me} /\ ~TooManyChannels(c)
  /\ LET r == Resolve(n)
     IN  IF r.blocks # {}
         THEN \E b \in r.blocks : JoinExisting(c, b)
         ELSE \E b \in Blocks, refused \in BOOLEAN : JoinNew(c, b, r.name, refused)

\* remove_user_from_channel, as PART and KICK call it: the user is on it.
remove_user_from_channel(c, b) ==
  /\ c \in person \ {Me} /\ AlreadyOn(c, b)
  /\ LET m == DropMember(Membership, c, b)
     IN  /\ SetMembership(m)
         /\ Release(m, {b})
         /\ SetInvitations(IF Emptied(m, {b}) # {} THEN DropInvites(Invitations, b)
                           ELSE Invitations)
  /\ UNCHANGED person

\* link_remove_users_from_channel: every local user but Me parts.
SweepOut(out, b) ==
  [members |-> [members EXCEPT ![b] = @ \ out],
   users   |-> [users EXCEPT ![b] = @ - Cardinality(out)],
   channel |-> [c \in Clients |-> IF c \in out THEN channel[c] \ {b} ELSE channel[c]],
   joined  |-> [c \in Clients |-> IF c \in out THEN joined[c] - 1 ELSE joined[c]]]

link_remove_users_from_channel(b) ==
  /\ b \in live /\ members[b] \cap Local # {}
  /\ LET m == SweepOut(members[b] \cap Local, b)
     IN  /\ SetMembership(m)
         /\ Release(m, {b})
         /\ SetInvitations(IF Emptied(m, {b}) # {} THEN DropInvites(Invitations, b)
                           ELSE Invitations)
  /\ UNCHANGED person

\* link_add_server_to_channel: this server joins the channel it links.  The function
\* does not look whether it is on it; its caller, a mode hook outside the repository,
\* is taken to link a channel once (a second entry would be a member twice).
link_add_server_to_channel(b) ==
  /\ b \in live /\ ~AlreadyOn(Me, b)
  /\ SetMembership(AddMember(Membership, Me, b))
  /\ UNCHANGED <<person, chanVars, inviteVars>>

\* The mode hook of +L: the channel forwards its joins to another name.
SetLink(b, n) ==
  /\ b \in live \ {LevBlock} /\ chname[b] # n
  /\ link' = [link EXCEPT ![b] = n]
  /\ UNCHANGED <<person, live, chname, count, memberVars, inviteVars>>

add_invite(c, b) ==
  /\ c \in person \ {Me} /\ b \in live
  /\ SetInvitations(AddInvite(Invitations, c, b))
  /\ UNCHANGED <<person, chanVars, memberVars>>

\* exit_one_client, person part: off every channel, freeing the emptied ones
\* (send_quit_to_common_channels), then off every invitation list, then
\* free_user.
LeaveAll(c) ==
  [members |-> [b \in Blocks |-> IF b \in channel[c] THEN members[b] \ {c}
                                 ELSE members[b]],
   users |-> [b \in Blocks |-> IF b \in channel[c] THEN users[b] - 1
                               ELSE users[b]],
   channel |-> [channel EXCEPT ![c] = {}],
   joined |-> [joined EXCEPT ![c] = @ - Cardinality(channel[c])]]

\* What the invitation lists are after the channels in gone were released.
ForgetInvites(gone) ==
  [invites |-> [b \in Blocks |-> IF b \in gone
                                 THEN DropInvites(Invitations, b).invites[b]
                                 ELSE invites[b]],
   invited |-> [c \in Clients |->
                  invited[c] \ {b \in gone : Len(invites[b]) >= 2
                                             /\ invites[b][2] = c}]]

\* Mutant: the user forgets its invitations, the channels do not.
UninviteOneSided(i, c) == [i EXCEPT !.invited[c] = {}]

Uninvite(i, c) ==
  [invites |-> [b \in Blocks |-> IF b \in i.invited[c]
                                 THEN Unlink(i.invites[b], c)
                                 ELSE i.invites[b]],
   invited |-> [i.invited EXCEPT ![c] = {}]]

MayExit(c) == c \in person \ {Me}

exit_one_client(c) ==
  /\ MayExit(c)
  /\ LET m == LeaveAll(c)
     IN  /\ SetMembership(m)
         /\ Release(m, channel[c])
         /\ SetInvitations(Uninvite(ForgetInvites(Emptied(m, channel[c])), c))
  /\ person' = person \ {c}

Next ==
  \/ \E c \in Clients : Register(c) \/ exit_one_client(c)
  \/ \E c \in Clients, n \in Names : privileged_join(c, n)
  \/ \E c \in Clients, b \in Blocks : remove_user_from_channel(c, b)
  \/ \E c \in Clients, b \in Blocks : add_invite(c, b)
  \/ \E b \in Blocks : link_remove_users_from_channel(b)
  \/ \E b \in Blocks : link_add_server_to_channel(b)
  \/ \E b \in Blocks, n \in Names : SetLink(b, n)

Spec == Init /\ [][Next]_vars

-----------------------------------------------------------------------------
TypeOK ==
  /\ person \subseteq Clients /\ Me \in person
  /\ live \subseteq Blocks
  /\ chname \in [Blocks -> Names \cup {NoName}]
  /\ link \in [Blocks -> Names \cup {NoName}]
  /\ members \in [Blocks -> SUBSET Clients]
  /\ users \in [Blocks -> Int]
  /\ channel \in [Clients -> SUBSET Blocks]
  /\ joined \in [Clients -> Int]
  /\ invites \in [Blocks -> Seq(Clients)]
  /\ invited \in [Clients -> SUBSET Blocks]
  /\ count \in Int

\* The two membership lists mirror each other, only registered users are on
\* them, and no list refers to a channel that sub1_from_channel has freed.
MembershipMirror ==
  /\ \A c \in Clients, b \in Blocks : c \in members[b] <=> b \in channel[c]
  /\ \A b \in Blocks : members[b] \subseteq person
  /\ \A b \in Blocks \ live : members[b] = {}

\* chptr->users, user->joined and Count.chan are the lengths of the lists they
\* cache: sub1_from_channel frees a channel by its counter, never by its list.
CountsExact ==
  /\ \A b \in Blocks : users[b] = Cardinality(members[b])
  /\ \A c \in Clients : joined[c] = Cardinality(channel[c])
  /\ count = Cardinality(live)

\* sendto_lev follows lchans[i].levptr without a check: whatever the users of
\* a level channel do, its block is never freed nor handed out again.
LevelChannelLive ==
  LevBlock \in live /\ chname[LevBlock] = LevName /\ Me \in members[LevBlock]

\* create_channel never allocates a second block for a name that find_channel
\* can look up.
FoundNamesUnique ==
  \A b1, b2 \in live :
    chname[b1] = chname[b2] /\ chname[b1] \notin Bucket0 => b1 = b2

\* An invitation list names a user once (del_invite removes one node), and
\* every entry, that of a freed block included, is a registered user that
\* lists the same block: del_invite dereferences cptr->user and the entries
\* must not outlive it.
InviteBackLinks ==
  /\ \A b \in Blocks : IsInjective(invites[b])
  /\ \A b \in Blocks : \A c \in Range(invites[b]) : c \in person /\ b \in invited[c]

\* A channel that loses its last user is freed by the same call, whichever
\* path removed the user (sub1_from_channel).
EmptiedIsFreed ==
  [][\A b \in live : members[b] # {} /\ members'[b] = {} => b \notin live']_vars
=============================================================================
