---------------------------- MODULE ChannelProofs ----------------------------
(***************************************************************************)
(* Proofs about Channel: for any set of clients, blocks and names, the     *)
(* membership lists mirror each other, the cached counters are exact, and  *)
(* the level channels live for ever; and about ListReply: a LIST of any    *)
(* table ends after all its channels.                                      *)
(***************************************************************************)
EXTENDS Channel, ListReply, FiniteSetTheorems, SequenceTheorems, TLAPS

\* Unlinking a node keeps a list a list over the same elements.
LEMMA UnlinkType ==
  ASSUME NEW S, NEW s \in Seq(S), NEW c
  PROVE  Unlink(s, c) \in Seq(S)
<1>1. CASE c \notin Range(s)
  BY <1>1 DEF Unlink
<1>2. CASE c \in Range(s)
  <2> DEFINE i == CHOOSE k \in 1..Len(s) : s[k] = c
  <2>1. \E k \in 1..Len(s) : s[k] = c
    BY <1>2 DEF Range
  <2>2. i \in 1..Len(s)
    BY <2>1
  <2>3. Unlink(s, c) = SubSeq(s, 1, i - 1) \o SubSeq(s, i + 1, Len(s))
    BY <1>2 DEF Unlink
  <2> HIDE DEF i
  <2>4. SubSeq(s, 1, i - 1) \in Seq(S)
    <3>1. i - 1 \in Int /\ \A k \in 1..(i - 1) : s[k] \in S
      BY <2>2
    <3> QED BY <3>1, SubSeqProperties
  <2>5. SubSeq(s, i + 1, Len(s)) \in Seq(S)
    <3>1. i + 1 \in Int /\ Len(s) \in Int /\ \A k \in (i + 1)..Len(s) : s[k] \in S
      BY <2>2
    <3> QED BY <3>1, SubSeqProperties
  <2> QED BY <2>3, <2>4, <2>5
<1> QED BY <1>1, <1>2

\* A pair of invitation lists of the right type.
InvitationsOK(i) ==
  /\ i.invites \in [Blocks -> Seq(Clients)]
  /\ i.invited \in [Clients -> SUBSET Blocks]

LEMMA DelInviteType ==
  ASSUME NEW i, InvitationsOK(i), NEW c \in Clients, NEW b \in Blocks
  PROVE  InvitationsOK(DelInvite(i, c, b))
BY UnlinkType DEF InvitationsOK, DelInvite

LEMMA AddInviteType ==
  ASSUME NEW i, InvitationsOK(i), NEW c \in Clients, NEW b \in Blocks
  PROVE  InvitationsOK(AddInvite(i, c, b))
<1> DEFINE j == DelInvite(i, c, b)
<1>1. InvitationsOK(j)
  BY DelInviteType
<1>2. AddInvite(i, c, b) = [invites |-> [j.invites EXCEPT ![b] = <<c>> \o @],
                            invited |-> [j.invited EXCEPT ![c] = @ \cup {b}]]
  BY DEF AddInvite
<1> HIDE DEF j
<1> QED BY <1>1, <1>2 DEF InvitationsOK

LEMMA DropInvitesType ==
  ASSUME NEW i, InvitationsOK(i), NEW b \in Blocks
  PROVE  InvitationsOK(DropInvites(i, b))
<1>1. CASE Len(i.invites[b]) < 2
  BY <1>1 DEF DropInvites
<1>2. CASE ~(Len(i.invites[b]) < 2)
  <2>1. i.invites[b][2] \in Clients
    BY <1>2 DEF InvitationsOK
  <2> QED BY <1>2, <2>1, DelInviteType DEF DropInvites
<1> QED BY <1>1, <1>2


-----------------------------------------------------------------------------
(* The membership record: what each helper preserves.                       *)

MembershipOK(m) ==
  /\ m.members \in [Blocks -> SUBSET Clients]
  /\ m.users \in [Blocks -> Int]
  /\ m.channel \in [Clients -> SUBSET Blocks]
  /\ m.joined \in [Clients -> Int]
  /\ \A c \in Clients, b \in Blocks : c \in m.members[b] <=> b \in m.channel[c]
  /\ \A b \in Blocks : m.users[b] = Cardinality(m.members[b])
  /\ \A c \in Clients : m.joined[c] = Cardinality(m.channel[c])

LEMMA FiniteParts ==
  /\ \A S \in SUBSET Clients : IsFiniteSet(S) /\ Cardinality(S) \in Nat
  /\ \A S \in SUBSET Blocks : IsFiniteSet(S) /\ Cardinality(S) \in Nat
BY FS_Subset, FS_CardinalityType, ClientsAssumption, BlocksAssumption

LEMMA FiniteLists ==
  ASSUME NEW m, MembershipOK(m)
  PROVE  /\ \A b \in Blocks : IsFiniteSet(m.members[b]) /\ Cardinality(m.members[b]) \in Nat
         /\ \A c \in Clients : IsFiniteSet(m.channel[c]) /\ Cardinality(m.channel[c]) \in Nat
BY FiniteParts DEF MembershipOK

LEMMA AddMemberOK ==
  ASSUME NEW m, MembershipOK(m), NEW c \in Clients, NEW b \in Blocks,
         b \notin m.channel[c]
  PROVE  MembershipOK(AddMember(m, c, b))
<1>1. c \notin m.members[b]
  BY DEF MembershipOK
<1>2. Cardinality(m.members[b] \cup {c}) = Cardinality(m.members[b]) + 1
  BY <1>1, FiniteLists, FS_AddElement
<1>3. Cardinality(m.channel[c] \cup {b}) = Cardinality(m.channel[c]) + 1
  BY FiniteLists, FS_AddElement
<1> QED BY <1>2, <1>3 DEF MembershipOK, AddMember

LEMMA DropMemberOK ==
  ASSUME NEW m, MembershipOK(m), NEW c \in Clients, NEW b \in Blocks,
         b \in m.channel[c]
  PROVE  MembershipOK(DropMember(m, c, b))
<1>1. c \in m.members[b]
  BY DEF MembershipOK
<1>2. Cardinality(m.members[b] \ {c}) = Cardinality(m.members[b]) - 1
  BY <1>1, FiniteLists, FS_RemoveElement
<1>3. Cardinality(m.channel[c] \ {b}) = Cardinality(m.channel[c]) - 1
  BY FiniteLists, FS_RemoveElement
<1> QED BY <1>2, <1>3 DEF MembershipOK, DropMember

LEMMA SweepOutOK ==
  ASSUME MembershipOK(Membership), NEW b \in Blocks,
         NEW out \in SUBSET Clients, out \subseteq members[b]
  PROVE  MembershipOK(SweepOut(out, b))
<1> DEFINE m == SweepOut(out, b)
<1>1. Cardinality(members[b] \ out) = Cardinality(members[b]) - Cardinality(out)
  <2>1. members[b] \cap out = out
    OBVIOUS
  <2>2. IsFiniteSet(members[b])
    BY FiniteLists DEF Membership
  <2> QED BY <2>1, <2>2, FS_Difference
<1>2. ASSUME NEW c \in out
      PROVE  /\ b \in channel[c]
             /\ Cardinality(channel[c] \ {b}) = Cardinality(channel[c]) - 1
  <2>1. b \in channel[c]
    BY <1>2 DEF MembershipOK, Membership
  <2>2. IsFiniteSet(channel[c])
    BY <1>2, FiniteLists DEF Membership
  <2> QED BY <2>1, <2>2, FS_RemoveElement
<1>3. Cardinality(out) \in Int
  BY FiniteParts
<1>4. /\ m.members \in [Blocks -> SUBSET Clients]
      /\ m.users \in [Blocks -> Int]
      /\ m.channel \in [Clients -> SUBSET Blocks]
      /\ m.joined \in [Clients -> Int]
  BY <1>3 DEF MembershipOK, Membership, SweepOut
<1>5. ASSUME NEW c \in Clients, NEW d \in Blocks
      PROVE  c \in m.members[d] <=> d \in m.channel[c]
  BY <1>5 DEF MembershipOK, Membership, SweepOut
<1>6. \A d \in Blocks : m.users[d] = Cardinality(m.members[d])
  BY <1>1 DEF MembershipOK, Membership, SweepOut
<1>7. \A c \in Clients : m.joined[c] = Cardinality(m.channel[c])
  BY <1>2 DEF MembershipOK, Membership, SweepOut
<1> QED BY <1>4, <1>5, <1>6, <1>7 DEF MembershipOK

LEMMA LeaveAllOK ==
  ASSUME MembershipOK(Membership), NEW c \in Clients
  PROVE  MembershipOK(LeaveAll(c))
<1> DEFINE m == LeaveAll(c)
<1>1. ASSUME NEW b \in channel[c]
      PROVE  /\ b \in Blocks /\ c \in members[b]
             /\ Cardinality(members[b] \ {c}) = Cardinality(members[b]) - 1
  <2>1. b \in Blocks /\ c \in members[b]
    BY <1>1 DEF MembershipOK, Membership
  <2>2. IsFiniteSet(members[b])
    BY <2>1, FiniteLists DEF Membership
  <2> QED BY <2>1, <2>2, FS_RemoveElement
<1>2. Cardinality(channel[c]) \in Int /\ joined[c] = Cardinality(channel[c])
  BY FiniteParts DEF MembershipOK, Membership
<1>3. /\ m.members \in [Blocks -> SUBSET Clients]
      /\ m.users \in [Blocks -> Int]
      /\ m.channel \in [Clients -> SUBSET Blocks]
      /\ m.joined \in [Clients -> Int]
  BY <1>2 DEF MembershipOK, Membership, LeaveAll
<1>4. ASSUME NEW d \in Clients, NEW b \in Blocks
      PROVE  d \in m.members[b] <=> b \in m.channel[d]
  BY <1>4 DEF MembershipOK, Membership, LeaveAll
<1>5. \A b \in Blocks : m.users[b] = Cardinality(m.members[b])
  BY <1>1 DEF MembershipOK, Membership, LeaveAll
<1>6. \A d \in Clients : m.joined[d] = Cardinality(m.channel[d])
  BY <1>2, FS_EmptySet DEF MembershipOK, Membership, LeaveAll
<1> QED BY <1>3, <1>4, <1>5, <1>6 DEF MembershipOK

LEMMA ClearedOK ==
  ASSUME MembershipOK(Membership), NEW b \in Blocks, members[b] = {}
  PROVE  MembershipOK(ClearedMembership(b))
BY FS_EmptySet DEF MembershipOK, Membership, ClearedMembership


-----------------------------------------------------------------------------
(* The inductive invariant.                                                 *)

IInv == TypeOK /\ MembershipMirror /\ CountsExact /\ LevelChannelLive

LEMMA IInvMembership ==
  ASSUME IInv
  PROVE  MembershipOK(Membership) /\ InvitationsOK(Invitations)
BY DEF IInv, TypeOK, MembershipMirror, CountsExact, MembershipOK, Membership,
       InvitationsOK, Invitations

LEMMA LiveCardinality ==
  ASSUME TypeOK
  PROVE  /\ IsFiniteSet(live) /\ Cardinality(live) \in Nat
         /\ \A b \in Blocks \ live : Cardinality(live \cup {b}) = Cardinality(live) + 1
         /\ \A S \in SUBSET live : Cardinality(live \ S) = Cardinality(live) - Cardinality(S)
<1>1. IsFiniteSet(live) /\ Cardinality(live) \in Nat
  BY FiniteParts DEF TypeOK
<1>2. \A b \in Blocks \ live : Cardinality(live \cup {b}) = Cardinality(live) + 1
  BY <1>1, FS_AddElement
<1>3. ASSUME NEW S \in SUBSET live
      PROVE  Cardinality(live \ S) = Cardinality(live) - Cardinality(S)
  <2>1. live \cap S = S
    OBVIOUS
  <2> QED BY <1>1, <2>1, FS_Difference
<1> QED BY <1>1, <1>2, <1>3

\* Removing users from the channels of bs and releasing the emptied ones.
LEMMA ReleaseKeeps ==
  ASSUME IInv, NEW m, MembershipOK(m), NEW bs \in SUBSET live,
         NEW i, InvitationsOK(i), NEW who \in SUBSET Clients,
         \A b \in Blocks : m.members[b] \subseteq members[b] \ who,
         Me \in m.members[LevBlock],
         SetMembership(m), Release(m, bs), SetInvitations(i),
         person' = person \ who, Me \notin who
  PROVE  IInv'
<1> DEFINE gone == Emptied(m, bs)
<1>1. gone \in SUBSET live /\ bs \subseteq Blocks
  BY DEF Emptied, IInv, TypeOK
<1>2. \A b \in gone : m.members[b] = {}
  <2> SUFFICES ASSUME NEW b \in gone
               PROVE  m.members[b] = {}
    OBVIOUS
  <2>1. b \in Blocks /\ m.users[b] <= 0
    BY <1>1 DEF Emptied
  <2>2. IsFiniteSet(m.members[b]) /\ Cardinality(m.members[b]) \in Nat
    BY <2>1, FiniteLists
  <2>3. Cardinality(m.members[b]) = 0
    BY <2>1, <2>2 DEF MembershipOK
  <2> QED BY <2>2, <2>3, FS_EmptySet
<1>3. LevBlock \notin gone
  BY <1>2
<1>4. /\ live' = live \ gone /\ count' = count - Cardinality(gone)
      /\ chname' = [b \in Blocks |-> IF b \in gone THEN NoName ELSE chname[b]]
      /\ link' = [b \in Blocks |-> IF b \in gone THEN NoName ELSE link[b]]
  BY DEF Release
<1>5. Cardinality(gone) \in Int
  BY <1>1, FiniteParts DEF IInv, TypeOK
<1> HIDE DEF gone
<1>6. TypeOK'
  BY <1>1, <1>4, <1>5 DEF IInv, TypeOK, MembershipOK, InvitationsOK,
     SetMembership, SetInvitations
<1>7. MembershipMirror'
  BY <1>1, <1>2, <1>4 DEF IInv, MembershipMirror, MembershipOK, SetMembership
<1>8. CountsExact'
  <2>1. Cardinality(live \ gone) = Cardinality(live) - Cardinality(gone)
    BY <1>1, LiveCardinality DEF IInv
  <2> QED BY <1>4, <2>1 DEF IInv, CountsExact, MembershipOK, SetMembership
<1>9. LevelChannelLive'
  BY <1>3, <1>4, BlocksAssumption DEF IInv, LevelChannelLive, SetMembership
<1> QED BY <1>6, <1>7, <1>8, <1>9 DEF IInv

LEMMA InitIInv == Init => IInv
<1> SUFFICES ASSUME Init PROVE IInv
  OBVIOUS
<1>1. /\ Cardinality({Me}) = 1 /\ Cardinality({LevBlock}) = 1
      /\ Cardinality({}) = 0
  BY FS_EmptySet, FS_Singleton
<1>2. TypeOK
  BY ClientsAssumption, BlocksAssumption, NamesAssumption DEF Init, TypeOK
<1>3. MembershipMirror
  BY ClientsAssumption DEF Init, MembershipMirror
<1>4. CountsExact
  BY <1>1 DEF Init, CountsExact
<1>5. LevelChannelLive
  BY BlocksAssumption DEF Init, LevelChannelLive
<1> QED BY <1>2, <1>3, <1>4, <1>5 DEF IInv


-----------------------------------------------------------------------------
(* One lemma per operation.                                                 *)

LEMMA RegisterKeeps ==
  ASSUME IInv, NEW c \in Clients, Register(c)
  PROVE  IInv'
<1>1. channel[c] = {} /\ joined[c] = 0
  <2>1. \A b \in Blocks : c \notin members[b]
    BY DEF Register, IInv, MembershipMirror
  <2>2. channel[c] = {}
    BY <2>1 DEF IInv, TypeOK, MembershipMirror
  <2> QED BY <2>2, FS_EmptySet DEF IInv, CountsExact
<1>2. channel' = channel /\ joined' = joined
  BY <1>1 DEF Register, IInv, TypeOK
<1>3. TypeOK'
  BY <1>2 DEF Register, IInv, TypeOK, chanVars
<1>4. MembershipMirror' /\ CountsExact' /\ LevelChannelLive'
  BY <1>2 DEF Register, IInv, MembershipMirror, CountsExact, LevelChannelLive, chanVars
<1> QED BY <1>3, <1>4 DEF IInv

\* A user that joins an existing channel.
LEMMA JoinExistingKeeps ==
  ASSUME IInv, NEW c \in person, NEW b \in live, JoinExisting(c, b)
  PROVE  IInv'
<1> DEFINE m == AddMember(Membership, c, b)
           i == IF c \in Local THEN DelInvite(Invitations, c, b) ELSE Invitations
<1>1. c \in Clients /\ b \in Blocks
  BY DEF IInv, TypeOK
<1>2. MembershipOK(m)
  BY <1>1, IInvMembership, AddMemberOK DEF JoinExisting, AlreadyOn, Membership
<1>3. InvitationsOK(i)
  BY <1>1, IInvMembership, DelInviteType
<1>4. m.members = [members EXCEPT ![b] = @ \cup {c}]
  BY DEF AddMember, Membership
<1>5. SetMembership(m) /\ SetInvitations(i) /\ UNCHANGED <<person, chanVars>>
  BY DEF JoinExisting
<1> HIDE DEF m, i
<1>6. TypeOK'
  BY <1>2, <1>3, <1>5 DEF IInv, TypeOK, MembershipOK, InvitationsOK,
     SetMembership, SetInvitations, chanVars
<1>7. MembershipMirror' /\ LevelChannelLive'
  BY <1>1, <1>2, <1>4, <1>5 DEF IInv, TypeOK, MembershipMirror, LevelChannelLive,
     MembershipOK, SetMembership, chanVars
<1>8. CountsExact'
  BY <1>2, <1>5 DEF IInv, CountsExact, MembershipOK, SetMembership, chanVars
<1> QED BY <1>6, <1>7, <1>8 DEF IInv

\* A user that creates the channel it joins, or is refused after creating it.
LEMMA JoinNewKeeps ==
  ASSUME IInv, NEW c \in person, NEW b \in Blocks, NEW n \in Names,
         NEW refused \in BOOLEAN, JoinNew(c, b, n, refused)
  PROVE  IInv'
<1> DEFINE m0 == ClearedMembership(b)
           i0 == [invites |-> [invites EXCEPT ![b] = <<>>], invited |-> invited]
           stays == refused \/ AlreadyOn(c, b)
           m == IF stays THEN m0 ELSE AddMember(m0, c, b)
           i == IF stays THEN i0
                ELSE IF c \in Local THEN DelInvite(i0, c, b) ELSE i0
<1>1. c \in Clients /\ b \notin live /\ members[b] = {}
  BY DEF IInv, TypeOK, MembershipMirror, JoinNew
<1>2. MembershipOK(m0) /\ m0.channel = channel
  BY <1>1, IInvMembership, ClearedOK DEF ClearedMembership
<1>3. MembershipOK(m)
  <2>1. CASE stays
    BY <1>2, <2>1
  <2>2. CASE ~stays
    BY <1>1, <1>2, <2>2, AddMemberOK DEF AlreadyOn
  <2> QED BY <2>1, <2>2
<1>4. InvitationsOK(i0)
  BY DEF IInv, TypeOK, InvitationsOK
<1>5. InvitationsOK(i)
  BY <1>1, <1>4, DelInviteType
<1>6. \A d \in Blocks \ {b} : m.members[d] = members[d]
  BY DEF ClearedMembership, AddMember, IInv, TypeOK
<1>7. m.members[b] \subseteq {c}
  BY <1>2 DEF ClearedMembership, AddMember, IInv, TypeOK
<1>8. /\ SetMembership(m) /\ SetInvitations(i)
      /\ live' = live \cup {b} /\ count' = count + 1
      /\ chname' = [chname EXCEPT ![b] = n] /\ link' = [link EXCEPT ![b] = NoName]
      /\ person' = person
  BY DEF JoinNew
<1> HIDE DEF m, i
<1>9. TypeOK'
  BY <1>3, <1>5, <1>8 DEF IInv, TypeOK, MembershipOK, InvitationsOK,
     SetMembership, SetInvitations
<1>10. MembershipMirror'
  BY <1>3, <1>6, <1>7, <1>8 DEF IInv, MembershipMirror, MembershipOK, SetMembership
<1>11. CountsExact'
  BY <1>1, <1>3, <1>8, LiveCardinality DEF IInv, CountsExact, MembershipOK, SetMembership
<1>12. LevelChannelLive'
  BY <1>1, <1>6, <1>8, BlocksAssumption DEF IInv, TypeOK, LevelChannelLive, SetMembership
<1> QED BY <1>9, <1>10, <1>11, <1>12 DEF IInv

LEMMA JoinKeeps ==
  ASSUME IInv, NEW c \in Clients, NEW n \in Names, privileged_join(c, n)
  PROVE  IInv'
<1> DEFINE r == Resolve(n)
<1>1. c \in person
  BY DEF privileged_join
<1>2. r.blocks \subseteq live /\ r.name \in Names \cup {NoName}
  BY DEF Resolve, Found, IInv, TypeOK
<1>3. CASE r.blocks # {}
  BY <1>1, <1>2, <1>3, JoinExistingKeeps DEF privileged_join
<1>4. CASE r.blocks = {}
  <2>1. r.name \in Names
    BY DEF Resolve, Found, IInv, TypeOK
  <2> QED BY <1>1, <1>4, <2>1, JoinNewKeeps DEF privileged_join
<1> QED BY <1>3, <1>4


\* Me is never among the users a removal takes off a channel.
LEMMA PartKeeps ==
  ASSUME IInv, NEW c \in Clients, NEW b \in Blocks, remove_user_from_channel(c, b)
  PROVE  IInv'
<1> DEFINE m == DropMember(Membership, c, b)
           i == IF Emptied(m, {b}) # {} THEN DropInvites(Invitations, b)
                ELSE Invitations
<1>1. c # Me /\ c \in members[b] /\ b \in live
  BY DEF remove_user_from_channel, AlreadyOn, IInv, MembershipMirror
<1>2. MembershipOK(m)
  BY IInvMembership, DropMemberOK DEF remove_user_from_channel, AlreadyOn, Membership
<1>3. InvitationsOK(i)
  BY IInvMembership, DropInvitesType
<1>4. m.members = [members EXCEPT ![b] = @ \ {c}]
  BY DEF DropMember, Membership
<1>5. /\ \A d \in Blocks : m.members[d] \subseteq members[d] \ {}
      /\ Me \in m.members[LevBlock]
  BY <1>1, <1>4, BlocksAssumption DEF IInv, TypeOK, LevelChannelLive
<1>6. SetMembership(m) /\ Release(m, {b}) /\ SetInvitations(i) /\ person' = person \ {}
  BY DEF remove_user_from_channel
<1> HIDE DEF m, i
<1>7. {b} \in SUBSET live /\ {} \in SUBSET Clients /\ Me \notin {}
  BY <1>1
<1> QED BY <1>2, <1>3, <1>5, <1>6, <1>7, ReleaseKeeps

LEMMA SweepKeeps ==
  ASSUME IInv, NEW b \in Blocks, link_remove_users_from_channel(b)
  PROVE  IInv'
<1> DEFINE out == members[b] \cap Local
           m == SweepOut(out, b)
           i == IF Emptied(m, {b}) # {} THEN DropInvites(Invitations, b)
                ELSE Invitations
<1>1. b \in live /\ Me \notin out /\ out \in SUBSET Clients
  BY ClientsAssumption DEF link_remove_users_from_channel
<1>2. MembershipOK(m)
  BY <1>1, IInvMembership, SweepOutOK
<1>3. InvitationsOK(i)
  BY IInvMembership, DropInvitesType
<1>4. m.members = [members EXCEPT ![b] = @ \ out]
  BY DEF SweepOut
<1>5. /\ \A d \in Blocks : m.members[d] \subseteq members[d] \ {}
      /\ Me \in m.members[LevBlock]
  <2> HIDE DEF m
  <2>1. \A d \in Blocks : m.members[d] = IF d = b THEN members[d] \ out ELSE members[d]
    BY <1>4 DEF IInv, TypeOK
  <2>2. LevBlock \in Blocks /\ Me \in members[LevBlock]
    BY BlocksAssumption DEF IInv, LevelChannelLive
  <2> QED BY <1>1, <2>1, <2>2
<1>6. SetMembership(m) /\ Release(m, {b}) /\ SetInvitations(i) /\ person' = person \ {}
  BY DEF link_remove_users_from_channel
<1> HIDE DEF m, i
<1>7. {b} \in SUBSET live /\ {} \in SUBSET Clients /\ Me \notin {}
  BY <1>1
<1> QED BY <1>2, <1>3, <1>5, <1>6, <1>7, ReleaseKeeps

LEMMA LinkAddKeeps ==
  ASSUME IInv, NEW b \in Blocks, link_add_server_to_channel(b)
  PROVE  IInv'
<1> DEFINE m == AddMember(Membership, Me, b)
<1>1. b \in live /\ Me \in Clients /\ Me \in person
  BY ClientsAssumption DEF link_add_server_to_channel, IInv, TypeOK
<1>2. MembershipOK(m)
  BY <1>1, IInvMembership, AddMemberOK
     DEF link_add_server_to_channel, AlreadyOn, Membership
<1>3. m.members = [members EXCEPT ![b] = @ \cup {Me}]
  BY DEF AddMember, Membership
<1>4. SetMembership(m) /\ UNCHANGED <<person, chanVars, inviteVars>>
  BY DEF link_add_server_to_channel
<1> HIDE DEF m
<1>5. TypeOK'
  BY <1>2, <1>4 DEF IInv, TypeOK, MembershipOK, SetMembership, chanVars, inviteVars
<1>6. MembershipMirror' /\ LevelChannelLive'
  BY <1>1, <1>2, <1>3, <1>4 DEF IInv, TypeOK, MembershipMirror, LevelChannelLive,
     MembershipOK, SetMembership, chanVars
<1>7. CountsExact'
  BY <1>2, <1>4 DEF IInv, CountsExact, MembershipOK, SetMembership, chanVars
<1> QED BY <1>5, <1>6, <1>7 DEF IInv

LEMMA SetLinkKeeps ==
  ASSUME IInv, NEW b \in Blocks, NEW n \in Names, SetLink(b, n)
  PROVE  IInv'
BY DEF SetLink, IInv, TypeOK, MembershipMirror, CountsExact, LevelChannelLive,
       memberVars, inviteVars

LEMMA AddInviteKeeps ==
  ASSUME IInv, NEW c \in Clients, NEW b \in Blocks, add_invite(c, b)
  PROVE  IInv'
<1>1. InvitationsOK(AddInvite(Invitations, c, b))
  BY IInvMembership, AddInviteType
<1> QED BY <1>1 DEF add_invite, SetInvitations, InvitationsOK, IInv, TypeOK,
           MembershipMirror, CountsExact, LevelChannelLive, memberVars, chanVars

LEMMA ForgetInvitesType ==
  ASSUME IInv, NEW gone \in SUBSET Blocks
  PROVE  InvitationsOK(ForgetInvites(gone))
<1>1. \A b \in Blocks : DropInvites(Invitations, b).invites[b] \in Seq(Clients)
  BY IInvMembership, DropInvitesType DEF InvitationsOK
<1> QED BY <1>1 DEF ForgetInvites, InvitationsOK, IInv, TypeOK

LEMMA UninviteType ==
  ASSUME NEW i, InvitationsOK(i), NEW c \in Clients
  PROVE  InvitationsOK(Uninvite(i, c))
BY UnlinkType DEF InvitationsOK, Uninvite

LEMMA ExitKeeps ==
  ASSUME IInv, NEW c \in Clients, exit_one_client(c)
  PROVE  IInv'
<1> DEFINE m == LeaveAll(c)
           gone == Emptied(m, channel[c])
           i == Uninvite(ForgetInvites(gone), c)
<1>1. c # Me /\ channel[c] \in SUBSET live /\ channel[c] \subseteq Blocks
  BY DEF exit_one_client, MayExit, IInv, TypeOK, MembershipMirror
<1>2. MembershipOK(m)
  BY IInvMembership, LeaveAllOK
<1>3. InvitationsOK(i)
  BY <1>1, ForgetInvitesType, UninviteType DEF Emptied
<1>4. m.members = [b \in Blocks |-> IF b \in channel[c] THEN members[b] \ {c}
                                    ELSE members[b]]
  BY DEF LeaveAll
<1>5. /\ \A d \in Blocks : m.members[d] \subseteq members[d] \ {c}
      /\ Me \in m.members[LevBlock]
  BY <1>1, <1>4, BlocksAssumption DEF IInv, TypeOK, LevelChannelLive, MembershipMirror
<1>6. /\ SetMembership(m) /\ Release(m, channel[c]) /\ SetInvitations(i)
      /\ person' = person \ {c}
  BY DEF exit_one_client
<1> HIDE DEF m, i
<1> QED BY <1>1, <1>2, <1>3, <1>5, <1>6, ReleaseKeeps

LEMMA NextIInv == IInv /\ [Next]_vars => IInv'
<1> SUFFICES ASSUME IInv, [Next]_vars PROVE IInv'
  OBVIOUS
<1>1. CASE UNCHANGED vars
  BY <1>1 DEF vars, chanVars, memberVars, inviteVars, IInv, TypeOK,
     MembershipMirror, CountsExact, LevelChannelLive
<1>2. CASE Next
  BY <1>2, RegisterKeeps, ExitKeeps, JoinKeeps, PartKeeps, AddInviteKeeps,
     SweepKeeps, LinkAddKeeps, SetLinkKeeps DEF Next
<1> QED BY <1>1, <1>2

\* Every reachable state is well typed (the types of src/channel.c's lists and
\* counters), for any clients, blocks and names.
THEOREM TypeCorrect == Spec => []TypeOK
BY InitIInv, NextIInv, PTL DEF Spec, IInv

\* The two membership lists mirror each other and no freed channel is on any.
THEOREM MembershipMirrored == Spec => []MembershipMirror
BY InitIInv, NextIInv, PTL DEF Spec, IInv

\* The counters by which channels are freed equal the lists they count.
THEOREM CountersExact == Spec => []CountsExact
BY InitIInv, NextIInv, PTL DEF Spec, IInv

\* The pointers sendto_lev uses never dangle.
THEOREM LevelChannelsLive == Spec => []LevelChannelLive
BY InitIInv, NextIInv, PTL DEF Spec, IInv

-----------------------------------------------------------------------------
\* A channel among those a removal touched is released if nobody is left.
LEMMA ReleaseFrees ==
  ASSUME NEW m, MembershipOK(m), NEW bs \in SUBSET Blocks, Release(m, bs),
         NEW b \in bs, m.members[b] = {}
  PROVE  b \notin live'
<1>1. m.users[b] = 0
  BY FS_EmptySet DEF MembershipOK
<1> QED BY <1>1 DEF Release, Emptied

LEMMA NextEmptied ==
  ASSUME IInv, Next, NEW d \in live, members[d] # {}, members'[d] = {}
  PROVE  d \notin live'
<1>1. d \in Blocks
  BY DEF IInv, TypeOK
<1>2. ASSUME NEW c \in Clients, exit_one_client(c) PROVE d \notin live'
  <2> DEFINE m == LeaveAll(c)
  <2>1. MembershipOK(m) /\ m.members[d] = {}
    BY <1>2, IInvMembership, LeaveAllOK DEF exit_one_client, SetMembership
  <2>2. d \in channel[c] /\ channel[c] \in SUBSET Blocks /\ Release(m, channel[c])
    BY <1>1, <1>2, <2>1 DEF LeaveAll, exit_one_client, IInv, TypeOK
  <2> HIDE DEF m
  <2> QED BY <2>1, <2>2, ReleaseFrees
<1>3. ASSUME NEW c \in Clients, NEW n \in Names, privileged_join(c, n)
      PROVE  FALSE
  <2>1. ASSUME NEW b \in Resolve(n).blocks, JoinExisting(c, b) PROVE FALSE
    <3>1. members' = [members EXCEPT ![b] = @ \cup {c}]
      BY <2>1 DEF JoinExisting, SetMembership, AddMember, Membership
    <3> QED BY <1>1, <3>1 DEF IInv, TypeOK
  <2>2. ASSUME NEW b \in Blocks, NEW r \in BOOLEAN, NEW k, JoinNew(c, b, k, r)
        PROVE  FALSE
    <3>1. d # b
      BY <2>2 DEF JoinNew
    <3>2. members'[d] = members[d]
      BY <1>1, <2>2, <3>1 DEF JoinNew, SetMembership, AddMember, ClearedMembership, IInv, TypeOK
    <3> QED BY <3>2
  <2> QED BY <1>3, <2>1, <2>2 DEF privileged_join
<1>4. ASSUME NEW c \in Clients, NEW b \in Blocks, remove_user_from_channel(c, b)
      PROVE  d \notin live'
  <2> DEFINE m == DropMember(Membership, c, b)
  <2>1. MembershipOK(m) /\ m.members[d] = {}
    BY <1>4, IInvMembership, DropMemberOK
       DEF remove_user_from_channel, SetMembership, AlreadyOn, Membership
  <2>2. d = b /\ Release(m, {b})
    BY <1>1, <1>4, <2>1 DEF DropMember, Membership, remove_user_from_channel, IInv, TypeOK
  <2> HIDE DEF m
  <2> QED BY <2>1, <2>2, ReleaseFrees
<1>5. ASSUME NEW b \in Blocks, link_remove_users_from_channel(b)
      PROVE  d \notin live'
  <2> DEFINE m == SweepOut(members[b] \cap Local, b)
  <2>1. MembershipOK(m) /\ m.members[d] = {}
    BY <1>5, IInvMembership, SweepOutOK, ClientsAssumption
       DEF link_remove_users_from_channel, SetMembership
  <2>2. d = b /\ Release(m, {b})
    BY <1>1, <1>5, <2>1 DEF SweepOut, link_remove_users_from_channel, IInv, TypeOK
  <2> HIDE DEF m
  <2> QED BY <2>1, <2>2, ReleaseFrees
<1>6. ASSUME NEW b \in Blocks, link_add_server_to_channel(b) PROVE FALSE
  <2>1. members' = [members EXCEPT ![b] = @ \cup {Me}]
    BY <1>6 DEF link_add_server_to_channel, SetMembership, AddMember, Membership
  <2> QED BY <1>1, <2>1 DEF IInv, TypeOK
<1>7. ASSUME NEW c \in Clients, Register(c) PROVE FALSE
  BY <1>7 DEF Register
<1>8. ASSUME NEW c \in Clients, NEW b \in Blocks, add_invite(c, b) PROVE FALSE
  BY <1>8 DEF add_invite, memberVars
<1>9. ASSUME NEW b \in Blocks, NEW n \in Names, SetLink(b, n) PROVE FALSE
  BY <1>9 DEF SetLink, memberVars
<1> QED BY <1>2, <1>3, <1>4, <1>5, <1>6, <1>7, <1>8, <1>9 DEF Next

\* A channel is freed by the very step that takes its last user away,
\* whichever caller of sub1_from_channel it goes through.
THEOREM EmptiedChannelsFreed == Spec => EmptiedIsFreed
<1>1. IInv /\ [Next]_vars =>
        [\A b \in live : members[b] # {} /\ members'[b] = {} => b \notin live']_vars
  BY NextEmptied
<1> QED BY <1>1, InitIInv, NextIInv, PTL DEF Spec, EmptiedIsFreed

-----------------------------------------------------------------------------
(* Names: what any step does to the channels that can be found.             *)

\* A name that create_channel gives a new block is one that nobody finds.
LEMMA ResolvedFree ==
  ASSUME IInv, NEW n \in Names, Resolve(n).blocks = {}
  PROVE  Found(Resolve(n).name) = {}
BY DEF Resolve

LEMMA ReleaseNames ==
  ASSUME IInv, NEW m, NEW bs, Release(m, bs)
  PROVE  live' \subseteq live /\ \A b \in live' : chname'[b] = chname[b]
BY DEF Release, IInv, TypeOK

\* A step makes at most one channel, under a name that was not to be found,
\* and renames none.
LEMMA NextNames ==
  ASSUME IInv, Next
  PROVE  \/ live' \subseteq live /\ \A b \in live' : chname'[b] = chname[b]
         \/ \E d \in Blocks, n \in Names \cup {NoName} :
              /\ Found(n) = {} /\ d \notin live
              /\ live' = live \cup {d} /\ chname' = [chname EXCEPT ![d] = n]
<1>1. ASSUME NEW c \in Clients, NEW n \in Names, privileged_join(c, n)
      PROVE  \/ live' = live /\ chname' = chname
             \/ \E d \in Blocks, k \in Names \cup {NoName} :
                  /\ Found(k) = {} /\ d \notin live
                  /\ live' = live \cup {d} /\ chname' = [chname EXCEPT ![d] = k]
  <2> DEFINE r == Resolve(n)
  <2>1. ASSUME NEW b \in r.blocks, JoinExisting(c, b)
        PROVE  live' = live /\ chname' = chname
    BY <2>1 DEF JoinExisting, chanVars
  <2>2. ASSUME r.blocks = {}, NEW b \in Blocks, NEW refused \in BOOLEAN,
               JoinNew(c, b, r.name, refused)
        PROVE  \E d \in Blocks, k \in Names \cup {NoName} :
                  /\ Found(k) = {} /\ d \notin live
                  /\ live' = live \cup {d} /\ chname' = [chname EXCEPT ![d] = k]
    <3>1. r.name \in Names \cup {NoName}
      BY DEF Resolve, Found, IInv, TypeOK
    <3>2. Found(r.name) = {}
      BY <2>2, ResolvedFree
    <3>3. b \notin live /\ live' = live \cup {b} /\ chname' = [chname EXCEPT ![b] = r.name]
      BY <2>2 DEF JoinNew
    <3> HIDE DEF r
    <3> QED BY <3>1, <3>2, <3>3
  <2> QED BY <1>1, <2>1, <2>2 DEF privileged_join
<1>2. ASSUME NEW c \in Clients, exit_one_client(c)
      PROVE  live' \subseteq live /\ \A b \in live' : chname'[b] = chname[b]
  BY <1>2, ReleaseNames DEF exit_one_client
<1>3. ASSUME NEW c \in Clients, NEW b \in Blocks, remove_user_from_channel(c, b)
      PROVE  live' \subseteq live /\ \A d \in live' : chname'[d] = chname[d]
  BY <1>3, ReleaseNames DEF remove_user_from_channel
<1>4. ASSUME NEW b \in Blocks, link_remove_users_from_channel(b)
      PROVE  live' \subseteq live /\ \A d \in live' : chname'[d] = chname[d]
  BY <1>4, ReleaseNames DEF link_remove_users_from_channel
<1>5. ASSUME NEW b \in Blocks, link_add_server_to_channel(b)
      PROVE  live' = live /\ chname' = chname
  BY <1>5 DEF link_add_server_to_channel, chanVars
<1>6. ASSUME NEW c \in Clients, Register(c) PROVE live' = live /\ chname' = chname
  BY <1>6 DEF Register, chanVars
<1>7. ASSUME NEW c \in Clients, NEW b \in Blocks, add_invite(c, b)
      PROVE  live' = live /\ chname' = chname
  BY <1>7 DEF add_invite, chanVars
<1>8. ASSUME NEW b \in Blocks, NEW n \in Names, SetLink(b, n)
      PROVE  live' = live /\ chname' = chname
  BY <1>8 DEF SetLink
<1> QED BY <1>1, <1>2, <1>3, <1>4, <1>5, <1>6, <1>7, <1>8 DEF Next

LEMMA NextUnique ==
  ASSUME IInv, FoundNamesUnique, Next
  PROVE  FoundNamesUnique'
<1>1. CASE live' \subseteq live /\ \A b \in live' : chname'[b] = chname[b]
  BY <1>1 DEF FoundNamesUnique
<1>2. ASSUME NEW d \in Blocks, NEW n \in Names \cup {NoName},
             Found(n) = {}, d \notin live,
             live' = live \cup {d}, chname' = [chname EXCEPT ![d] = n]
      PROVE  FoundNamesUnique'
  <2>1. \A b \in live : b # d /\ b \in Blocks /\ chname'[b] = chname[b]
    BY <1>2 DEF IInv, TypeOK
  <2>2. chname'[d] = n
    BY <1>2 DEF IInv, TypeOK
  <2>3. \A b \in live : chname[b] = n => n \in Bucket0
    BY <1>2 DEF Found
  <2> QED BY <1>2, <2>1, <2>2, <2>3 DEF FoundNamesUnique
<1> QED BY <1>1, <1>2, NextNames

\* create_channel never makes a second block for a name that find_channel can
\* look up, neither the name asked for nor the one its +L link leads to.
THEOREM ChannelNamesUnique == Spec => []FoundNamesUnique
<1>1. Init => FoundNamesUnique
  BY DEF Init, FoundNamesUnique
<1>2. IInv /\ FoundNamesUnique /\ UNCHANGED vars => FoundNamesUnique'
  BY DEF vars, chanVars, FoundNamesUnique
<1>3. IInv /\ FoundNamesUnique /\ [Next]_vars => FoundNamesUnique'
  BY <1>2, NextUnique
<1> QED BY <1>1, <1>3, InitIInv, NextIInv, PTL DEF Spec

-----------------------------------------------------------------------------
(* Invitations: a list names a user once, and the user names the channel.   *)

\* del_invite takes exactly one user off a list that names nobody twice.
LEMMA UnlinkOne ==
  ASSUME NEW S, NEW s \in Seq(S), IsInjective(s), NEW c
  PROVE  /\ Unlink(s, c) \in Seq(S)
         /\ IsInjective(Unlink(s, c))
         /\ Range(Unlink(s, c)) = Range(s) \ {c}
<1>1. CASE c \notin Range(s)
  BY <1>1 DEF Unlink
<1>2. CASE c \in Range(s)
  <2> DEFINE i == CHOOSE k \in 1..Len(s) : s[k] = c
             u == SubSeq(s, 1, i - 1) \o SubSeq(s, i + 1, Len(s))
  <2>1. \E k \in 1..Len(s) : s[k] = c
    BY <1>2 DEF Range
  <2>2. i \in 1..Len(s) /\ s[i] = c
    BY <2>1
  <2>3. Unlink(s, c) = u
    BY <1>2 DEF Unlink
  <2>4. Unlink(s, c) \in Seq(S)
    BY UnlinkType
  <2> HIDE DEF i
  <2> DEFINE before == SubSeq(s, 1, i - 1)
             after == SubSeq(s, i + 1, Len(s))
  <2>a. /\ before \in Seq(S) /\ Len(before) = i - 1
        /\ \A k \in 1..(i - 1) : before[k] = s[k]
    <3>1. i - 1 \in Int /\ \A k \in 1..(i - 1) : s[k] \in S
      BY <2>2
    <3> QED BY <2>2, <3>1, SubSeqProperties
  <2>b. /\ after \in Seq(S) /\ Len(after) = Len(s) - i
        /\ \A k \in 1..(Len(s) - i) : after[k] = s[i + k]
    <3>1. i + 1 \in Int /\ Len(s) \in Int /\ \A k \in (i + 1)..Len(s) : s[k] \in S
      BY <2>2
    <3> QED BY <2>2, <3>1, SubSeqProperties
  <2>c. u = before \o after
    OBVIOUS
  <2> HIDE DEF before, after, u
  <2>5. Len(u) = Len(s) - 1 /\ u \in Seq(S)
    BY <2>2, <2>a, <2>b, <2>c
  <2>6. \A k \in 1..(Len(s) - 1) : u[k] = IF k < i THEN s[k] ELSE s[k + 1]
    <3> SUFFICES ASSUME NEW k \in 1..(Len(s) - 1)
                 PROVE  u[k] = IF k < i THEN s[k] ELSE s[k + 1]
      OBVIOUS
    <3>1. CASE k < i
      BY <2>2, <2>a, <2>b, <2>c, <3>1
    <3>2. CASE k >= i
      <4>0. /\ Len(before) = i - 1 /\ Len(after) = Len(s) - i
            /\ k \in 1..(Len(before) + Len(after)) /\ ~(k <= Len(before))
        BY <2>2, <2>a, <2>b, <3>2
      <4>1. u[k] = after[k - (i - 1)]
        <5>1. (before \o after)[k] = after[k - Len(before)]
          BY <2>a, <2>b, <4>0
        <5> QED BY <2>c, <4>0, <5>1
      <4>2. k - (i - 1) \in 1..(Len(s) - i) /\ i + (k - (i - 1)) = k + 1
        BY <2>2, <3>2
      <4> QED BY <2>2, <2>b, <3>2, <4>1, <4>2
    <3> QED BY <2>2, <3>1, <3>2
  <2>7. \A k, l \in 1..Len(s) : s[k] = s[l] => k = l
    BY DEF IsInjective
  <2>8. IsInjective(u)
    <3> DEFINE at(k) == IF k < i THEN k ELSE k + 1
    <3>1. ASSUME NEW k \in 1..(Len(s) - 1)
          PROVE  at(k) \in 1..Len(s) /\ u[k] = s[at(k)]
      BY <2>2, <2>6
    <3>2. \A k, l \in 1..(Len(s) - 1) : at(k) = at(l) => k = l
      BY <2>2
    <3> HIDE DEF at
    <3>3. \A k, l \in 1..(Len(s) - 1) : u[k] = u[l] => k = l
      BY <2>7, <3>1, <3>2, Zenon
    <3>4. DOMAIN u = 1..(Len(s) - 1)
      BY <2>5
    <3> QED BY <3>3, <3>4 DEF IsInjective
  <2>9. ASSUME NEW x \in Range(u) PROVE x \in Range(s) \ {c}
    <3>1. PICK k \in 1..(Len(s) - 1) : x = u[k]
      BY <2>5 DEF Range
    <3> QED BY <2>2, <2>6, <2>7, <3>1 DEF Range
  <2>10. ASSUME NEW x \in Range(s) \ {c} PROVE x \in Range(u)
    <3>1. PICK k \in 1..Len(s) : x = s[k]
      BY DEF Range
    <3>2. k # i
      BY <2>2, <3>1
    <3>3. CASE k < i
      BY <2>2, <2>5, <2>6, <3>1, <3>3 DEF Range
    <3>4. CASE k > i
      <4>1. k - 1 \in 1..(Len(s) - 1) /\ u[k - 1] = s[k]
        BY <2>2, <2>6, <3>4
      <4> QED BY <2>5, <3>1, <4>1 DEF Range
    <3> QED BY <2>2, <3>2, <3>3, <3>4
  <2> QED BY <2>3, <2>4, <2>8, <2>9, <2>10
<1> QED BY <1>1, <1>2

\* Lists of invitations among the users of P that agree with one another.
BackLinked(i, P) ==
  /\ InvitationsOK(i)
  /\ \A b \in Blocks : IsInjective(i.invites[b])
  /\ \A b \in Blocks : \A c \in Range(i.invites[b]) : c \in P /\ b \in i.invited[c]

LEMMA DelInviteLinked ==
  ASSUME NEW P, NEW i, BackLinked(i, P), NEW c \in Clients, NEW b \in Blocks
  PROVE  /\ BackLinked(DelInvite(i, c, b), P)
         /\ c \notin Range(DelInvite(i, c, b).invites[b])
<1> DEFINE j == DelInvite(i, c, b)
<1>1. InvitationsOK(j)
  BY DelInviteType DEF BackLinked
<1>2. \A d \in Blocks : j.invites[d] = IF d = b THEN Unlink(i.invites[d], c) ELSE i.invites[d]
  BY DEF DelInvite, BackLinked, InvitationsOK
<1>3. \A e \in Clients : j.invited[e] = IF e = c THEN i.invited[e] \ {b} ELSE i.invited[e]
  BY DEF DelInvite, BackLinked, InvitationsOK
<1> HIDE DEF j
<1>4. IsInjective(Unlink(i.invites[b], c)) /\ Range(Unlink(i.invites[b], c)) = Range(i.invites[b]) \ {c}
  <2>1. i.invites[b] \in Seq(Clients) /\ IsInjective(i.invites[b])
    BY DEF BackLinked, InvitationsOK
  <2> QED BY <2>1, UnlinkOne
<1>5. ASSUME NEW d \in Blocks, NEW e \in Range(j.invites[d])
      PROVE  e \in P /\ d \in j.invited[e]
  <2>1. e \in Range(i.invites[d]) /\ (d = b => e # c)
    BY <1>2, <1>4, <1>5
  <2>2. e \in Clients
    BY <2>1 DEF BackLinked, InvitationsOK, Range
  <2> QED BY <1>3, <2>1, <2>2 DEF BackLinked
<1> QED BY <1>1, <1>2, <1>4, <1>5 DEF BackLinked, j

LEMMA ConsInjective ==
  ASSUME NEW S, NEW s \in Seq(S), IsInjective(s), NEW c \in S, c \notin Range(s)
  PROVE  /\ IsInjective(<<c>> \o s)
         /\ Range(<<c>> \o s) = Range(s) \cup {c}
<1> DEFINE u == <<c>> \o s
<1>1. u \in Seq(S) /\ Len(u) = Len(s) + 1
  OBVIOUS
<1>2. u[1] = c /\ \A k \in 1..Len(s) : u[k + 1] = s[k]
  OBVIOUS
<1> HIDE DEF u
<1>3. \A k \in 2..Len(u) : k - 1 \in 1..Len(s) /\ u[k] = s[k - 1]
  BY <1>1, <1>2
<1>4. \A k \in 1..Len(s) : s[k] # c
  BY DEF Range
<1>5. ASSUME NEW k \in 1..Len(u), NEW l \in 1..Len(u), u[k] = u[l] PROVE k = l
  <2>1. CASE k = 1 \/ l = 1
    BY <1>1, <1>2, <1>3, <1>4, <1>5, <2>1
  <2>2. CASE k # 1 /\ l # 1
    <3>1. k \in 2..Len(u) /\ l \in 2..Len(u) /\ Len(s) \in Nat
      BY <1>1, <2>2
    <3>2. k - 1 \in 1..Len(s) /\ l - 1 \in 1..Len(s) /\ s[k - 1] = s[l - 1]
      BY <1>3, <1>5, <3>1
    <3>3. \A a, b \in 1..Len(s) : s[a] = s[b] => a = b
      BY DEF IsInjective
    <3>4. k - 1 = l - 1
      BY <3>2, <3>3, Zenon
    <3> QED BY <3>1, <3>4
  <2> QED BY <2>1, <2>2
<1>6. Range(u) \subseteq Range(s) \cup {c}
  BY <1>1, <1>2, <1>3 DEF Range
<1>7. Range(s) \cup {c} \subseteq Range(u)
  <2>1. c \in Range(u)
    BY <1>1, <1>2 DEF Range
  <2>2. ASSUME NEW x \in Range(s) PROVE x \in Range(u)
    <3>1. PICK k \in 1..Len(s) : x = s[k]
      BY DEF Range
    <3>2. k + 1 \in 1..Len(u) /\ u[k + 1] = x
      BY <1>1, <1>2, <3>1
    <3> QED BY <1>1, <3>2 DEF Range
  <2> QED BY <2>1, <2>2
<1> QED BY <1>1, <1>5, <1>6, <1>7 DEF IsInjective, u

LEMMA AddInviteLinked ==
  ASSUME NEW P, NEW i, BackLinked(i, P), NEW c \in Clients, c \in P, NEW b \in Blocks
  PROVE  BackLinked(AddInvite(i, c, b), P)
<1> DEFINE j == DelInvite(i, c, b)
           a == AddInvite(i, c, b)
<1>1. BackLinked(j, P) /\ c \notin Range(j.invites[b])
  BY DelInviteLinked
<1>2. InvitationsOK(a)
  BY AddInviteType DEF BackLinked
<1>3. a = [invites |-> [j.invites EXCEPT ![b] = <<c>> \o @],
           invited |-> [j.invited EXCEPT ![c] = @ \cup {b}]]
  BY DEF AddInvite
<1> HIDE DEF j, a
<1>4. \A d \in Blocks : a.invites[d] = IF d = b THEN <<c>> \o j.invites[d] ELSE j.invites[d]
  BY <1>1, <1>3 DEF BackLinked, InvitationsOK
<1>5. \A e \in Clients : a.invited[e] = IF e = c THEN j.invited[e] \cup {b} ELSE j.invited[e]
  BY <1>1, <1>3 DEF BackLinked, InvitationsOK
<1>6. /\ IsInjective(<<c>> \o j.invites[b])
      /\ Range(<<c>> \o j.invites[b]) = Range(j.invites[b]) \cup {c}
  <2>1. j.invites[b] \in Seq(Clients) /\ IsInjective(j.invites[b])
    BY <1>1 DEF BackLinked, InvitationsOK
  <2> QED BY <1>1, <2>1, ConsInjective
<1>7. ASSUME NEW d \in Blocks, NEW e \in Range(a.invites[d])
      PROVE  e \in P /\ d \in a.invited[e]
  <2>1. e \in Range(j.invites[d]) \/ (d = b /\ e = c)
    BY <1>4, <1>6, <1>7
  <2>2. CASE d = b /\ e = c
    BY <1>5, <2>2
  <2>3. CASE e \in Range(j.invites[d])
    <3>1. e \in Clients
      BY <1>1, <2>3 DEF BackLinked, InvitationsOK, Range
    <3> QED BY <1>1, <1>5, <2>3, <3>1 DEF BackLinked
  <2> QED BY <2>1, <2>2, <2>3
<1>8. \A d \in Blocks : IsInjective(a.invites[d])
  BY <1>1, <1>4, <1>6 DEF BackLinked
<1> QED BY <1>2, <1>7, <1>8 DEF BackLinked, a

LEMMA DropInvitesLinked ==
  ASSUME NEW P, NEW i, BackLinked(i, P), NEW b \in Blocks
  PROVE  BackLinked(DropInvites(i, b), P)
<1>1. CASE Len(i.invites[b]) < 2
  BY <1>1 DEF DropInvites
<1>2. CASE ~(Len(i.invites[b]) < 2)
  <2>1. i.invites[b][2] \in Clients
    BY <1>2 DEF BackLinked, InvitationsOK
  <2> QED BY <1>2, <2>1, DelInviteLinked DEF DropInvites
<1> QED BY <1>1, <1>2

LEMMA ForgetInvitesLinked ==
  ASSUME IInv, NEW P, BackLinked(Invitations, P), NEW gone \in SUBSET Blocks
  PROVE  BackLinked(ForgetInvites(gone), P)
<1> DEFINE f == ForgetInvites(gone)
           drop(b) == b \in gone /\ Len(invites[b]) >= 2
<1>1. InvitationsOK(f)
  BY ForgetInvitesType
<1>2. \A b \in Blocks : invites[b] \in Seq(Clients) /\ IsInjective(invites[b])
  BY DEF BackLinked, Invitations, InvitationsOK
<1>3. ASSUME NEW b \in Blocks
      PROVE  f.invites[b] = IF drop(b) THEN Unlink(invites[b], invites[b][2]) ELSE invites[b]
  <2>1. f.invites[b] = IF b \in gone THEN DropInvites(Invitations, b).invites[b] ELSE invites[b]
    BY DEF ForgetInvites
  <2>2. CASE drop(b)
    <3>1. ~(Len(Invitations.invites[b]) < 2)
      BY <1>2, <2>2 DEF Invitations
    <3>2. DropInvites(Invitations, b) = DelInvite(Invitations, invites[b][2], b)
      BY <3>1 DEF DropInvites, Invitations
    <3>3. DelInvite(Invitations, invites[b][2], b).invites[b] = Unlink(invites[b], invites[b][2])
      BY DEF DelInvite, Invitations, IInv, TypeOK
    <3> QED BY <2>1, <2>2, <3>2, <3>3
  <2>3. CASE b \in gone /\ ~drop(b)
    <3>1. Len(Invitations.invites[b]) < 2
      BY <1>2, <2>3 DEF Invitations
    <3> QED BY <2>1, <2>3, <3>1 DEF DropInvites, Invitations
  <2>4. CASE b \notin gone
    BY <2>1, <2>4
  <2> QED BY <2>2, <2>3, <2>4
<1>4. \A e \in Clients : f.invited[e] = invited[e] \ {b \in gone : Len(invites[b]) >= 2
                                                                 /\ invites[b][2] = e}
  BY DEF ForgetInvites
<1> HIDE DEF f
<1>5. ASSUME NEW b \in Blocks
      PROVE  /\ IsInjective(f.invites[b]) /\ Range(f.invites[b]) \subseteq Range(invites[b])
             /\ drop(b) => invites[b][2] \notin Range(f.invites[b])
  BY <1>2, <1>3, UnlinkOne
<1>6. ASSUME NEW b \in Blocks, NEW e \in Range(f.invites[b])
      PROVE  e \in P /\ b \in f.invited[e]
  <2>1. e \in Range(invites[b]) /\ (drop(b) => invites[b][2] # e)
    BY <1>5, <1>6
  <2>2. e \in Clients /\ e \in P /\ b \in invited[e]
    BY <1>2, <2>1 DEF BackLinked, Invitations, Range
  <2> QED BY <1>4, <2>1, <2>2
<1> QED BY <1>1, <1>5, <1>6 DEF BackLinked, f

\* exit_one_client takes the user off every list that names it.
LEMMA UninviteLinked ==
  ASSUME NEW P, NEW i, BackLinked(i, P), NEW c \in Clients
  PROVE  BackLinked(Uninvite(i, c), P \ {c})
<1> DEFINE u == Uninvite(i, c)
<1>1. InvitationsOK(u)
  BY UninviteType DEF BackLinked
<1>2. \A b \in Blocks : u.invites[b] = IF b \in i.invited[c] THEN Unlink(i.invites[b], c)
                                      ELSE i.invites[b]
  BY DEF Uninvite
<1>3. \A e \in Clients \ {c} : u.invited[e] = i.invited[e]
  BY DEF Uninvite, BackLinked, InvitationsOK
<1> HIDE DEF u
<1>4. ASSUME NEW b \in Blocks
      PROVE  IsInjective(u.invites[b]) /\ Range(u.invites[b]) = Range(i.invites[b]) \ {c}
  <2>1. i.invites[b] \in Seq(Clients) /\ IsInjective(i.invites[b])
    BY DEF BackLinked, InvitationsOK
  <2>2. b \notin i.invited[c] => c \notin Range(i.invites[b])
    BY DEF BackLinked
  <2> QED BY <1>2, <2>1, <2>2, UnlinkOne
<1>5. ASSUME NEW b \in Blocks, NEW e \in Range(u.invites[b])
      PROVE  e \in P \ {c} /\ b \in u.invited[e]
  <2>1. e \in Range(i.invites[b]) /\ e # c
    BY <1>4, <1>5
  <2>2. e \in Clients
    BY <2>1 DEF BackLinked, InvitationsOK, Range
  <2> QED BY <1>3, <2>1, <2>2 DEF BackLinked
<1> QED BY <1>1, <1>4, <1>5 DEF BackLinked, u

LEMMA BackLinkedIs ==
  IInv => (InviteBackLinks <=> BackLinked(Invitations, person))
BY IInvMembership DEF InviteBackLinks, BackLinked, Invitations

\* One step per operation that writes an invitation list or registers or frees
\* a user; the others leave all three alone.
LEMMA NextBackLinks ==
  ASSUME IInv, InviteBackLinks, Next
  PROVE  InviteBackLinks'
<1>0. BackLinked(Invitations, person) /\ InvitationsOK(Invitations)
  BY BackLinkedIs, IInvMembership
<1>a. ASSUME NEW i, BackLinked(i, person'), SetInvitations(i)
      PROVE  InviteBackLinks'
  BY <1>a DEF BackLinked, SetInvitations, InviteBackLinks
<1>1. ASSUME NEW c \in Clients, Register(c) PROVE InviteBackLinks'
  <2>1. \A b \in Blocks : c \notin Range(invites[b])
    BY <1>1 DEF Register, InviteBackLinks
  <2>2. invites' = invites /\ person' = person \cup {c}
    BY <1>1 DEF Register
  <2>3. \A e \in Clients \ {c} : invited'[e] = invited[e]
    BY <1>1 DEF Register, IInv, TypeOK
  <2>4. \A b \in Blocks : Range(invites[b]) \subseteq Clients \ {c}
    BY <2>1 DEF Range, IInv, TypeOK
  <2> QED BY <2>2, <2>3, <2>4 DEF InviteBackLinks
<1>2. ASSUME NEW c \in Clients, exit_one_client(c) PROVE InviteBackLinks'
  <2> DEFINE gone == Emptied(LeaveAll(c), channel[c])
             i == Uninvite(ForgetInvites(gone), c)
  <2>1. gone \in SUBSET Blocks
    BY DEF Emptied, IInv, TypeOK
  <2>2. SetInvitations(i) /\ person' = person \ {c}
    BY <1>2 DEF exit_one_client
  <2> HIDE DEF gone
  <2>3. BackLinked(i, person \ {c})
    BY <1>0, <2>1, ForgetInvitesLinked, UninviteLinked
  <2> HIDE DEF i
  <2> QED BY <1>a, <2>2, <2>3
<1>3. ASSUME NEW c \in Clients, NEW n \in Names, privileged_join(c, n)
      PROVE  InviteBackLinks'
  <2>1. ASSUME NEW b \in Resolve(n).blocks, JoinExisting(c, b) PROVE InviteBackLinks'
    <3>1. b \in Blocks
      BY DEF Resolve, Found, IInv, TypeOK
    <3> DEFINE i == IF c \in Local THEN DelInvite(Invitations, c, b) ELSE Invitations
    <3>2. BackLinked(i, person)
      BY <1>0, <3>1, DelInviteLinked
    <3>3. SetInvitations(i) /\ person' = person
      BY <2>1 DEF JoinExisting
    <3> HIDE DEF i
    <3> QED BY <1>a, <3>2, <3>3
  <2>2. ASSUME NEW b \in Blocks, NEW k, NEW r \in BOOLEAN, JoinNew(c, b, k, r)
        PROVE  InviteBackLinks'
    <3> DEFINE i0 == [invites |-> [invites EXCEPT ![b] = <<>>], invited |-> invited]
               i == IF r \/ AlreadyOn(c, b) THEN i0
                    ELSE IF c \in Local THEN DelInvite(i0, c, b) ELSE i0
    <3>1. InvitationsOK(i0)
      BY DEF IInv, TypeOK, InvitationsOK
    <3>2. i0.invited = invited /\ \A d \in Blocks :
            i0.invites[d] = IF d = b THEN <<>> ELSE invites[d]
      BY DEF IInv, TypeOK
    <3>3. IsInjective(<<>>) /\ Range(<<>>) = {}
      BY DEF IsInjective, Range
    <3> HIDE DEF i0
    <3>4. BackLinked(i0, person)
      BY <3>1, <3>2, <3>3 DEF BackLinked, InviteBackLinks
    <3>5. BackLinked(i, person)
      BY <3>4, DelInviteLinked
    <3>6. SetInvitations(i) /\ person' = person
      BY <2>2 DEF JoinNew, i0
    <3> HIDE DEF i
    <3> QED BY <1>a, <3>5, <3>6
  <2> QED BY <1>3, <2>1, <2>2 DEF privileged_join
<1>4. ASSUME NEW c \in Clients, NEW b \in Blocks, remove_user_from_channel(c, b)
      PROVE  InviteBackLinks'
  <2> DEFINE i == IF Emptied(DropMember(Membership, c, b), {b}) # {}
                  THEN DropInvites(Invitations, b) ELSE Invitations
  <2>1. BackLinked(i, person)
    BY <1>0, DropInvitesLinked
  <2>2. SetInvitations(i) /\ person' = person
    BY <1>4 DEF remove_user_from_channel
  <2> HIDE DEF i
  <2> QED BY <1>a, <2>1, <2>2
<1>5. ASSUME NEW b \in Blocks, link_remove_users_from_channel(b)
      PROVE  InviteBackLinks'
  <2> DEFINE i == IF Emptied(SweepOut(members[b] \cap Local, b), {b}) # {}
                  THEN DropInvites(Invitations, b) ELSE Invitations
  <2>1. BackLinked(i, person)
    BY <1>0, DropInvitesLinked
  <2>2. SetInvitations(i) /\ person' = person
    BY <1>5 DEF link_remove_users_from_channel
  <2> HIDE DEF i
  <2> QED BY <1>a, <2>1, <2>2
<1>6. ASSUME NEW c \in Clients, NEW b \in Blocks, add_invite(c, b)
      PROVE  InviteBackLinks'
  <2>1. BackLinked(AddInvite(Invitations, c, b), person)
    BY <1>0, <1>6, AddInviteLinked DEF add_invite
  <2>2. SetInvitations(AddInvite(Invitations, c, b)) /\ person' = person
    BY <1>6 DEF add_invite
  <2> QED BY <1>a, <2>1, <2>2
<1>7. ASSUME NEW b \in Blocks, link_add_server_to_channel(b) PROVE InviteBackLinks'
  BY <1>7 DEF link_add_server_to_channel, inviteVars, InviteBackLinks
<1>8. ASSUME NEW b \in Blocks, NEW n \in Names, SetLink(b, n) PROVE InviteBackLinks'
  BY <1>8 DEF SetLink, inviteVars, InviteBackLinks
<1> QED BY <1>1, <1>2, <1>3, <1>4, <1>5, <1>6, <1>7, <1>8 DEF Next

\* The node of an invitation never outlives the user it names, even on a list
\* that sub1_from_channel left behind in a freed block, and no list names a
\* user twice, so that del_invite's one removal is enough.
THEOREM InvitationsBackLinked == Spec => []InviteBackLinks
<1>1. Init => InviteBackLinks
  BY DEF Init, InviteBackLinks, IsInjective, Range
<1>2. InviteBackLinks /\ UNCHANGED vars => InviteBackLinks'
  BY DEF vars, inviteVars, InviteBackLinks
<1>3. IInv /\ InviteBackLinks /\ [Next]_vars => InviteBackLinks'
  BY <1>2, NextBackLinks
<1> QED BY <1>1, <1>3, InitIInv, NextIInv, PTL DEF Spec

-----------------------------------------------------------------------------
(* The replies to LIST (ListReply).                                        *)

(* The channels before a position of the walk.                             *)
Before(pos) ==
  {c \in Channels : \E h \in 1 .. Len(Table) : \E i \in 1 .. Len(Table[h]) :
     c = Table[h][i] /\ (h < pos[1] \/ (h = pos[1] /\ i < pos[2]))}

Positions == (Nat \ {0}) \X (Nat \ {0})

(* A call of send_list at pos has dealt with all channels before it.       *)
Walked(l, pos) == pos \in Positions /\ Before(pos) \subseteq l

(* What was listed covers what starthash and every call under way leave    *)
(* out, and everything once the end of the list has been sent.             *)
WalkSound(s, h, l, a) ==
  /\ s \in Seq(Positions) /\ h \in Nat /\ l \subseteq Channels
  /\ Walked(l, <<h + 1, 1>>)
  /\ \A k \in 1 .. Len(s) : Walked(l, s[k])
  /\ a = "ended" => l = Channels

IsReply(w) ==
  w \in [queued : {w.queued}, room : {w.room}, starthash : {w.starthash},
         listed : {w.listed}, answer : {w.answer}, write : {w.write}, dead : {w.dead},
         stack : {w.stack}]

ListSound(w) == IsReply(w) /\ WalkSound(w.stack, w.starthash, w.listed, w.answer)

(* A world with the same walk is as sound.                                 *)
LEMMA SameWalk ==
  ASSUME NEW w, NEW v, IsReply(v), ListSound(w), v.stack = w.stack,
         v.starthash = w.starthash, v.listed = w.listed, v.answer = w.answer
  PROVE  ListSound(v)
BY DEF ListSound

(* A call of send_list begins behind what was listed.                      *)
LEMMA SendListSound ==
  ASSUME NEW w, ListSound(w)
  PROVE  ListSound(send_list(w))
<1> DEFINE pos == <<w.starthash + 1, 1>>
           t == Append(w.stack, pos)
           v == send_list(w)
<1>1. pos \in Positions /\ Walked(w.listed, pos) /\ w.stack \in Seq(Positions)
  BY DEF ListSound, WalkSound, Walked
<1> HIDE DEF pos
<1>2. /\ IsReply(v) /\ v.stack = t /\ v.starthash = w.starthash /\ v.listed = w.listed
      /\ v.answer = w.answer
  BY DEF send_list, pos, ListSound, IsReply
<1>3. t \in Seq(Positions) /\ \A k \in 1 .. Len(t) : Walked(w.listed, t[k])
  BY <1>1 DEF ListSound, WalkSound
<1> HIDE DEF v, t
<1>4. ListSound(v)
  BY <1>2, <1>3 DEF ListSound, WalkSound
<1> QED BY <1>4 DEF v

(* The queue has no part in the walk.                                      *)
LEMMA ListQueuedSound ==
  ASSUME NEW w, ListSound(w)
  PROVE  ListSound(send_queued(w))
<1>1. ListSound(Flushed(w))
  <2> DEFINE f == Flushed(w)
  <2>1. /\ IsReply(f) /\ f.stack = w.stack /\ f.starthash = w.starthash
        /\ f.listed = w.listed /\ f.answer = w.answer
    BY DEF ListSound, Flushed, IsReply
  <2> HIDE DEF f
  <2>2. ListSound(f)
    BY <2>1, SameWalk
  <2> QED BY <2>2 DEF f
<1> QED BY <1>1, SendListSound DEF send_queued

(* send_message queues one reply, or finds the queue full.                 *)
LEMMA ListMessageSound ==
  ASSUME NEW w, ListSound(w)
  PROVE  ListSound(send_message(w))
<1> DEFINE d == [w EXCEPT !.dead = TRUE, !.queued = 0]
           q == [w EXCEPT !.queued = @ + 1]
<1>1. /\ IsReply(d) /\ d.stack = w.stack /\ d.starthash = w.starthash
      /\ d.listed = w.listed /\ d.answer = w.answer
  BY DEF ListSound, IsReply
<1>2. /\ IsReply(q) /\ q.stack = w.stack /\ q.starthash = w.starthash
      /\ q.listed = w.listed /\ q.answer = w.answer
  BY DEF ListSound, IsReply
<1>3. send_message(w) \in {w, d, send_queued(q)}
  BY DEF send_message
<1> HIDE DEF d, q
<1>4. ListSound(d) /\ ListSound(q)
  BY <1>1, <1>2, SameWalk
<1> QED BY <1>3, <1>4, ListQueuedSound

(* A call goes on at a position behind what was listed, or returns.        *)
LEMMA GoOnSound ==
  ASSUME NEW w, ListSound(w), w.stack # << >>
  PROVE  /\ ListSound(Return(w)) /\ Return(w).listed = w.listed
         /\ \A pos : Walked(w.listed, pos)
              => ListSound(GoOn(w, pos)) /\ GoOn(w, pos).listed = w.listed
                   /\ GoOn(w, pos).starthash = w.starthash
<1> DEFINE s == SubSeq(w.stack, 1, Len(w.stack) - 1)
           r == Return(w)
<1>1. w.stack \in Seq(Positions) /\ Len(w.stack) \in Nat \ {0}
  BY DEF ListSound, WalkSound
<1>2. s \in Seq(Positions) /\ Len(s) = Len(w.stack) - 1
  BY <1>1
<1>3. \A k \in 1 .. Len(s) : k \in 1 .. Len(w.stack) /\ s[k] = w.stack[k]
  BY <1>1, <1>2
<1>4. \A k \in 1 .. Len(s) : Walked(w.listed, s[k])
  BY <1>3 DEF ListSound, WalkSound
<1> HIDE DEF s
<1>5. /\ IsReply(r) /\ r.stack = s /\ r.starthash = w.starthash /\ r.listed = w.listed
      /\ r.answer = w.answer
  BY DEF ListSound, IsReply, Return, Front, s
<1> HIDE DEF r
<1>6. ListSound(r) /\ r.listed = w.listed
  BY <1>2, <1>4, <1>5 DEF ListSound, WalkSound
<1>7. ASSUME NEW pos, Walked(w.listed, pos)
      PROVE  ListSound(GoOn(w, pos)) /\ GoOn(w, pos).listed = w.listed
               /\ GoOn(w, pos).starthash = w.starthash
  <2> DEFINE g == GoOn(w, pos)
             t == Append(s, pos)
  <2>1. /\ IsReply(g) /\ g.stack = t /\ g.starthash = w.starthash /\ g.listed = w.listed
        /\ g.answer = w.answer
    BY DEF ListSound, IsReply, GoOn, Front, s
  <2>2. t \in Seq(Positions) /\ \A k \in 1 .. Len(t) : Walked(w.listed, t[k])
    BY <1>2, <1>4, <1>7 DEF Walked
  <2> HIDE DEF g, t
  <2>3. ListSound(g) /\ g.listed = w.listed /\ g.starthash = w.starthash
    BY <2>1, <2>2 DEF ListSound, WalkSound
  <2> QED BY <2>3 DEF g
<1> QED BY <1>6, <1>7 DEF r

(* The channels, one by one.                                               *)
LEMMA ChannelsAre ==
  /\ \A h \in 1 .. Len(Table) : \A i \in 1 .. Len(Table[h]) : Table[h][i] \in Channels
  /\ \A c \in Channels :
       \E h \in 1 .. Len(Table) : \E i \in 1 .. Len(Table[h]) : c = Table[h][i]
<1>1. ASSUME NEW h \in 1 .. Len(Table), NEW i \in 1 .. Len(Table[h])
      PROVE  Table[h][i] \in Channels
  <2>1. Table[h][i] \in {Table[h][j] : j \in 1 .. Len(Table[h])}
    OBVIOUS
  <2> QED BY <2>1, Zenon DEF Channels
<1>2. ASSUME NEW c \in Channels
      PROVE  \E h \in 1 .. Len(Table) : \E i \in 1 .. Len(Table[h]) : c = Table[h][i]
  <2>1. PICK h \in 1 .. Len(Table) : c \in {Table[h][i] : i \in 1 .. Len(Table[h])}
    BY Zenon DEF Channels
  <2> QED BY <2>1
<1> QED BY <1>1, <1>2, Zenon

(* The channel at a position is before the next one, and the channels of a *)
(* bucket that was walked to its end are before the next bucket.           *)
LEMMA NextIsBehind ==
  ASSUME NEW h \in 1 .. Len(Table), NEW i \in Nat \ {0}
  PROVE  /\ i <= Len(Table[h]) =>
              /\ Table[h][i] \in Channels /\ NextPos(h, i) \in Positions
              /\ Before(NextPos(h, i)) \subseteq Before(<<h, i>>) \cup {Table[h][i]}
         /\ i > Len(Table[h]) => Before(<<h + 1, 1>>) \subseteq Before(<<h, i>>)
<1>1. Len(Table) \in Nat /\ \A g \in 1 .. Len(Table) : Len(Table[g]) \in Nat
  BY TableIsSeq
<1>2. CASE i <= Len(Table[h])
  <2>1. Table[h][i] \in Channels
    <3>1. i \in 1 .. Len(Table[h])
      BY <1>1, <1>2
    <3> QED BY <3>1, ChannelsAre
  <2>2. NextPos(h, i) \in Positions
    BY <1>1 DEF NextPos, Positions
  <2>3. ASSUME NEW g \in 1 .. Len(Table), NEW j \in 1 .. Len(Table[g]),
               g < NextPos(h, i)[1] \/ (g = NextPos(h, i)[1] /\ j < NextPos(h, i)[2])
        PROVE  g < h \/ (g = h /\ j < i) \/ (g = h /\ j = i)
    BY <1>1, <1>2, <2>3 DEF NextPos
  <2> QED BY <1>2, <2>1, <2>2, <2>3 DEF Before
<1>3. CASE i > Len(Table[h])
  <2>1. ASSUME NEW g \in 1 .. Len(Table), NEW j \in 1 .. Len(Table[g]),
               g < h + 1 \/ (g = h + 1 /\ j < 1)
        PROVE  g < h \/ (g = h /\ j < i)
    BY <1>1, <1>3, <2>1
  <2> QED BY <1>1, <1>3, <2>1 DEF Before
<1> QED BY <1>1, <1>2, <1>3

(* Nothing is behind the last bucket.                                      *)
LEMMA EndIsAll ==
  ASSUME NEW pos \in Positions, pos[1] > Len(Table)
  PROVE  Before(pos) = Channels
<1>1. Len(Table) \in Nat /\ \A g \in 1 .. Len(Table) : g < pos[1]
  BY TableIsSeq DEF Positions
<1> QED BY <1>1, ChannelsAre DEF Before

(* A position in a bucket that was begun leaves the bucket to be begun.    *)
LEMMA BucketBegins ==
  ASSUME NEW h \in Nat, NEW i \in Nat \ {0}
  PROVE  Before(<<h, 1>>) \subseteq Before(<<h, i>>)
BY DEF Before

(* A channel is listed from a position that the walk has reached.          *)
LEMMA ListChannelSound ==
  ASSUME NEW w, ListSound(w), w.stack # << >>, NEW h \in 1 .. Len(Table),
         NEW i \in 1 .. Len(Table[h]), Walked(w.listed, <<h, i>>)
  PROVE  ListSound(ListChannel(w, <<h, i>>))
<1> DEFINE v == [w EXCEPT !.starthash = h - 1]
           p == NextPos(h, i)
           g == GoOn(v, p)
           x == [GoOn(v, p) EXCEPT !.listed = @ \cup {Table[h][i]}]
<1>0. h \in Nat \ {0} /\ i \in Nat \ {0} /\ i <= Len(Table[h]) /\ (h - 1) + 1 = h
  BY TableIsSeq
<1>1. /\ IsReply(v) /\ v.stack = w.stack /\ v.starthash = h - 1 /\ v.listed = w.listed
      /\ v.answer = w.answer
  BY DEF ListSound, IsReply
<1>2. Walked(w.listed, <<(h - 1) + 1, 1>>)
  <2>1. <<h, 1>> \in Positions /\ Before(<<h, 1>>) \subseteq w.listed
    BY <1>0, BucketBegins DEF Walked, Positions
  <2> QED BY <1>0, <2>1 DEF Walked
<1> HIDE DEF v
<1>3. ListSound(v)
  <2>1. WalkSound(w.stack, w.starthash, w.listed, w.answer)
    BY DEF ListSound
  <2>2. WalkSound(w.stack, h - 1, w.listed, w.answer)
    BY <1>0, <1>2, <2>1 DEF WalkSound
  <2> QED BY <1>1, <2>2 DEF ListSound
<1>4. /\ Table[h][i] \in Channels /\ p \in Positions
      /\ Before(p) \subseteq Before(<<h, i>>) \cup {Table[h][i]}
  BY <1>0, NextIsBehind
<1> HIDE DEF p
<1>5. ListSound(Return(v))
  BY <1>1, <1>3, GoOnSound
<1>6. ListSound(x)
  <2> DEFINE s == SubSeq(w.stack, 1, Len(w.stack) - 1)
             l == w.listed \cup {Table[h][i]}
             t == Append(s, p)
  <2>1. /\ IsReply(x) /\ x.stack = t /\ x.starthash = h - 1 /\ x.listed = l
        /\ x.answer = w.answer
    BY <1>1 DEF IsReply, GoOn, Front
  <2>b. w.stack \in Seq(Positions)
    BY DEF ListSound, WalkSound
  <2>2. w.stack \in Seq(Positions) /\ Len(w.stack) \in Nat \ {0}
    BY <2>b
  <2>c. \A k \in 1 .. Len(w.stack) : Walked(w.listed, w.stack[k])
    BY DEF ListSound, WalkSound
  <2>a. s \in Seq(Positions) /\ Len(s) = Len(w.stack) - 1
    BY <2>2
  <2>3. \A k \in 1 .. Len(s) : s[k] = w.stack[k] /\ k \in 1 .. Len(w.stack)
    BY <2>2, <2>a
  <2> HIDE DEF s
  <2>4. \A q : Walked(w.listed, q) => Walked(l, q)
    BY DEF Walked
  <2>5. Walked(l, p) /\ Walked(l, <<(h - 1) + 1, 1>>)
    <3>1. Walked(l, p)
      BY <1>4 DEF Walked
    <3> QED BY <3>1, <1>2, <2>4
  <2>6. l \subseteq Channels /\ (w.answer = "ended" => l = Channels)
    <3>1. w.answer = "ended" => w.listed = Channels
      BY DEF ListSound, WalkSound
    <3>2. w.listed \subseteq Channels
      BY DEF ListSound, WalkSound
    <3> HIDE <2>2
    <3> QED BY <1>4, <3>1, <3>2
  <2>7. \A k \in 1 .. Len(s) : Walked(l, s[k])
    BY <2>c, <2>3, <2>4
  <2> HIDE DEF l
  <2>8. t \in Seq(Positions) /\ \A k \in 1 .. Len(t) : Walked(l, t[k])
    BY <1>4, <2>a, <2>5, <2>7
  <2> HIDE DEF t, x
  <2>9. h - 1 \in Nat
    BY <1>0
  <2> QED BY <2>1, <2>5, <2>6, <2>8, <2>9 DEF ListSound, WalkSound
<1>7. ListSound(send_message(x))
  <2> HIDE DEF x
  <2> QED BY <1>6, ListMessageSound
<1>8. ListChannel(w, <<h, i>>) \in {Return(v), send_message(x)}
  BY DEF ListChannel, v, p
<1> HIDE DEF x
<1> QED BY <1>5, <1>7, <1>8

(* One round of the innermost walk.                                        *)
LEMMA RoundSound ==
  ASSUME NEW w, ListSound(w), w.stack # << >>
  PROVE  ListSound(Round(w))
<1> DEFINE pos == Last(w.stack)
           end == Len(Table) + 1
           h == pos[1]
           i == pos[2]
<1>0. Len(Table) \in Nat /\ end \in Nat
  BY TableIsSeq
<1>1. Walked(w.listed, pos) /\ pos \in Positions
  <2>1. w.stack \in Seq(Positions) /\ Len(w.stack) \in 1 .. Len(w.stack)
    BY DEF ListSound, WalkSound
  <2> QED BY <2>1 DEF ListSound, WalkSound, Walked, Last
<1>2. pos = <<h, i>> /\ h \in Nat \ {0} /\ i \in Nat \ {0}
  BY <1>1 DEF Positions
<1>r. Round(w) =
        CASE h > end -> [Return(w) EXCEPT !.starthash = 0, !.answer = "ended"]
          [] h = end -> send_message(GoOn(w, <<end + 1, 1>>))
          [] h < end /\ i > Len(Table[h]) -> GoOn(w, <<h + 1, 1>>)
          [] OTHER -> ListChannel(w, pos)
  BY DEF Round
<1> HIDE DEF pos
<1>3. CASE h > end
  <2> DEFINE r == Return(w)
             e == [r EXCEPT !.starthash = 0, !.answer = "ended"]
  <2>1. ListSound(r) /\ r.listed = w.listed
    BY GoOnSound
  <2>2. w.listed = Channels
    <3>0. pos[1] > Len(Table)
      BY <1>0, <1>2, <1>3
    <3>1. Before(pos) = Channels
      BY <1>1, <3>0, EndIsAll
    <3> QED BY <1>1, <3>1 DEF Walked, ListSound, WalkSound
  <2> HIDE DEF r
  <2>3. /\ IsReply(e) /\ e.stack = r.stack /\ e.starthash = 0 /\ e.listed = r.listed
        /\ e.answer = "ended"
    BY <2>1 DEF ListSound, IsReply
  <2>a. h # end /\ ~(h < end)
    BY <1>0, <1>2, <1>3
  <2>4. Round(w) = e
    BY <1>r, <1>3, <2>a DEF r
  <2> HIDE DEF e
  <2>5. Walked(e.listed, <<0 + 1, 1>>)
    BY <2>1, <2>2, <2>3 DEF Walked, Positions, Before
  <2>6. ListSound(e)
    BY <2>1, <2>2, <2>3, <2>5 DEF ListSound, WalkSound
  <2> QED BY <2>4, <2>6
<1>4. CASE h = end
  <2> DEFINE p == <<end + 1, 1>>
  <2>1. Walked(w.listed, p)
    <3>1. p \in Positions /\ p[1] > Len(Table) /\ pos[1] > Len(Table)
      BY <1>0, <1>4 DEF Positions
    <3>2. Before(p) = Before(pos)
      BY <1>1, <3>1, EndIsAll
    <3> QED BY <1>1, <3>1, <3>2 DEF Walked
  <2>2. ~(h > end)
    BY <1>0, <1>4
  <2>3. Round(w) = send_message(GoOn(w, p))
    BY <1>r, <1>4, <2>2
  <2> HIDE DEF p
  <2>4. ListSound(GoOn(w, p))
    BY <2>1, GoOnSound
  <2> QED BY <2>3, <2>4, ListMessageSound
<1>5. CASE h < end /\ i > Len(Table[h])
  <2> DEFINE p == <<h + 1, 1>>
  <2>1. h \in 1 .. Len(Table)
    BY <1>0, <1>2, <1>5
  <2>2. Before(p) \subseteq Before(pos)
    BY <1>2, <1>5, <2>1, NextIsBehind
  <2>a. p \in Positions
    BY <1>2 DEF Positions
  <2>3. Walked(w.listed, p)
    BY <1>1, <2>a, <2>2 DEF Walked
  <2>4. ~(h > end) /\ h # end
    BY <1>0, <1>2, <1>5
  <2>5. Round(w) = GoOn(w, p)
    BY <1>r, <1>5, <2>4
  <2> HIDE DEF p
  <2> QED BY <2>3, <2>5, GoOnSound
<1>6. CASE h < end /\ ~(i > Len(Table[h]))
  <2>1. h \in 1 .. Len(Table)
    BY <1>0, <1>2, <1>6
  <2>2. Len(Table[h]) \in Nat
    BY <2>1, TableIsSeq
  <2>3. i \in 1 .. Len(Table[h])
    BY <1>2, <1>6, <2>2
  <2>4. ~(h > end) /\ h # end
    BY <1>0, <1>2, <1>6
  <2>5. Round(w) = ListChannel(w, <<h, i>>)
    BY <1>r, <1>2, <1>6, <2>4
  <2> QED BY <1>1, <1>2, <2>1, <2>3, <2>5, ListChannelSound
<1> QED BY <1>0, <1>2, <1>3, <1>4, <1>5, <1>6

(* Every event keeps what was listed ahead of the walks under way.         *)
LEMMA ListStep ==
  ASSUME ListSound(World), [ReplyNext]_replyVars
  PROVE  ListSound(World)'
<1> DEFINE W == World
<1>0. /\ W.queued = queued /\ W.room = room /\ W.starthash = starthash /\ W.listed = listed
      /\ W.answer = answer /\ W.write = write /\ W.dead = dead /\ W.stack = stack
  BY DEF World
<1>1. ASSUME NEW v, ListSound(v), Becomes(v) PROVE ListSound(W)'
  <2>1. /\ v.queued = queued' /\ v.room = room' /\ v.starthash = starthash'
        /\ v.listed = listed' /\ v.answer = answer' /\ v.write = write'
        /\ v.dead = dead' /\ v.stack = stack'
    BY <1>1 DEF Becomes
  <2>2. IsReply(v)
    BY <1>1 DEF ListSound
  <2>3. W' = v
    BY <2>1, <2>2 DEF World, IsReply
  <2> QED BY <1>1, <2>3 DEF ListSound, WalkSound, IsReply, Walked, Before
<1>w. W.stack = stack
  BY <1>0
<1> HIDE DEF W
<1>2. ASSUME NEW v, v = [W EXCEPT !.answer = "listing"] \/ v = [W EXCEPT !.write = FALSE]
      PROVE  ListSound(v)
  <2>1. IsReply(v) /\ v.stack = W.stack /\ v.starthash = W.starthash /\ v.listed = W.listed
        /\ v.answer \in {"listing", W.answer}
    BY <1>2 DEF W, ListSound, IsReply
  <2> QED BY <2>1 DEF W, ListSound, WalkSound
<1>3. CASE UNCHANGED replyVars
  <2>1. W' = W
    BY <1>3 DEF W, World, replyVars
  <2>2. ListSound(W)
    BY DEF W
  <2> QED BY <2>1, <2>2 DEF W, ListSound, WalkSound, IsReply, Walked, Before
<1>4. CASE Walk
  <2>1. W.stack # << >> /\ Becomes(Round(W))
    BY <1>4, <1>w DEF Walk, W
  <2>2. ListSound(Round(W))
    BY <2>1, RoundSound DEF W
  <2> QED BY <1>1, <2>1, <2>2 DEF W
<1>5. CASE List
  <2> DEFINE v == [W EXCEPT !.answer = "listing"]
  <2>1. Becomes(send_list(v))
    BY <1>5 DEF List, W
  <2>2. ListSound(v)
    BY <1>2
  <2> HIDE DEF v
  <2> QED BY <1>1, <2>1, <2>2, SendListSound DEF W
<1>6. CASE Message
  <2>1. Becomes(send_message(W)) /\ ListSound(W)
    BY <1>6 DEF Message, W
  <2> QED BY <1>1, <2>1, ListMessageSound DEF W
<1>7. CASE Writable
  <2> DEFINE v == [W EXCEPT !.write = FALSE]
  <2>1. Becomes(send_queued(v))
    BY <1>7 DEF Writable, W
  <2>2. ListSound(v)
    BY <1>2
  <2> HIDE DEF v
  <2> QED BY <1>1, <2>1, <2>2, ListQueuedSound DEF W
<1>8. ASSUME NEW k \in 1 .. Room, PeerReads(k) PROVE ListSound(W)'
  <2> DEFINE v == [W EXCEPT !.room = room + k]
  <2>1. /\ IsReply(v) /\ v.queued = queued /\ v.room = room + k /\ v.starthash = starthash
        /\ v.listed = listed /\ v.answer = answer /\ v.write = write /\ v.dead = dead
        /\ v.stack = stack
    BY <1>0 DEF IsReply, W, World
  <2> HIDE DEF v
  <2>2. Becomes(v)
    BY <1>8, <2>1 DEF PeerReads, Becomes
  <2>3. ListSound(v)
    BY <1>0, <2>1, SameWalk DEF W
  <2> QED BY <1>1, <2>2, <2>3
<1> QED BY <1>3, <1>4, <1>5, <1>6, <1>7, <1>8 DEF ReplyNext, W

(* The end of a list is sent only after all channels, however often the    *)
(* list was interrupted, resumed and entered again (channel.c send_list).  *)
THEOREM EndAlwaysComplete == ReplySpec => []EndIsComplete
<1>1. ReplyInit => ListSound(World)
  <2> SUFFICES ASSUME ReplyInit PROVE ListSound(World)
    OBVIOUS
  <2> DEFINE W == World
  <2>1. IsReply(W) /\ W.stack = << >> /\ W.starthash = 0 /\ W.listed = {} /\ W.answer = "none"
    BY DEF World, ReplyInit, IsReply
  <2> HIDE DEF W
  <2>2. Walked({}, <<0 + 1, 1>>)
    BY TableIsSeq DEF Walked, Positions, Before
  <2>3. ListSound(W)
    BY <2>1, <2>2 DEF ListSound, WalkSound
  <2> QED BY <2>3 DEF W
<1>2. ListSound(World) /\ [ReplyNext]_replyVars => ListSound(World)'
  BY ListStep
<1>3. ListSound(World) => EndIsComplete
  BY DEF ListSound, WalkSound, World, EndIsComplete
<1> QED BY <1>1, <1>2, <1>3, PTL DEF ReplySpec
=============================================================================
