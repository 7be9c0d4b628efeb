CONSTANTS
  Clients = {me, c1, c2}
  Me = me
  Local = {c1}
  Opers = {me, c2}
  Blocks = {b0, b1, b2}
  LevBlock = b0
  Names = {lev, n1, z}
  LevName = lev
  Bucket0 = {z}
  NoName = noname
  MaxJoined = 1
SPECIFICATION Spec
INVARIANTS MembershipMirror CountsExact LevelChannelLive FoundNamesUnique InviteBackLinks
PROPERTIES EmptiedIsFreed
SYMMETRY Symmetry
CHECK_DEADLOCK FALSE
