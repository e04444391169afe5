SPECIFICATION Spec
CONSTANTS
  l1 = l1
  l2 = l2
  Me = Me
  None = None
  Lobby <- TwoLobbies
  Peer = {p1, p2}
  MaxMoves = 4
  MaxQueue = 2
INVARIANTS TypeOK MembershipIsAccountedFor ActiveIsJoined LeftLobbiesAreForgotten SettledViewIsTrue BrowsedCountIsRight
PROPERTY ServerIsBound
SYMMETRY Symmetric
CHECK_DEADLOCK FALSE
