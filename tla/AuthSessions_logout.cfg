SPECIFICATION Spec
CONSTANTS
  u1 = u1
  u2 = u2
  c1 = c1
  c2 = c2
  c3 = c3
  NoConn = NoConn
  Users <- OneUser
  Conns <- TwoConns
  Accounts <- UserOnly
  FreedAuthReads <- MemoryIntact
PROPERTY NothingOutlivesTheLogin
CHECK_DEADLOCK FALSE
