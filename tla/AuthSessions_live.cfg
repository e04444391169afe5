SPECIFICATION FairSpec
CONSTANTS
  u1 = u1
  u2 = u2
  c1 = c1
  c2 = c2
  c3 = c3
  NoConn = NoConn
  Users <- TwoUsers
  Conns <- TwoConns
  Accounts <- ServerOnly
  FreedAuthReads <- MemoryIntact
PROPERTIES EveryTicketIsAnswered NobodyIsLockedOut
CHECK_DEADLOCK FALSE
