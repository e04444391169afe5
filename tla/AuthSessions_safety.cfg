SPECIFICATION Spec
CONSTANTS
  u1 = u1
  u2 = u2
  c1 = c1
  c2 = c2
  c3 = c3
  NoConn = NoConn
  Users <- TwoUsers
  Conns <- ThreeConns
  Accounts <- Both
  FreedAuthReads <- MemoryIntact
SYMMETRY Symmetric
INVARIANTS TypeOK SteamIsAccountedFor RecordedOnce EverySessionHasACloser
PROPERTIES OnlySteamTakesASession GrantedForItsOwnTicket
CHECK_DEADLOCK FALSE
