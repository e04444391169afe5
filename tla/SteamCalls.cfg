SPECIFICATION FairSpec
CONSTANTS
  r1 = r1
  r2 = r2
  r3 = r3
  i1 = i1
  i2 = i2
  m1 = m1
  m2 = m2
  Nobody = Nobody
  Requests = {r1, r2, r3}
  Instances = {i1, i2}
  Messages = {m1, m2}
  Owner <- MCOwner
  Awaits <- MCAwaits
INVARIANTS TypeOK OwnedWhileOpen SteamCallsTheLiving NothingWaitsOnTheGone
PROPERTIES FuturesSpec
CHECK_DEADLOCK FALSE
