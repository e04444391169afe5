SPECIFICATION FairSpec
CONSTANTS
  Game = Game
  Beacon = Beacon
  Drivers = {Game, Beacon}
  Relay = {Game}
  Links = {c1, c2}
  Handles = {h1, h2, h3}
  Address <- MCAddress
  None = None
INVARIANTS TypeOK OpenConnectionIsFound NobodyIsLeftRinging ListenersAreDriven AddressHasAListener
PROPERTIES AddressGoesWithItsListener EndedIsForgotten MarkedRecordsGo
CHECK_DEADLOCK FALSE
