SPECIFICATION FairSpec
CONSTANTS
  Conns = {c1, c2}
  Tokens = {t1}
  None = None
INVARIANTS TypeOK RecordedIsGood OfferedStaysGood
PROPERTIES TicketsGoWithTheirConnection
CHECK_DEADLOCK FALSE
