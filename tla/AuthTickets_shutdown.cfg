SPECIFICATION Spec
CONSTANTS
  Conns = {c1, c2}
  Tokens = {t1}
  None = None
INVARIANT NothingIsLeftBehind
CHECK_DEADLOCK FALSE
