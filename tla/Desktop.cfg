CONSTANTS
  code = code
  t1 = t1
  t2 = t2
  p1 = p1
  Codes = {code}
  Tokens = {t1, t2}
  Peers = {p1}
  Calls = {1, 2}
  MaxGen = 4
  None = None
  Part = Part
  Loads <- DesktopLoads
SPECIFICATION Spec
INVARIANTS TypeOK InStep NeverSilent
PROPERTIES StoppedEnds RefusalShown Reconnects
CHECK_DEADLOCK FALSE
