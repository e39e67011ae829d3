CONSTANTS
  ann = ann
  bob = bob
  cat = cat
  d1 = d1
  d2 = d2
  c1 = c1
  k1 = k1
  k2 = k2
  r1 = r1
  r2 = r2
  r3 = r3
  Names = {ann, bob, cat}
  Devices = {d1, d2}
  Codes = {c1}
  Tokens = {k1, k2}
  Requests = {r1, r2, r3}
  Console = Console
  None = None
  Torn = Torn
  MaxFails = 1
  Open = FALSE
  Loads <- AccountLoads
SPECIFICATION Spec
INVARIANTS TypeOK AnswersDurable InviteLimit LiveEntitled
CHECK_DEADLOCK FALSE
