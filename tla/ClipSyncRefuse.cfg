CONSTANTS
  d1 = d1
  d2 = d2
  x = x
  y = y
  c1 = c1
  c2 = c2
  Devices = {d1, d2}
  Contents = {x, y}
  Ids = {1, 2}
  NoClip = NoClip
  MaxItems = 2
  MaxBytes = 2
  Size <- OneEach
  Conns = {c1}
  Dialer <- Single
  Acceptor <- SingleTo
  NoContent = NoContent
  StartContents = {NoContent}
  ColdStart = {}
  Linked = {c1}
  Watching = {d1, d2}
  Users = {d1, d2}
  Marks = {TRUE, FALSE}
  Oversized = {}
  Readable <- D2ReadsX
  Clock = {1}
  SeenLimit = 4096
  WithHistory = TRUE
  ClipboardMayFail = TRUE
  Budget <- RefuseLimits
SPECIFICATION Spec
INVARIANT NeighboursAgree HistoryComplete
