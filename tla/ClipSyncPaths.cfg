CONSTANTS
  d1 = d1
  d2 = d2
  x = x
  y = y
  c1 = c1
  c2 = c2
  Devices = {d1, d2}
  Contents = {x, y}
  Ids = {1, 2}
  NoClip = NoClip
  MaxItems = 50
  MaxBytes = 100
  Size <- OneEach
  Conns = {c1, c2}
  Dialer <- Pair
  Acceptor <- PairTo
  NoContent = NoContent
  StartContents = {NoContent}
  ColdStart = {}
  Linked = {c1}
  Watching = {d1, d2}
  Users = {d1, d2}
  Marks = {FALSE}
  Oversized = {}
  Readable <- AllReadable
  Clock = {1}
  SeenLimit = 4096
  WithHistory = FALSE
  ClipboardMayFail = FALSE
  Budget <- PathLimits
SPECIFICATION Spec
INVARIANT NeighboursAgree
PROPERTY AppliedOnce
