CONSTANTS
  d1 = d1
  d2 = d2
  x = x
  c1 = c1
  c2 = c2
  c3 = c3
  t1 = t1
  t2 = t2
  Devices = {d1, d2}
  Contents = {x}
  Ids = {1, 2}
  NoClip = NoClip
  Conns = {c1, c2, c3}
  DeviceOf <- Reconnect
  Traffic <- TwoClips
  Transfers = {t1, t2}
  From <- Sends
  To <- Gets
  Chunks <- OneChunk
  None = None
  Loads <- HubLoads
SPECIFICATION Spec
INVARIANTS TypeOK Offered InflightConnected NoneForgotten InOrder ListOffered
CHECK_DEADLOCK FALSE
PROPERTY SenderTold
