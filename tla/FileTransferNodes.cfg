CONSTANTS
  t1 = t1
  t2 = t2
  l1 = l1
  l2 = l2
  phone = phone
  report = report
  notes = notes
  None = None
  Senders = {phone}
  From <- OneSender
  Sender <- SentByPhone
  Names = {report}
  NodeOf <- NodeEach
  Nodes = {1, 2}
  Links = {l1, l2}
  Relayed = {l1}
  Transfers = {t1, t2}
  Chunks <- OneChunk
  Name <- SameNames
  Labels = {report, notes}
  Label <- Announced
  MayRefuse = FALSE
  DiskMayFail = TRUE
  MayExpire = TRUE
  ListLimit = 2
  Budget <- NoTrouble
SPECIFICATION Spec
CHECK_DEADLOCK FALSE
INVARIANT TypeOK WholeFiles StoredNotBusy
