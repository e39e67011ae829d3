CONSTANTS
  t1 = t1
  t2 = t2
  l1 = l1
  l2 = l2
  phone = phone
  report = report
  notes = notes
  None = None
  Senders = {phone}
  From <- OneSender
  Sender <- SentByPhone
  Names = {report}
  NodeOf <- FirstNode
  Nodes = {1}
  Links = {l1}
  Relayed = {l1}
  Transfers = {t1}
  Chunks <- TwoChunks
  Name <- SameNames
  Labels = {report, notes}
  Label <- Alike
  MayRefuse = TRUE
  DiskMayFail = TRUE
  MayExpire = TRUE
  ListLimit = 30
  Budget <- Trouble
SPECIFICATION FairSpec
CHECK_DEADLOCK FALSE
PROPERTY Implements EveryTransferEnds
