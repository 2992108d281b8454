CONSTANTS
  h1 = h1  h2 = h2  r1 = r1  p1 = p1
  BootstrapHosts <- MCBootstrapHosts
  Remotes = {r1}
  Peers = {p1}
  NoId = NoId  ShortId = ShortId
  EmptyTid = EmptyTid  LongTid = LongTid
  BatchSize = 1
  CloseEnough = 1
  MaxSendQueue = 2
  TxnMod = 2
  AssertsOn = TRUE
  Many = 1
SPECIFICATION Spec
PROPERTY
  OnlyLateRepliesUnexpected
CHECK_DEADLOCK FALSE
