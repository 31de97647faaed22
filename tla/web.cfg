SPECIFICATION FairSpec
CONSTANTS
  t1 = t1
  t2 = t2
  Tasks = {t1, t2}
  Others = {"pd"}
  BufferLen = 2
  RxLen = 1
  TxLen = 2
  ReplyLen = 2
  PageLens = {3}
INVARIANTS
  TypeOK
  GuardIndependentOfPeer
PROPERTIES
  BusReturned
  ReplyEnds
  FailedAcceptRecovers
