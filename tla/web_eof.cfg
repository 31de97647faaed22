SPECIFICATION FairSpec
CONSTANTS
  t1 = t1
  Tasks = {t1}
  Others = {"pd"}
  BufferLen = 2
  RxLen = 2
  TxLen = 2
  ReplyLen = 2
  PageLens = {1, 3}
PROPERTIES
  ReadEnds
