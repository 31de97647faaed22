SPECIFICATION Spec
CONSTANTS
  o1 = o1
  Offers = {o1}
  RxCapacity = 32
  MessageIds = 1
  IdRetries = 2
  MaxErrs = 2
  MaxNoise = 0
  MaxBoots = 1
INVARIANTS
  OnlineConfigured
  RightCc
  OnlyAckedOnline
  WireWellFormed
  TxBacklog
  SourceNotSlept
  VbusLossNotSlept
  
CONSTRAINT ShortFifo
