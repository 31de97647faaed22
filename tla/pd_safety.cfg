SPECIFICATION Spec
CONSTANTS
  o1 = o1
  o2 = o2
  Offers = {o1, o2}
  RxCapacity = 25
  MessageIds = 2
  IdRetries = 2
  MaxErrs = 0
  MaxNoise = 1
  MaxBoots = 1
INVARIANTS
  TypeOK
  NoLostWakeup
  HandledGenuine
PROPERTIES
  ImplementsReply
SYMMETRY Symmetry
CONSTRAINT OneFault
